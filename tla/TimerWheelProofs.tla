--------------------------- MODULE TimerWheelProofs ---------------------------
(***************************************************************************)
(* Proofs about TimerWheel, for every finite set of nodes, every number of *)
(* slots that divides the word, every word size and every longest delay.   *)
(*                                                                         *)
(* The proof has two layers.  The lower one is about the hooks: whatever   *)
(* sequence of erase and push_back made them, next and prev form one ring  *)
(* per list, and home says which list holds a node.  The upper one is      *)
(* about ticks and deadlines and sees the lists only through home.         *)
(***************************************************************************)
EXTENDS TimerWheel, ModArith, FiniteSetTheorems

\* NumSlots and Word are sizes, and NumSlots divides Word.
LEMMA Sizes ==
    /\ NumSlots \in Nat \ {0} /\ Word \in Nat \ {0} /\ NumSlots < Word
    /\ Word % NumSlots = 0 /\ NumSlots \in Int /\ Word \in Int
    /\ MaxDelay \in Nat /\ 1 <= MaxDelay /\ MaxDelay < Word
BY TimerWheelAssumption

\* The slot of a tick does not notice that the counter wrapped.
LEMMA SlotOfTick ==
    ASSUME NEW x \in Int
    PROVE  (x % Word) % NumSlots = x % NumSlots
<1>1. PICK q \in Int : x = (Word * q) + (x % Word)
    BY Sizes, ModDef
<1>2. PICK r \in 0..(Word - 1) : r = x % Word
    BY Sizes, ModDef
<1>3. PICK k \in Int : Word = (NumSlots * k) + (Word % NumSlots)
    BY Sizes, ModDef
<1>4. Word = NumSlots * k
    BY <1>3, Sizes
<1>5. PICK m \in Int : m = k * q
    OBVIOUS
<1>6. Word * q = NumSlots * m
    BY <1>4, <1>5, Sizes
<1>7. r \in Int
    BY <1>2, Sizes
<1>8. (r + (NumSlots * m)) % NumSlots = r % NumSlots
    BY <1>7, Sizes, ModAddMultiple
<1>9. r + (NumSlots * m) = x
    <2>1. PICK y \in Int : y = Word * q
        BY Sizes
    <2>. QED  BY <1>1, <1>2, <1>6, <1>7, <2>1
<1>. QED  BY <1>2, <1>8, <1>9

-----------------------------------------------------------------------------
(***************************************************************************)
(* The rings                                                               *)
(***************************************************************************)

\* The heads of the lists, and the values of the hooks.
List == {bucket(s) : s \in Slot} \cup {pending}
Links == [next : [Hook -> Hook], prev : [Hook -> Hook]]

\* c[L][1], ..., c[L][len[L]] are the nodes of list L in their order, between the
\* sentinel at 0 and the sentinel again at len[L] + 1.
Rings(l, len, c) ==
    /\ len \in [List -> Nat] /\ c \in [List -> [Nat -> Hook]]
    /\ \A L \in List : c[L][0] = L /\ c[L][len[L] + 1] = L
    /\ \A L \in List : \A i \in 1..len[L] : c[L][i] \in Node
    /\ \A L, M \in List : \A i \in 1..len[L] : \A j \in 1..len[M] :
           c[L][i] = c[M][j] => L = M /\ i = j
    /\ \A L \in List : \A i \in 0..len[L] : l.next[c[L][i]] = c[L][i + 1]
    /\ \A n \in Node : l.next[n] # n => \E L \in List : \E i \in 1..len[L] : c[L][i] = n

\* The place of a node closes up, and a place for a node opens at the end.
Erased(c, L, j) == [c EXCEPT ![L] = [i \in Nat |-> IF i < j THEN c[L][i] ELSE c[L][i + 1]]]
Shrunk(len, L) == [len EXCEPT ![L] = len[L] - 1]
Pushed(len, c, L, n) ==
    [c EXCEPT ![L] = [i \in Nat |-> IF i <= len[L] THEN c[L][i]
                                    ELSE IF i = len[L] + 1 THEN n ELSE L]]
Grown(len, L) == [len EXCEPT ![L] = len[L] + 1]

\* The nodes of a list.
Members(len, c, L) == {c[L][i] : i \in 1..len[L]}

\* prev is the inverse of next.
TwoWay(l) ==
    /\ l \in Links
    /\ \A h \in Hook : l.prev[l.next[h]] = h /\ l.next[l.prev[h]] = h

\* The lists that hold a node, for hooks that form rings.
Ringed(l, home) ==
    /\ TwoWay(l) /\ home \in [Node -> SUBSET List]
    /\ \E len, c : /\ Rings(l, len, c)
                   /\ \A n \in Node : \A L \in List : L \in home[n] <=> n \in Members(len, c, L)

\* Nodes and sentinels are hooks, and no node is a sentinel.
LEMMA Hooks ==
    /\ List \subseteq Hook /\ Node \subseteq Hook /\ \A n \in Node : n \notin List
    /\ \A s \in Slot : bucket(s) \in List /\ bucket(s) # pending
    /\ pending \in List /\ \A s, t \in Slot : bucket(s) = bucket(t) => s = t
<1>1. \A s \in Slot : s \in 0..NumSlots /\ s # NumSlots
    BY Sizes DEF Slot
<1>2. NumSlots \in 0..NumSlots
    BY Sizes
<1>3. \A n \in Node : n \notin List
    BY <1>1, <1>2, TimerWheelAssumption DEF List, bucket, pending
<1>4. \A s \in Slot : bucket(s) \in List /\ bucket(s) # pending
    BY <1>1 DEF List, bucket, pending
<1>. QED  BY <1>3, <1>4 DEF List, Hook, bucket, pending

\* A node that a ring holds is linked, between its neighbours.
LEMMA InRing ==
    ASSUME NEW l, NEW len, NEW c, TwoWay(l), Rings(l, len, c),
           NEW L \in List, NEW j \in 1..len[L]
    PROVE  /\ c[L][j] \in Node /\ len[L] \in Nat
           /\ l.next[c[L][j]] = c[L][j + 1] /\ l.prev[c[L][j]] = c[L][j - 1]
           /\ c[L][j + 1] \in Hook /\ c[L][j - 1] \in Hook
           /\ c[L][j + 1] # c[L][j] /\ c[L][j - 1] # c[L][j]
<1>1. len[L] \in Nat /\ c[L] \in [Nat -> Hook] /\ c[L][j] \in Node
    BY DEF Rings
<1>2. j - 1 \in Nat /\ j \in Nat /\ j + 1 \in Nat /\ j - 1 \in 0..len[L] /\ j \in 0..len[L]
      /\ (j - 1) + 1 = j
    BY <1>1
<1>3. l.next[c[L][j]] = c[L][j + 1] /\ l.next[c[L][j - 1]] = c[L][j]
    <2>1. l.next[c[L][j - 1]] = c[L][(j - 1) + 1]
        BY <1>2 DEF Rings
    <2>. QED  BY <1>2, <2>1 DEF Rings
<1>4. c[L][j + 1] \in Hook /\ c[L][j - 1] \in Hook
    BY <1>1, <1>2
<1>5. l.prev[c[L][j]] = c[L][j - 1]
    BY <1>3, <1>4 DEF TwoWay
<1>6. c[L][j + 1] # c[L][j]
    <2>1. CASE j = len[L]
        BY <1>1, <2>1, Hooks DEF Rings
    <2>2. CASE j # len[L]
        <3>1. j + 1 \in 1..len[L] /\ j + 1 # j
            BY <1>1, <2>2
        <3>. QED  BY <3>1 DEF Rings
    <2>. QED  BY <2>1, <2>2
<1>7. c[L][j - 1] # c[L][j]
    <2>1. CASE j = 1
        BY <1>1, <2>1, Hooks DEF Rings
    <2>2. CASE j # 1
        <3>1. j - 1 \in 1..len[L] /\ j - 1 # j
            BY <1>1, <2>2
        <3>. QED  BY <3>1 DEF Rings
    <2>. QED  BY <2>1, <2>2
<1>. QED  BY <1>1, <1>3, <1>4, <1>5, <1>6, <1>7

\* is_linked says whether a list holds the node, and only one does.
LEMMA LinkedIsHome ==
    ASSUME NEW l, NEW home, Ringed(l, home), NEW n \in Node
    PROVE  /\ is_linked(l, n) <=> home[n] # {}
           /\ home[n] \subseteq List /\ \A L, M \in home[n] : L = M
<1>1. PICK len, c : /\ Rings(l, len, c)
                    /\ \A m \in Node : \A L \in List :
                           L \in home[m] <=> \E i \in 1..len[L] : c[L][i] = m
    BY DEF Ringed, Members
<1>2. home[n] \subseteq List /\ TwoWay(l)
    BY DEF Ringed
<1>3. ASSUME NEW L \in List, NEW i \in 1..len[L], c[L][i] = n PROVE l.next[n] # n
    BY <1>1, <1>2, <1>3, InRing
<1>4. is_linked(l, n) <=> home[n] # {}
    BY <1>1, <1>2, <1>3 DEF Rings, is_linked
<1>5. ASSUME NEW L \in home[n], NEW M \in home[n] PROVE L = M
    BY <1>1, <1>2 DEF Rings
<1>. QED  BY <1>2, <1>4, <1>5

\* The front of a list: its sentinel is linked to itself when nothing is in it.
LEMMA FrontIsHome ==
    ASSUME NEW l, NEW home, Ringed(l, home), NEW L \in List
    PROVE  /\ is_linked(l, L) => l.next[L] \in Node /\ L \in home[l.next[L]]
           /\ ~is_linked(l, L) => \A n \in Node : L \notin home[n]
<1>1. PICK len, c : /\ Rings(l, len, c)
                    /\ \A m \in Node : \A M \in List :
                           M \in home[m] <=> \E i \in 1..len[M] : c[M][i] = m
    BY DEF Ringed, Members
<1>2. len[L] \in Nat /\ c[L][0] = L /\ c[L][len[L] + 1] = L
    BY <1>1 DEF Rings
<1>3. l.next[L] = c[L][1]
    <2>1. 0 \in 0..len[L] /\ 0 + 1 = 1
        BY <1>2
    <2>2. l.next[c[L][0]] = c[L][0 + 1]
        BY <1>1, <2>1 DEF Rings
    <2>. QED  BY <1>2, <2>1, <2>2
<1>4. CASE len[L] = 0
    <2>1. l.next[L] = L
        BY <1>2, <1>3, <1>4
    <2>2. \A n \in Node : L \notin home[n]
        BY <1>1, <1>4
    <2>. QED  BY <2>1, <2>2 DEF is_linked
<1>5. CASE len[L] # 0
    <2>1. 1 \in 1..len[L]
        BY <1>2, <1>5
    <2>2. l.next[L] \in Node /\ L \in home[l.next[L]]
        BY <1>1, <1>3, <2>1 DEF Rings
    <2>3. l.next[L] # L
        BY <2>2, Hooks
    <2>. QED  BY <2>2, <2>3 DEF is_linked
<1>. QED  BY <1>4, <1>5

\* Sentinels included, no hook is in two places.
LEMMA RingDistinct ==
    ASSUME NEW l, NEW len, NEW c, Rings(l, len, c), NEW L \in List, NEW M \in List,
           NEW x \in 0..len[L], NEW y \in 0..len[M], c[L][x] = c[M][y]
    PROVE  L = M /\ x = y
<1>1. len[L] \in Nat /\ len[M] \in Nat /\ c[L][0] = L /\ c[M][0] = M
    BY DEF Rings
<1>2. x # 0 => x \in 1..len[L] /\ c[L][x] \in Node
    BY <1>1 DEF Rings
<1>3. y # 0 => y \in 1..len[M] /\ c[M][y] \in Node
    BY <1>1 DEF Rings
<1>4. CASE x = 0
    BY <1>1, <1>3, <1>4, Hooks
<1>5. CASE y = 0
    BY <1>1, <1>2, <1>5, Hooks
<1>6. CASE x # 0 /\ y # 0
    BY <1>2, <1>3, <1>6 DEF Rings
<1>. QED  BY <1>4, <1>5, <1>6

\* erase repairs both chains around the node, whichever list holds it.
LEMMA EraseRing ==
    ASSUME NEW l, NEW len, NEW c, TwoWay(l), Rings(l, len, c),
           NEW L \in List, NEW j \in 1..len[L], NEW n, n = c[L][j],
           NEW m, m = erase(l, n),
           NEW len2, len2 = Shrunk(len, L), NEW c2, c2 = Erased(c, L, j)
    PROVE  /\ TwoWay(m) /\ Rings(m, len2, c2)
           /\ \A M \in List : Members(len2, c2, M) = Members(len, c, M) \ {n}
<1>1. PICK p, s : p = c[L][j - 1] /\ s = c[L][j + 1]
    OBVIOUS
<1>2. /\ n \in Node /\ n \in Hook /\ p \in Hook /\ s \in Hook /\ len[L] \in Nat
      /\ l.next[n] = s /\ l.prev[n] = p /\ s # n /\ p # n
    BY <1>1, InRing, Hooks
<1>3. l.next \in [Hook -> Hook] /\ l.prev \in [Hook -> Hook]
    BY DEF TwoWay, Links
<1>4. m = [next |-> [[l.next EXCEPT ![p] = s] EXCEPT ![n] = n],
           prev |-> [[l.prev EXCEPT ![s] = p] EXCEPT ![n] = n]]
    BY <1>2 DEF erase, is_linked
<1>5. /\ m \in Links
      /\ \A h \in Hook : m.next[h] = IF h = n THEN n ELSE IF h = p THEN s ELSE l.next[h]
      /\ \A h \in Hook : m.prev[h] = IF h = n THEN n ELSE IF h = s THEN p ELSE l.prev[h]
    BY <1>2, <1>3, <1>4 DEF Links
<1>6. TwoWay(m)
    <2>1. ASSUME NEW h \in Hook PROVE m.prev[m.next[h]] = h
        <3>1. l.next[h] \in Hook /\ l.prev[l.next[h]] = h /\ l.prev[s] = n
            BY <1>2, <1>3 DEF TwoWay
        <3>. QED  BY <1>2, <1>5, <3>1
    <2>2. ASSUME NEW h \in Hook PROVE m.next[m.prev[h]] = h
        <3>1. l.prev[h] \in Hook /\ l.next[l.prev[h]] = h /\ l.next[p] = n
            BY <1>2, <1>3 DEF TwoWay
        <3>. QED  BY <1>2, <1>5, <3>1
    <2>. QED  BY <1>5, <2>1, <2>2 DEF TwoWay
<1>7. PICK d : d = [i \in Nat |-> IF i < j THEN c[L][i] ELSE c[L][i + 1]]
    OBVIOUS
<1>24. len2 = [len EXCEPT ![L] = len[L] - 1] /\ c2 = [c EXCEPT ![L] = d]
    BY <1>7 DEF Shrunk, Erased
<1>8. /\ len \in [List -> Nat] /\ c \in [List -> [Nat -> Hook]] /\ c[L] \in [Nat -> Hook]
      /\ c[L][0] = L /\ c[L][len[L] + 1] = L
    BY DEF Rings
<1>9. PICK k \in Nat : k = len[L] - 1
    BY <1>2
<1>10. /\ len2 \in [List -> Nat] /\ len2[L] = k
       /\ \A M \in List : M # L => len2[M] = len[M]
    BY <1>8, <1>9, <1>24
<1>11. d \in [Nat -> Hook]
    BY <1>7, <1>8
<1>12. c2 \in [List -> [Nat -> Hook]] /\ c2[L] = d /\ \A M \in List : M # L => c2[M] = c[M]
    BY <1>8, <1>11, <1>24
<1>13. /\ \A i \in Nat : i < j => d[i] = c[L][i]
       /\ \A i \in Nat : i >= j => d[i] = c[L][i + 1]
    BY <1>2, <1>7
<1>14. \A M \in List : c2[M][0] = M /\ c2[M][len2[M] + 1] = M
    <2>1. d[0] = L
        BY <1>2, <1>8, <1>13
    <2>2. d[k + 1] = L
        <3>1. k + 1 \in Nat /\ k + 1 >= j /\ (k + 1) + 1 = len[L] + 1
            BY <1>2, <1>9
        <3>. QED  BY <1>8, <1>13, <3>1
    <2>3. ASSUME NEW M \in List, M # L PROVE c2[M][0] = M /\ c2[M][len2[M] + 1] = M
        BY <1>10, <1>12, <2>3 DEF Rings
    <2>. QED  BY <1>10, <1>12, <2>1, <2>2, <2>3
<1>15. ASSUME NEW i \in 1..k
       PROVE  \E x \in 1..len[L] : d[i] = c[L][x] /\ x # j /\ x = IF i < j THEN i ELSE i + 1
    BY <1>2, <1>9, <1>13
<1>16. \A M \in List : \A i \in 1..len2[M] : c2[M][i] \in Node
    <2>1. ASSUME NEW i \in 1..k PROVE d[i] \in Node
        BY <1>15 DEF Rings
    <2>2. ASSUME NEW M \in List, M # L, NEW i \in 1..len2[M] PROVE c2[M][i] \in Node
        BY <1>10, <1>12, <2>2 DEF Rings
    <2>. QED  BY <1>10, <1>12, <2>1, <2>2
<1>17. ASSUME NEW M \in List, NEW N \in List, NEW x \in 1..len2[M], NEW y \in 1..len2[N],
              c2[M][x] = c2[N][y]
       PROVE  M = N /\ x = y
    <2>1. PICK u \in 1..len[M] : c2[M][x] = c[M][u]
                                 /\ (IF M # L THEN u = x ELSE u = IF x < j THEN x ELSE x + 1)
        <3>1. CASE M = L
            BY <1>10, <1>12, <1>15, <3>1
        <3>2. CASE M # L
            BY <1>10, <1>12, <3>2
        <3>. QED  BY <3>1, <3>2
    <2>2. PICK v \in 1..len[N] : c2[N][y] = c[N][v]
                                 /\ (IF N # L THEN v = y ELSE v = IF y < j THEN y ELSE y + 1)
        <3>1. CASE N = L
            BY <1>10, <1>12, <1>15, <3>1
        <3>2. CASE N # L
            BY <1>10, <1>12, <3>2
        <3>. QED  BY <3>1, <3>2
    <2>5. c[M][u] = c[N][v]
        BY <1>17, <2>1, <2>2
    <2>3. M = N /\ u = v
        BY <2>5 DEF Rings
    <2>4. x \in Int /\ y \in Int /\ j \in Int
        BY <1>2, <1>10
    <2>. QED  BY <2>1, <2>2, <2>3, <2>4
<1>18. ASSUME NEW M \in List, NEW i \in 0..len2[M]
       PROVE  m.next[c2[M][i]] = c2[M][i + 1]
    <2>1. CASE M # L
        <3>1. len2[M] = len[M] /\ c2[M] = c[M] /\ i \in 0..len[M] /\ len[M] \in Nat
            BY <1>8, <1>10, <1>12, <2>1
        <3>2. l.next[c[M][i]] = c[M][i + 1] /\ c[M][i] \in Hook
            BY <1>8, <3>1 DEF Rings
        <3>3. c[M][i] # n
            <4>1. j \in 0..len[L]
                BY <1>2
            <4>. QED  BY <2>1, <3>1, <4>1, RingDistinct
        <3>4. c[M][i] # p
            <4>1. j - 1 \in 0..len[L]
                BY <1>2
            <4>. QED  BY <1>1, <2>1, <3>1, <4>1, RingDistinct
        <3>. QED  BY <1>5, <3>1, <3>2, <3>3, <3>4
    <2>2. CASE M = L
        <3>1. i \in 0..k /\ i \in Nat /\ i + 1 \in Nat /\ j \in Nat /\ j <= k + 1 /\ 1 <= j
            BY <1>2, <1>9, <1>10, <2>2
        <3>2. CASE i < j - 1
            <4>1. d[i] = c[L][i] /\ d[i + 1] = c[L][i + 1]
                BY <1>13, <3>1, <3>2
            <4>2. i \in 0..len[L] /\ j \in 0..len[L] /\ j - 1 \in 0..len[L] /\ i # j /\ i # j - 1
                BY <1>2, <1>9, <3>1, <3>2
            <4>3. c[L][i] # n /\ c[L][i] # p
                BY <1>1, <4>2, RingDistinct
            <4>4. l.next[c[L][i]] = c[L][i + 1] /\ c[L][i] \in Hook
                BY <1>8, <3>1, <4>2 DEF Rings
            <4>. QED  BY <1>5, <1>12, <2>2, <4>1, <4>3, <4>4
        <3>3. CASE i = j - 1
            <4>1. i < j /\ i + 1 = j /\ j >= j /\ (i + 1) + 1 = j + 1
                BY <3>1, <3>3
            <4>2. d[i] = p /\ d[i + 1] = s
                BY <1>1, <1>13, <3>1, <3>3, <4>1
            <4>3. m.next[p] = s
                BY <1>2, <1>5
            <4>. QED  BY <1>12, <2>2, <4>2, <4>3
        <3>4. CASE i >= j
            <4>1. PICK x \in Nat : x = i + 1
                BY <3>1
            <4>2. d[i] = c[L][x] /\ d[x] = c[L][x + 1]
                BY <1>13, <3>1, <3>4, <4>1
            <4>3. x \in 0..len[L] /\ j \in 0..len[L] /\ j - 1 \in 0..len[L] /\ x # j /\ x # j - 1
                BY <1>2, <1>9, <3>1, <3>4, <4>1
            <4>4. c[L][x] # n /\ c[L][x] # p
                BY <1>1, <4>3, RingDistinct
            <4>5. l.next[c[L][x]] = c[L][x + 1] /\ c[L][x] \in Hook
                BY <1>8, <4>3 DEF Rings
            <4>. QED  BY <1>5, <1>12, <2>2, <4>1, <4>2, <4>4, <4>5
        <3>. QED  BY <3>1, <3>2, <3>3, <3>4
    <2>. QED  BY <2>1, <2>2
<1>19. ASSUME NEW M \in List, NEW x \in 1..len[M], c[M][x] # n
       PROVE  \E i \in 1..len2[M] : c2[M][i] = c[M][x]
    <2>3. CASE M # L
        BY <1>10, <1>12, <2>3
    <2>4. CASE M = L
        <3>1. x # j
            BY <1>19, <2>4
        <3>2. CASE x < j
            <4>1. x \in 1..k /\ x \in Nat
                BY <1>2, <1>9, <2>4, <3>2
            <4>. QED  BY <1>10, <1>12, <1>13, <2>4, <3>2, <4>1
        <3>3. CASE x > j
            <4>1. x - 1 \in 1..k /\ x - 1 \in Nat /\ x - 1 >= j /\ (x - 1) + 1 = x
                BY <1>2, <1>9, <2>4, <3>3
            <4>2. d[x - 1] = c[L][x]
                BY <1>13, <4>1
            <4>. QED  BY <1>10, <1>12, <2>4, <4>1, <4>2
        <3>. QED  BY <1>2, <2>4, <3>1, <3>2, <3>3
    <2>. QED  BY <2>3, <2>4
<1>20. ASSUME NEW a \in Node, m.next[a] # a
       PROVE  \E M \in List : \E i \in 1..len2[M] : c2[M][i] = a
    <2>1. a # n /\ a \in Hook
        BY <1>2, <1>5, <1>20, Hooks
    <2>2. PICK M \in List : \E x \in 1..len[M] : c[M][x] = a
        <3>1. CASE a = p
            <4>1. j - 1 # 0
                BY <1>1, <1>8, <3>1, Hooks
            <4>2. j - 1 \in 1..len[L]
                BY <1>2, <4>1
            <4>. QED  BY <1>1, <3>1, <4>2
        <3>2. CASE a # p
            BY <1>5, <1>20, <2>1, <3>2 DEF Rings
        <3>. QED  BY <3>1, <3>2
    <2>. QED  BY <1>19, <2>1, <2>2
<1>21. Rings(m, len2, c2)
    BY <1>10, <1>12, <1>14, <1>16, <1>17, <1>18, <1>20 DEF Rings
<1>22. ASSUME NEW M \in List, NEW i \in 1..len2[M]
       PROVE  c2[M][i] # n /\ \E x \in 1..len[M] : c[M][x] = c2[M][i]
    <2>1. CASE M # L
        <3>1. i \in 1..len[M] /\ c2[M][i] = c[M][i]
            BY <1>10, <1>12, <2>1
        <3>2. c[M][i] # c[L][j]
            BY <2>1, <3>1 DEF Rings
        <3>. QED  BY <3>1, <3>2
    <2>2. CASE M = L
        <3>1. PICK x \in 1..len[L] : d[i] = c[L][x] /\ x # j
            BY <1>10, <1>15, <2>2
        <3>2. c[L][x] # c[L][j]
            BY <3>1 DEF Rings
        <3>. QED  BY <1>12, <2>2, <3>1, <3>2
    <2>. QED  BY <2>1, <2>2
<1>23. ASSUME NEW M \in List PROVE Members(len2, c2, M) = Members(len, c, M) \ {n}
    <2>1. ASSUME NEW a \in Members(len2, c2, M) PROVE a \in Members(len, c, M) \ {n}
        BY <1>22 DEF Members
    <2>2. ASSUME NEW a \in Members(len, c, M) \ {n} PROVE a \in Members(len2, c2, M)
        <3>1. PICK x \in 1..len[M] : a = c[M][x]
            BY DEF Members
        <3>2. \E i \in 1..len2[M] : c2[M][i] = a
            BY <1>19, <3>1
        <3>. QED  BY <3>2 DEF Members
    <2>. QED  BY <2>1, <2>2
<1>. QED  BY <1>6, <1>21, <1>23

\* push_back links a node that no list holds between the last one and the sentinel.
LEMMA PushRing ==
    ASSUME NEW l, NEW len, NEW c, TwoWay(l), Rings(l, len, c),
           NEW L \in List, NEW n \in Node, l.next[n] = n,
           NEW m, m = push_back(l, L, n),
           NEW len2, len2 = Grown(len, L), NEW c2, c2 = Pushed(len, c, L, n)
    PROVE  /\ TwoWay(m) /\ Rings(m, len2, c2)
           /\ \A M \in List :
                  Members(len2, c2, M) = Members(len, c, M) \cup (IF M = L THEN {n} ELSE {})
<1>1. /\ len \in [List -> Nat] /\ c \in [List -> [Nat -> Hook]] /\ c[L] \in [Nat -> Hook]
      /\ c[L][0] = L /\ c[L][len[L] + 1] = L /\ len[L] \in Nat
    BY DEF Rings
<1>2. PICK k \in Nat : k = len[L]
    BY <1>1
<1>3. PICK p \in Hook : p = c[L][k]
    BY <1>1
<1>4. l.next \in [Hook -> Hook] /\ l.prev \in [Hook -> Hook] /\ n \in Hook /\ L \in Hook /\ n # L
    BY Hooks DEF TwoWay, Links
<1>5. ASSUME NEW M \in List, NEW i \in 0..len[M] PROVE c[M][i] # n
    <2>1. i = 0 => c[M][i] \in List
        BY DEF Rings
    <2>2. i # 0 => i \in 1..len[M]
        BY <1>1
    <2>3. i \in 1..len[M] => l.next[c[M][i]] # c[M][i]
        BY InRing
    <2>. QED  BY <2>1, <2>2, <2>3, Hooks
<1>6. l.next[p] = L /\ l.prev[L] = p /\ p # n /\ l.prev[n] = n
    <2>1. k \in 0..len[L]
        BY <1>2
    <2>2. l.next[c[L][k]] = c[L][k + 1]
        BY <2>1 DEF Rings
    <2>3. p # n
        BY <1>3, <1>5, <2>1
    <2>. QED  BY <1>1, <1>2, <1>3, <1>4, <2>2, <2>3 DEF TwoWay
<1>7. m = [next |-> [l.next EXCEPT ![n] = L, ![p] = n],
           prev |-> [[l.prev EXCEPT ![n] = p] EXCEPT ![L] = n]]
    BY <1>6 DEF push_back, insert_after
<1>8. /\ m \in Links
      /\ \A h \in Hook : m.next[h] = IF h = p THEN n ELSE IF h = n THEN L ELSE l.next[h]
      /\ \A h \in Hook : m.prev[h] = IF h = L THEN n ELSE IF h = n THEN p ELSE l.prev[h]
    BY <1>4, <1>7 DEF Links
<1>9. TwoWay(m)
    <2>1. ASSUME NEW h \in Hook PROVE m.prev[m.next[h]] = h
        <3>1. l.next[h] \in Hook /\ l.prev[l.next[h]] = h
            BY <1>4 DEF TwoWay
        <3>. QED  BY <1>4, <1>6, <1>8, <3>1
    <2>2. ASSUME NEW h \in Hook PROVE m.next[m.prev[h]] = h
        <3>1. l.prev[h] \in Hook /\ l.next[l.prev[h]] = h
            BY <1>4 DEF TwoWay
        <3>. QED  BY <1>4, <1>6, <1>8, <3>1
    <2>. QED  BY <1>8, <2>1, <2>2 DEF TwoWay
<1>10. PICK d : d = [i \in Nat |-> IF i <= len[L] THEN c[L][i] ELSE IF i = len[L] + 1 THEN n ELSE L]
    OBVIOUS
<1>24. len2 = [len EXCEPT ![L] = len[L] + 1] /\ c2 = [c EXCEPT ![L] = d]
    BY <1>10 DEF Grown, Pushed
<1>11. /\ len2 \in [List -> Nat] /\ len2[L] = k + 1
       /\ \A M \in List : M # L => len2[M] = len[M]
    BY <1>1, <1>2, <1>24
<1>12. /\ d \in [Nat -> Hook]
       /\ \A i \in Nat : i <= k => d[i] = c[L][i]
       /\ d[k + 1] = n /\ d[(k + 1) + 1] = L
    BY <1>1, <1>2, <1>4, <1>10
<1>13. c2 \in [List -> [Nat -> Hook]] /\ c2[L] = d /\ \A M \in List : M # L => c2[M] = c[M]
    BY <1>1, <1>12, <1>24
<1>14. \A M \in List : c2[M][0] = M /\ c2[M][len2[M] + 1] = M
    <2>1. c2[L][0] = L /\ c2[L][len2[L] + 1] = L
        BY <1>1, <1>11, <1>12, <1>13
    <2>2. ASSUME NEW M \in List, M # L PROVE c2[M][0] = M /\ c2[M][len2[M] + 1] = M
        BY <1>11, <1>13, <2>2 DEF Rings
    <2>. QED  BY <2>1, <2>2
<1>15. ASSUME NEW M \in List, NEW i \in 1..len2[M]
       PROVE  \/ i \in 1..len[M] /\ c2[M][i] = c[M][i]
              \/ M = L /\ i = k + 1 /\ c2[M][i] = n
    <2>1. CASE M # L
        BY <1>11, <1>13, <2>1
    <2>2. CASE M = L
        BY <1>2, <1>11, <1>12, <1>13, <2>2
    <2>. QED  BY <2>1, <2>2
<1>16. \A M \in List : \A i \in 1..len2[M] : c2[M][i] \in Node
    BY <1>15 DEF Rings
<1>17. ASSUME NEW M \in List, NEW N \in List, NEW x \in 1..len2[M], NEW y \in 1..len2[N],
              c2[M][x] = c2[N][y]
       PROVE  M = N /\ x = y
    <2>1. x \in 1..len[M] => x \in 0..len[M] /\ c[M][x] # n
        <3>1. x \in 1..len[M] => x \in 0..len[M]
            BY <1>1
        <3>. QED  BY <1>5, <3>1
    <2>2. y \in 1..len[N] => y \in 0..len[N] /\ c[N][y] # n
        <3>1. y \in 1..len[N] => y \in 0..len[N]
            BY <1>1
        <3>. QED  BY <1>5, <3>1
    <2>3. CASE x \in 1..len[M] /\ c2[M][x] = c[M][x] /\ y \in 1..len[N] /\ c2[N][y] = c[N][y]
        <3>1. c[M][x] = c[N][y]
            BY <1>17, <2>3
        <3>. QED  BY <2>3, <3>1 DEF Rings
    <2>4. CASE M = L /\ x = k + 1 /\ c2[M][x] = n
        BY <1>15, <1>17, <2>2, <2>4
    <2>5. CASE N = L /\ y = k + 1 /\ c2[N][y] = n
        BY <1>15, <1>17, <2>1, <2>5
    <2>. QED  BY <1>15, <2>3, <2>4, <2>5
<1>18. ASSUME NEW M \in List, NEW i \in 0..len2[M]
       PROVE  m.next[c2[M][i]] = c2[M][i + 1]
    <2>1. CASE M # L
        <3>1. c2[M] = c[M] /\ i \in 0..len[M] /\ len[M] \in Nat /\ i \in Nat
            BY <1>1, <1>11, <1>13, <2>1
        <3>2. l.next[c[M][i]] = c[M][i + 1] /\ c[M][i] \in Hook
            BY <1>1, <3>1 DEF Rings
        <3>3. c[M][i] # n
            BY <1>5, <3>1
        <3>4. c[M][i] # p
            <4>1. k \in 0..len[L]
                BY <1>2
            <4>. QED  BY <1>3, <2>1, <3>1, <4>1, RingDistinct
        <3>. QED  BY <1>8, <3>1, <3>2, <3>3, <3>4
    <2>2. CASE M = L
        <3>1. i \in Nat /\ i <= k + 1
            BY <1>11, <2>2
        <3>2. CASE i = k + 1
            <4>1. m.next[n] = L
                BY <1>4, <1>6, <1>8
            <4>. QED  BY <1>12, <1>13, <2>2, <3>2, <4>1
        <3>3. CASE i = k
            <4>1. m.next[p] = n
                BY <1>8
            <4>2. d[i] = p /\ d[i + 1] = n
                BY <1>3, <1>12, <3>1, <3>3
            <4>. QED  BY <1>13, <2>2, <4>1, <4>2
        <3>4. CASE i < k
            <4>1. d[i] = c[L][i] /\ d[i + 1] = c[L][i + 1]
                BY <1>12, <3>1, <3>4
            <4>2. i \in 0..len[L] /\ k \in 0..len[L] /\ i # k
                BY <1>2, <3>1, <3>4
            <4>3. c[L][i] # n /\ c[L][i] # p
                BY <1>3, <1>5, <4>2, RingDistinct
            <4>4. l.next[c[L][i]] = c[L][i + 1] /\ c[L][i] \in Hook
                BY <1>1, <3>1, <4>2 DEF Rings
            <4>. QED  BY <1>8, <1>13, <2>2, <4>1, <4>3, <4>4
        <3>. QED  BY <3>1, <3>2, <3>3, <3>4
    <2>. QED  BY <2>1, <2>2
<1>19. \A M \in List : \A i \in 1..len[M] : i \in 1..len2[M] /\ c2[M][i] = c[M][i]
    <2>1. ASSUME NEW M \in List, NEW i \in 1..len[M] PROVE i \in 1..len2[M] /\ c2[M][i] = c[M][i]
        <3>1. CASE M = L
            BY <1>2, <1>11, <1>12, <1>13, <3>1
        <3>2. CASE M # L
            BY <1>11, <1>13, <3>2
        <3>. QED  BY <3>1, <3>2
    <2>. QED  BY <2>1
<1>20. k + 1 \in 1..len2[L] /\ c2[L][k + 1] = n
    BY <1>11, <1>12, <1>13
<1>21. ASSUME NEW a \in Node, m.next[a] # a
       PROVE  \E M \in List : \E i \in 1..len2[M] : c2[M][i] = a
    <2>1. CASE a = n
        BY <1>20, <2>1
    <2>2. CASE a # n /\ a = p
        <3>1. k # 0
            BY <1>1, <1>3, <2>2, Hooks
        <3>2. k \in 1..len[L]
            BY <1>2, <3>1
        <3>. QED  BY <1>3, <1>19, <2>2, <3>2
    <2>3. CASE a # n /\ a # p
        <3>1. l.next[a] # a
            BY <1>8, <1>21, <2>3, Hooks
        <3>. QED  BY <1>19, <3>1, SMTT(20) DEF Rings
    <2>. QED  BY <2>1, <2>2, <2>3
<1>22. Rings(m, len2, c2)
    BY <1>11, <1>13, <1>14, <1>16, <1>17, <1>18, <1>21 DEF Rings
<1>23. ASSUME NEW M \in List
       PROVE  Members(len2, c2, M) = Members(len, c, M) \cup (IF M = L THEN {n} ELSE {})
    <2>1. ASSUME NEW a \in Members(len2, c2, M)
          PROVE  a \in Members(len, c, M) \cup (IF M = L THEN {n} ELSE {})
        <3>1. PICK i \in 1..len2[M] : a = c2[M][i]
            BY DEF Members
        <3>. QED  BY <1>15, <3>1 DEF Members
    <2>2. ASSUME NEW a \in Members(len, c, M) PROVE a \in Members(len2, c2, M)
        BY <1>19 DEF Members
    <2>3. n \in Members(len2, c2, L)
        BY <1>20 DEF Members
    <2>. QED  BY <2>1, <2>2, <2>3
<1>. QED  BY <1>9, <1>22, <1>23

\* After erase no list holds the node, and the others are where they were.
LEMMA EraseHome ==
    ASSUME NEW l, NEW home, Ringed(l, home), NEW n \in Node, NEW m, m = erase(l, n)
    PROVE  Ringed(m, [home EXCEPT ![n] = {}])
<1>1. home \in [Node -> SUBSET List] /\ TwoWay(l)
    BY DEF Ringed
<1>2. PICK home2 : home2 = [home EXCEPT ![n] = {}]
    OBVIOUS
<1>3. CASE ~is_linked(l, n)
    <2>1. m = l /\ home[n] = {}
        BY <1>3, LinkedIsHome DEF erase
    <2>2. home2 = home
        BY <1>1, <1>2, <2>1
    <2>. QED  BY <1>2, <2>1, <2>2
<1>4. CASE is_linked(l, n)
    <2>1. PICK len, c : /\ Rings(l, len, c)
                        /\ \A a \in Node : \A M \in List : M \in home[a] <=> a \in Members(len, c, M)
        BY DEF Ringed
    <2>2. PICK L \in List : \E j \in 1..len[L] : c[L][j] = n
        BY <1>4, <2>1 DEF Rings, is_linked
    <2>3. PICK j \in 1..len[L] : n = c[L][j]
        BY <2>2
    <2>5. PICK len2, c2 : len2 = Shrunk(len, L) /\ c2 = Erased(c, L, j)
        OBVIOUS
    <2>6. /\ TwoWay(m) /\ Rings(m, len2, c2)
          /\ \A M \in List : Members(len2, c2, M) = Members(len, c, M) \ {n}
        BY <1>1, <2>1, <2>3, <2>5, EraseRing
    <2>7. /\ home2 \in [Node -> SUBSET List] /\ home2[n] = {}
          /\ \A a \in Node : a # n => home2[a] = home[a]
        BY <1>1, <1>2
    <2>8. \A a \in Node : \A M \in List : M \in home2[a] <=> a \in Members(len2, c2, M)
        BY <2>1, <2>6, <2>7
    <2>. QED  BY <1>2, <2>6, <2>7, <2>8 DEF Ringed
<1>. QED  BY <1>3, <1>4

\* After push_back of an unlinked node the list holds it, and the others are where
\* they were.
LEMMA PushHome ==
    ASSUME NEW l, NEW home, Ringed(l, home), NEW n \in Node, ~is_linked(l, n),
           NEW L \in List, NEW m, m = push_back(l, L, n)
    PROVE  Ringed(m, [home EXCEPT ![n] = {L}])
<1>1. home \in [Node -> SUBSET List] /\ TwoWay(l) /\ home[n] = {} /\ l.next[n] = n
    BY LinkedIsHome DEF Ringed, is_linked
<1>2. PICK home2 : home2 = [home EXCEPT ![n] = {L}]
    OBVIOUS
<1>3. PICK len, c : /\ Rings(l, len, c)
                    /\ \A a \in Node : \A M \in List : M \in home[a] <=> a \in Members(len, c, M)
    BY DEF Ringed
<1>5. PICK len2, c2 : len2 = Grown(len, L) /\ c2 = Pushed(len, c, L, n)
    OBVIOUS
<1>6. /\ TwoWay(m) /\ Rings(m, len2, c2)
      /\ \A M \in List :
             Members(len2, c2, M) = Members(len, c, M) \cup (IF M = L THEN {n} ELSE {})
    BY <1>1, <1>3, <1>5, PushRing
<1>7. /\ home2 \in [Node -> SUBSET List] /\ home2[n] = {L}
      /\ \A a \in Node : a # n => home2[a] = home[a]
    BY <1>1, <1>2
<1>8. \A a \in Node : \A M \in List : M \in home2[a] <=> a \in Members(len2, c2, M)
    BY <1>1, <1>3, <1>6, <1>7
<1>. QED  BY <1>2, <1>6, <1>7, <1>8 DEF Ringed

\* The hooks that Walk meets, one after the other.
Hops(list) ==
    CHOOSE f : f = [k \in 0..Cardinality(Node) |-> IF k = 0 THEN list ELSE links.next[f[k - 1]]]

\* A walk from the sentinel meets every node of its list.
LEMMA WalkFinds ==
    ASSUME NEW home, Ringed(links, home), NEW n \in Node, NEW L \in home[n]
    PROVE  n \in Walk(L)
<1>1. PICK len, c : /\ Rings(links, len, c)
                    /\ \A a \in Node : \A M \in List : M \in home[a] <=> a \in Members(len, c, M)
    BY DEF Ringed
<1>2. L \in List
    BY DEF Ringed
<1>3. PICK j \in 1..len[L] : c[L][j] = n
    BY <1>1, <1>2 DEF Members
<1>4. PICK e \in Nat, s \in [Nat -> Hook] : e = len[L] /\ s = c[L]
    BY <1>1, <1>2 DEF Rings
<1>5. /\ s[0] = L /\ s[e + 1] = L /\ \A i \in 1..e : s[i] \in Node
      /\ \A i, k \in 1..e : s[i] = s[k] => i = k
      /\ \A i \in 0..e : links.next[s[i]] = s[i + 1]
    BY <1>1, <1>2, <1>4 DEF Rings
<1>6. PICK N \in Nat : N = Cardinality(Node)
    BY TimerWheelAssumption, FS_CardinalityType
<1>7. e <= N
    <2>1. PICK f : f = [i \in 1..e |-> s[i]]
        OBVIOUS
    <2>2. f \in [1..e -> Node] /\ \A i, k \in 1..e : f[i] = f[k] => i = k
        BY <1>5, <2>1
    <2>3. 1 \in Int /\ e \in Int
        OBVIOUS
    <2>4. IsFiniteSet(1..e) /\ Cardinality(1..e) = IF 1 > e THEN 0 ELSE e - 1 + 1
        BY <2>3, FS_Interval
    <2>5. ~(Cardinality(Node) < Cardinality(1..e))
        BY <2>2, <2>4, TimerWheelAssumption, FS_PigeonHole
    <2>. QED  BY <1>6, <2>4, <2>5
<1>8. PICK g : g = [k \in 0..N |-> s[k % (e + 1)]]
    OBVIOUS
<1>9. g = [k \in 0..N |-> IF k = 0 THEN L ELSE links.next[g[k - 1]]]
    <2>1. PICK m \in Nat \ {0} : m = e + 1
        OBVIOUS
    <2>2. ASSUME NEW k \in 0..N PROVE g[k] = IF k = 0 THEN L ELSE links.next[g[k - 1]]
        <3>1. CASE k = 0
            <4>1. 0 \in 0..(m - 1)
                OBVIOUS
            <4>2. 0 % m = 0
                BY <4>1, ModSmall
            <4>. QED  BY <1>5, <1>8, <2>1, <3>1, <4>2
        <3>2. CASE k # 0
            <4>1. PICK i \in Int : i = k - 1
                OBVIOUS
            <4>2. i \in 0..N /\ i + 1 = k
                BY <3>2, <4>1
            <4>3. PICK r \in 0..(m - 1) : r = i % m
                BY ModDef
            <4>4. g[k - 1] = s[r]
                BY <1>8, <2>1, <4>1, <4>2, <4>3
            <4>5. links.next[s[r]] = s[r + 1]
                BY <1>5, <2>1, <4>3
            <4>6. k % m = (r + 1) % m
                <5>1. PICK one \in Int : one = 1
                    OBVIOUS
                <5>2. ((i % m) + one) % m = (i + one) % m
                    BY ModAddMod
                <5>. QED  BY <4>2, <4>3, <5>1, <5>2
            <4>7. (r + 1) % m = IF r = m - 1 THEN 0 ELSE r + 1
                BY ModSucc
            <4>8. s[(r + 1) % m] = s[r + 1]
                <5>1. CASE r = m - 1
                    <6>1. s[r + 1] = s[e + 1] /\ s[(r + 1) % m] = s[0]
                        BY <2>1, <4>7, <5>1
                    <6>. QED  BY <1>5, <6>1
                <5>2. CASE r # m - 1
                    BY <4>7, <5>2
                <5>. QED  BY <5>1, <5>2
            <4>9. g[k] = s[k % m]
                BY <1>8, <2>1
            <4>. QED  BY <3>2, <4>4, <4>5, <4>6, <4>8, <4>9
        <3>. QED  BY <3>1, <3>2
    <2>. QED  BY <1>8, <2>2
<1>10. PICK f : f = Hops(L)
    OBVIOUS
<1>11. f = [k \in 0..N |-> IF k = 0 THEN L ELSE links.next[f[k - 1]]]
    <2>1. Hops(L) = CHOOSE h : h = [k \in 0..N |-> IF k = 0 THEN L ELSE links.next[h[k - 1]]]
        BY <1>6, Zenon DEF Hops
    <2>. QED  BY <1>9, <1>10, <2>1, Zenon
<1>12. PICK S : S = {k \in Nat : k <= e => f[k] = s[k]}
    OBVIOUS
<1>13. 0 \in S
    <2>1. f[0] = L
        BY <1>11
    <2>. QED  BY <1>5, <1>12, <2>1
<1>14. ASSUME NEW k \in Nat, k \in S PROVE k + 1 \in S
    <2>1. SUFFICES ASSUME k + 1 <= e PROVE f[k + 1] = s[k + 1]
        BY <1>12
    <2>2. k + 1 \in 0..N /\ k + 1 # 0 /\ (k + 1) - 1 = k /\ k \in 0..e /\ k <= e
        BY <1>7, <2>1
    <2>3. f[k + 1] = links.next[f[k]]
        BY <1>11, <2>2
    <2>4. f[k] = s[k]
        BY <1>12, <1>14, <2>2
    <2>. QED  BY <1>5, <2>2, <2>3, <2>4
<1>15. \A k \in Nat : k \in S
    BY <1>13, <1>14, SetInduction
<1>16. f[j] = n /\ j \in 0..N
    BY <1>3, <1>4, <1>7, <1>12, <1>15
<1>17. Walk(L) = {Hops(L)[k] : k \in 0..Cardinality(Node)}
    BY Zenon DEF Walk, Hops
<1>. QED  BY <1>6, <1>10, <1>16, <1>17
-----------------------------------------------------------------------------
(***************************************************************************)
(* The inductive invariant                                                 *)
(***************************************************************************)

\* The slot is the counter's, although each is advanced with a modulus of its own.
Wheel == current_slot = tick_count % NumSlots

\* The stored deadline is the tick the node is due at; it is not below the counter
\* unless the node is less than a round ahead, or wrapped.
Timed(n) ==
    /\ deadline[n] = (tick_count + left[n]) % Word
    /\ ~wrapped[n] => deadline[n] = tick_count + left[n] \/ left[n] < NumSlots

\* A list that holds a node is the bucket of its deadline, or the local list of
\* the dispatch of that bucket; a due node is in the bucket being dispatched.
Placed(n, L) ==
    /\ \/ L = bucket(deadline[n] % NumSlots)
       \/ L = pending /\ deadline[n] % NumSlots = current_slot /\ pc # "idle" /\ left[n] > 0
    /\ left[n] = 0 => L = bucket(current_slot) /\ pc \in {"dispatch", "callback"}

Timers(home) == \A n \in Node : \A L \in home[n] : Timed(n) /\ Placed(n, L)

Inv == TypeOK /\ Wheel /\ \E home : Ringed(links, home) /\ Timers(home)

\* Empty lists.
LEMMA InitInv ==
    ASSUME Init
    PROVE  Inv
<1>1. TypeOK
    BY Sizes DEF Init, TypeOK, Slot, Hook
<1>2. Wheel
    <2>1. 0 \in 0..(NumSlots - 1)
        BY Sizes
    <2>2. 0 % NumSlots = 0
        BY <2>1, Sizes, ModSmall
    <2>. QED  BY <2>2 DEF Init, Wheel
<1>3. PICK home : home = [n \in Node |-> {}]
    OBVIOUS
<1>4. PICK len, c : len = [L \in List |-> 0] /\ c = [L \in List |-> [i \in Nat |-> L]]
    OBVIOUS
<1>5. /\ links.next = [h \in Hook |-> h] /\ links.prev = [h \in Hook |-> h]
      /\ links \in Links
    BY DEF Init, Links
<1>6. TwoWay(links)
    BY <1>5 DEF TwoWay
<1>7. Rings(links, len, c)
    <2>1. len \in [List -> Nat] /\ c \in [List -> [Nat -> Hook]]
        BY <1>4, Hooks
    <2>2. \A L \in List : len[L] = 0 /\ \A i \in Nat : c[L][i] = L
        BY <1>4
    <2>3. \A L \in List : links.next[L] = L
        BY <1>5, Hooks
    <2>4. \A n \in Node : links.next[n] = n
        BY <1>5, Hooks
    <2>. QED  BY <2>1, <2>2, <2>3, <2>4 DEF Rings
<1>8. \A n \in Node : \A L \in List : L \in home[n] <=> n \in Members(len, c, L)
    BY <1>3, <1>4 DEF Members
<1>9. Ringed(links, home) /\ Timers(home)
    BY <1>3, <1>6, <1>7, <1>8 DEF Ringed, Timers
<1>. QED  BY <1>1, <1>2, <1>9 DEF Inv

\* A node due now has the counter's value as its deadline.
LEMMA DueNow ==
    ASSUME TypeOK, NEW n \in Node, Timed(n), left[n] = 0
    PROVE  deadline[n] = tick_count
<1>1. tick_count \in 0..(Word - 1)
    BY DEF TypeOK
<1>2. tick_count % Word = tick_count
    BY <1>1, Sizes, ModSmall
<1>. QED  BY <1>1, <1>2, Sizes DEF Timed

\* The front of the bucket being dispatched is of this slot.
LEMMA FrontSlot ==
    ASSUME TypeOK, NEW home, Ringed(links, home), Timers(home), NEW n \in Node, InDispatch(n)
    PROVE  /\ bucket(current_slot) \in home[n] /\ Timed(n)
           /\ deadline[n] % NumSlots = current_slot
<1>1. bucket(current_slot) \in List /\ current_slot \in Slot /\ bucket(current_slot) # pending
    BY Hooks DEF TypeOK
<1>2. bucket(current_slot) \in home[n]
    BY <1>1, FrontIsHome DEF InDispatch
<1>3. Timed(n) /\ Placed(n, bucket(current_slot))
    BY <1>2 DEF Timers
<1>4. deadline[n] % NumSlots \in Slot
    <2>1. deadline[n] \in Int
        BY Sizes DEF TypeOK
    <2>. QED  BY <2>1, Sizes, ModDef DEF Slot
<1>. QED  BY <1>1, <1>2, <1>3, <1>4, Hooks DEF Placed

\* schedule() puts the node where its deadline says.
LEMMA ScheduleKeeps ==
    ASSUME Inv, NEW n \in Node, NEW d \in 1..MaxDelay, Schedule(n, d)
    PROVE  Inv'
<1>1. PICK home : Ringed(links, home) /\ Timers(home)
    BY DEF Inv
<1>2. TypeOK /\ Wheel
    BY DEF Inv
<1>3. PICK t : t = (tick_count + d) % Word
    OBVIOUS
<1>4. t \in 0..(Word - 1) /\ tick_count + d \in Int
    <2>1. tick_count + d \in Int
        BY <1>2, Sizes DEF TypeOK
    <2>. QED  BY <1>3, <2>1, Sizes, ModDef
<1>5. t % NumSlots \in Slot
    <2>1. t \in Int
        BY <1>4, Sizes
    <2>. QED  BY <2>1, Sizes, ModDef DEF Slot
<1>6. PICK L \in List : L = bucket(t % NumSlots)
    BY <1>5, Hooks
<1>7. ~is_linked(links, n) /\ links' = push_back(links, L, n)
    BY <1>3, <1>6 DEF Schedule, Arm
<1>8. PICK home2 : home2 = [home EXCEPT ![n] = {L}]
    OBVIOUS
<1>9. Ringed(links', home2)
    BY <1>1, <1>7, <1>8, PushHome
<1>10. /\ home2[n] = {L} /\ \A a \in Node : a # n => home2[a] = home[a]
    BY <1>1, <1>8 DEF Ringed
<1>11. /\ deadline' = [deadline EXCEPT ![n] = t] /\ left' = [left EXCEPT ![n] = d]
       /\ tick_count' = tick_count /\ current_slot' = current_slot /\ pc' = pc
    BY <1>3 DEF Schedule, Arm
<1>12. wrapped' = [wrapped EXCEPT ![n] = tick_count + d >= Word /\ d >= NumSlots]
    BY DEF Schedule, Arm
<1>13. wrapped' \in [Node -> BOOLEAN]
    BY <1>2, <1>12 DEF TypeOK
<1>14. TypeOK'
    <2>1. links' \in Links
        BY <1>9 DEF Ringed, TwoWay
    <2>2. deadline' \in [Node -> 0..(Word - 1)] /\ left' \in [Node -> 0..MaxDelay]
        <3>1. d \in 0..MaxDelay
            BY Sizes
        <3>. QED  BY <1>2, <1>4, <1>11, <3>1 DEF TypeOK
    <2>. QED  BY <1>2, <1>11, <1>13, <2>1, <2>2 DEF TypeOK, Links
<1>15. deadline'[n] = t /\ left'[n] = d /\ left'[n] > 0
    BY <1>2, <1>11, Sizes DEF TypeOK
<1>16. Timed(n)'
    <2>1. ~wrapped'[n] => tick_count + d < Word \/ d < NumSlots
        <3>1. wrapped'[n] = (tick_count + d >= Word /\ d >= NumSlots)
            BY <1>2, <1>12 DEF TypeOK
        <3>2. ~(tick_count + d >= Word) => tick_count + d < Word
            BY <1>2, Sizes DEF TypeOK
        <3>3. ~(d >= NumSlots) => d < NumSlots
            BY Sizes
        <3>. QED  BY <3>1, <3>2, <3>3, Zenon
    <2>2. tick_count + d < Word => t = tick_count + d
        <3>1. SUFFICES ASSUME tick_count + d < Word PROVE t = tick_count + d
            OBVIOUS
        <3>2. tick_count + d \in 0..(Word - 1)
            BY <1>2, <3>1, Sizes DEF TypeOK
        <3>. QED  BY <1>3, <3>2, Sizes, ModSmall
    <2>. QED  BY <1>3, <1>11, <1>15, <2>1, <2>2 DEF Timed
<1>17. Placed(n, L)'
    BY <1>6, <1>15, Sizes DEF Placed
<1>18. ASSUME NEW a \in Node, a # n, NEW M \in home[a] PROVE Timed(a)' /\ Placed(a, M)'
    <2>1. Timed(a) /\ Placed(a, M)
        BY <1>1, <1>18 DEF Timers
    <2>2. deadline'[a] = deadline[a] /\ left'[a] = left[a]
        BY <1>2, <1>11, <1>18 DEF TypeOK
    <2>3. wrapped'[a] = wrapped[a]
        BY <1>2, <1>12, <1>18 DEF TypeOK
    <2>. QED  BY <1>11, <2>1, <2>2, <2>3 DEF Timed, Placed
<1>19. Timers(home2)'
    BY <1>10, <1>16, <1>17, <1>18 DEF Timers
<1>20. Wheel'
    BY <1>2, <1>11 DEF Wheel
<1>. QED  BY <1>9, <1>14, <1>19, <1>20 DEF Inv

\* A node that cancel() or the dispatch unlinks is in no list any more.
LEMMA LeavingKeeps ==
    ASSUME Inv, NEW n \in Node, links' = erase(links, n),
           deadline' \in [Node -> 0..(Word - 1)], \A a \in Node : a # n => deadline'[a] = deadline[a],
           left' = [left EXCEPT ![n] = 0], wrapped' = [wrapped EXCEPT ![n] = FALSE],
           UNCHANGED <<tick_count, current_slot>>,
           UNCHANGED pc \/ (pc = "dispatch" /\ pc' = "callback")
    PROVE  Inv'
<1>1. PICK home : Ringed(links, home) /\ Timers(home)
    BY DEF Inv
<1>2. TypeOK /\ Wheel
    BY DEF Inv
<1>3. PICK home2 : home2 = [home EXCEPT ![n] = {}]
    OBVIOUS
<1>4. Ringed(links', home2)
    BY <1>1, <1>3, EraseHome
<1>5. home2[n] = {} /\ \A a \in Node : a # n => home2[a] = home[a]
    BY <1>1, <1>3 DEF Ringed
<1>6. wrapped' \in [Node -> BOOLEAN]
    BY <1>2 DEF TypeOK
<1>7. TypeOK'
    <2>1. links' \in Links
        BY <1>4 DEF Ringed, TwoWay
    <2>2. left' \in [Node -> 0..MaxDelay]
        BY <1>2, Sizes DEF TypeOK
    <2>3. pc' \in {"idle", "dispatch", "callback", "requeue"}
        BY <1>2 DEF TypeOK
    <2>. QED  BY <1>2, <1>6, <2>1, <2>2, <2>3 DEF TypeOK, Links
<1>8. ASSUME NEW a \in Node, a # n, NEW M \in home[a] PROVE Timed(a)' /\ Placed(a, M)'
    <2>1. Timed(a) /\ Placed(a, M)
        BY <1>1, <1>8 DEF Timers
    <2>2. deadline'[a] = deadline[a] /\ left'[a] = left[a]
        BY <1>2, <1>8 DEF TypeOK
    <2>3. wrapped'[a] = wrapped[a]
        BY <1>2, <1>8 DEF TypeOK
    <2>4. Timed(a)'
        BY <2>1, <2>2, <2>3 DEF Timed
    <2>5. Placed(a, M)'
        BY <2>1, <2>2 DEF Placed
    <2>. QED  BY <2>4, <2>5
<1>9. Timers(home2)'
    BY <1>5, <1>8 DEF Timers
<1>10. Wheel'
    BY <1>2 DEF Wheel
<1>. QED  BY <1>4, <1>7, <1>9, <1>10 DEF Inv

\* cancel()
LEMMA CancelKeeps ==
    ASSUME Inv, NEW n \in Node, Cancel(n)
    PROVE  Inv'
<1>1. deadline' \in [Node -> 0..(Word - 1)] /\ \A a \in Node : a # n => deadline'[a] = deadline[a]
    BY Sizes DEF Cancel, Inv, TypeOK
<1>. QED  BY <1>1, LeavingKeeps DEF Cancel

\* A callback is entered.
LEMMA FireKeeps ==
    ASSUME Inv, NEW n \in Node, Fire(n)
    PROVE  Inv'
<1>1. deadline' \in [Node -> 0..(Word - 1)] /\ \A a \in Node : a # n => deadline'[a] = deadline[a]
    BY DEF Fire, Inv, TypeOK
<1>. QED  BY <1>1, LeavingKeeps DEF Fire, InDispatch

\* A node that moves to the end of another list it may be in.
LEMMA MovingKeeps ==
    ASSUME Inv, NEW n \in Node, NEW L \in List, Timed(n), Placed(n, L),
           links' = push_back(erase(links, n), L, n),
           UNCHANGED <<deadline, tick_count, current_slot, pc, left, wrapped>>,
           NEW home, Ringed(links, home), Timers(home)
    PROVE  Inv'
<1>1. TypeOK /\ Wheel
    BY DEF Inv
<1>2. PICK home1 : home1 = [home EXCEPT ![n] = {}]
    OBVIOUS
<1>3. PICK l : l = erase(links, n)
    OBVIOUS
<1>4. Ringed(l, home1)
    BY <1>2, <1>3, EraseHome
<1>5. home1[n] = {} /\ \A a \in Node : a # n => home1[a] = home[a]
    BY <1>2 DEF Ringed
<1>6. ~is_linked(l, n)
    BY <1>4, <1>5, LinkedIsHome
<1>7. PICK home2 : home2 = [home1 EXCEPT ![n] = {L}]
    OBVIOUS
<1>8. Ringed(links', home2)
    BY <1>3, <1>4, <1>6, <1>7, PushHome
<1>9. home2[n] = {L} /\ \A a \in Node : a # n => home2[a] = home1[a]
    BY <1>4, <1>7 DEF Ringed
<1>10. Timers(home2)'
    <2>1. \A a \in Node : \A M \in home2[a] : Timed(a) /\ Placed(a, M)
        BY <1>5, <1>9 DEF Timers
    <2>. QED  BY <2>1 DEF Timers, Timed, Placed
<1>11. TypeOK'
    <2>1. links' \in Links
        BY <1>8 DEF Ringed, TwoWay
    <2>. QED  BY <1>1, <2>1 DEF TypeOK, Links
<1>12. Wheel'
    BY <1>1 DEF Wheel
<1>. QED  BY <1>8, <1>10, <1>11, <1>12 DEF Inv

\* A node of a later round goes to the local list.
LEMMA DeferKeeps ==
    ASSUME Inv, NEW n \in Node, Defer(n)
    PROVE  Inv'
<1>1. PICK home : Ringed(links, home) /\ Timers(home)
    BY DEF Inv
<1>2. TypeOK
    BY DEF Inv
<1>3. InDispatch(n) /\ deadline[n] > tick_count /\ pc = "dispatch"
    BY DEF Defer, InDispatch
<1>4. Timed(n) /\ deadline[n] % NumSlots = current_slot
    BY <1>1, <1>2, <1>3, FrontSlot
<1>5. left[n] # 0
    <2>1. SUFFICES ASSUME left[n] = 0 PROVE FALSE
        OBVIOUS
    <2>2. deadline[n] = tick_count
        BY <1>2, <1>4, <2>1, DueNow
    <2>. QED  BY <1>2, <1>3, <2>2, Sizes DEF TypeOK
<1>6. left[n] > 0
    BY <1>2, <1>5, Sizes DEF TypeOK
<1>7. Placed(n, pending)
    BY <1>3, <1>4, <1>6, Sizes DEF Placed
<1>. QED  BY <1>1, <1>4, <1>7, Hooks, MovingKeeps DEF Defer

\* A node of the local list returns to the bucket.
LEMMA RequeueKeeps ==
    ASSUME Inv, Requeue
    PROVE  Inv'
<1>1. PICK home : Ringed(links, home) /\ Timers(home)
    BY DEF Inv
<1>2. TypeOK
    BY DEF Inv
<1>3. PICK n : n = links.next[pending]
    OBVIOUS
<1>4. n \in Node /\ pending \in home[n]
    BY <1>1, <1>3, Hooks, FrontIsHome DEF Requeue
<1>5. Timed(n) /\ Placed(n, pending)
    BY <1>1, <1>4 DEF Timers
<1>6. deadline[n] % NumSlots \in Slot
    <2>1. deadline[n] \in Int
        BY <1>2, <1>4, Sizes DEF TypeOK
    <2>. QED  BY <2>1, Sizes, ModDef DEF Slot
<1>7. deadline[n] % NumSlots = current_slot /\ left[n] > 0
    BY <1>5, <1>6, Hooks DEF Placed
<1>8. Placed(n, bucket(current_slot))
    BY <1>7, Sizes DEF Placed
<1>9. bucket(current_slot) \in List
    BY <1>2, Hooks DEF TypeOK
<1>. QED  BY <1>1, <1>3, <1>4, <1>5, <1>8, <1>9, MovingKeeps DEF Requeue

\* The counter advances: every node is a tick nearer, and a due one is in the bucket
\* that the step dispatches.
LEMMA TickKeeps ==
    ASSUME Inv, Tick
    PROVE  Inv'
<1>1. PICK home : Ringed(links, home) /\ Timers(home)
    BY DEF Inv
<1>2. TypeOK /\ Wheel /\ pc = "idle" /\ pc' = "dispatch"
    BY DEF Inv, Tick
<1>3. PICK one \in Int : one = 1
    OBVIOUS
<1>4. tick_count \in Int /\ tick_count \in 0..(Word - 1) /\ tick_count + 1 \in Int
    BY <1>2, Sizes DEF TypeOK
<1>5. tick_count' \in 0..(Word - 1) /\ tick_count' = (tick_count + 1) % Word
    BY <1>4, Sizes, ModDef DEF Tick
<1>6. Wheel'
    <2>1. ((tick_count % NumSlots) + one) % NumSlots = (tick_count + one) % NumSlots
        BY <1>4, Sizes, ModAddMod
    <2>2. ((tick_count + 1) % Word) % NumSlots = (tick_count + 1) % NumSlots
        BY <1>4, SlotOfTick
    <2>. QED  BY <1>2, <1>3, <1>5, <2>1, <2>2 DEF Wheel, Tick
<1>7. TypeOK'
    <2>1. current_slot' \in Slot
        <3>1. current_slot + 1 \in Int
            BY <1>2, Sizes DEF TypeOK, Slot
        <3>. QED  BY <3>1, Sizes, ModDef DEF Tick, Slot
    <2>2. left' \in [Node -> 0..MaxDelay]
        BY <1>2, Sizes DEF TypeOK, Tick
    <2>3. wrapped' \in [Node -> BOOLEAN]
        BY <1>2 DEF TypeOK, Tick
    <2>. QED  BY <1>2, <1>5, <2>1, <2>2, <2>3 DEF TypeOK, Tick
<1>8. ASSUME NEW n \in Node, NEW L \in home[n] PROVE Timed(n)' /\ Placed(n, L)'
    <2>1. Timed(n) /\ Placed(n, L)
        BY <1>1, <1>8 DEF Timers
    <2>2. left[n] # 0 /\ L = bucket(deadline[n] % NumSlots)
        BY <1>2, <2>1 DEF Placed
    <2>3. PICK x \in Int : x = left[n] - 1
        BY <1>2, Sizes DEF TypeOK
    <2>4. left'[n] = x /\ x >= 0 /\ left[n] = x + 1 /\ deadline'[n] = deadline[n]
        BY <1>2, <2>2, <2>3, Sizes DEF TypeOK, Tick
    <2>5. deadline[n] = (tick_count' + x) % Word
        <3>1. (((tick_count + 1) % Word) + x) % Word = ((tick_count + 1) + x) % Word
            BY <1>4, Sizes, ModAddMod
        <3>2. (tick_count + 1) + x = tick_count + left[n]
            BY <1>4, <2>4
        <3>. QED  BY <1>5, <2>1, <3>1, <3>2 DEF Timed
    <2>6. deadline[n] = tick_count + left[n] => deadline[n] = tick_count' + x
        <3>1. SUFFICES ASSUME deadline[n] = tick_count + left[n] PROVE deadline[n] = tick_count' + x
            OBVIOUS
        <3>2. tick_count + 1 \in 0..(Word - 1)
            BY <1>2, <1>4, <2>4, <3>1, Sizes DEF TypeOK
        <3>3. (tick_count + 1) % Word = tick_count + 1
            BY <3>2, Sizes, ModSmall
        <3>. QED  BY <1>4, <1>5, <2>4, <3>1, <3>3
    <2>7. wrapped'[n] = wrapped[n]
        BY DEF Tick
    <2>8. ~wrapped[n] => deadline[n] = tick_count + left[n] \/ left[n] < NumSlots
        BY <2>1 DEF Timed
    <2>9. left[n] < NumSlots => x < NumSlots
        BY <2>4, Sizes
    <2>10. Timed(n)'
        BY <2>4, <2>5, <2>6, <2>7, <2>8, <2>9 DEF Timed
    <2>11. x = 0 => L = bucket(current_slot')
        <3>1. SUFFICES ASSUME x = 0 PROVE deadline[n] % NumSlots = current_slot'
            BY <2>2
        <3>2. deadline[n] = tick_count'
            <4>1. tick_count' % Word = tick_count'
                BY <1>5, Sizes, ModSmall
            <4>2. tick_count' + x = tick_count'
                BY <1>5, <3>1, Sizes
            <4>. QED  BY <2>5, <4>1, <4>2
        <3>. QED  BY <1>6, <3>2 DEF Wheel
    <2>12. Placed(n, L)'
        BY <1>2, <2>2, <2>4, <2>11 DEF Placed
    <2>. QED  BY <2>10, <2>12
<1>9. Ringed(links', home)
    BY <1>1 DEF Tick
<1>10. Timers(home)'
    BY <1>8 DEF Timers
<1>. QED  BY <1>6, <1>7, <1>9, <1>10 DEF Inv

\* The steps that only move the program: the bucket and the local list are empty
\* when their loops end.
LEMMA LoopsKeep ==
    ASSUME Inv, CallbackReturns \/ BucketDone \/ TickReturns
    PROVE  Inv'
<1>1. PICK home : Ringed(links, home) /\ Timers(home)
    BY DEF Inv
<1>2. TypeOK /\ Wheel
    BY DEF Inv
<1>3. UNCHANGED <<links, deadline, tick_count, current_slot, left, wrapped>>
    BY DEF CallbackReturns, BucketDone, TickReturns
<1>4. pc' \in {"idle", "dispatch", "requeue"}
    BY DEF CallbackReturns, BucketDone, TickReturns
<1>5. TypeOK'
    BY <1>2, <1>3, <1>4 DEF TypeOK
<1>6. ASSUME NEW n \in Node, NEW L \in home[n] PROVE Timed(n)' /\ Placed(n, L)'
    <2>1. Timed(n) /\ Placed(n, L)
        BY <1>1, <1>6 DEF Timers
    <2>2. Timed(n)'
        BY <1>3, <2>1 DEF Timed
    <2>3. CASE CallbackReturns
        BY <1>3, <2>1, <2>2, <2>3 DEF Placed, CallbackReturns
    <2>4. CASE BucketDone
        <3>1. L # bucket(current_slot)
            BY <1>1, <1>2, <2>4, Hooks, FrontIsHome DEF BucketDone, TypeOK
        <3>. QED  BY <1>3, <2>1, <2>2, <2>4, <3>1 DEF Placed, BucketDone
    <2>5. CASE TickReturns
        <3>1. L # pending
            BY <1>1, <2>5, Hooks, FrontIsHome DEF TickReturns
        <3>. QED  BY <1>3, <2>1, <2>2, <2>5, <3>1 DEF Placed, TickReturns
    <2>. QED  BY <2>2, <2>3, <2>4, <2>5
<1>7. Ringed(links', home) /\ Timers(home)' /\ Wheel'
    BY <1>1, <1>2, <1>3, <1>6 DEF Timers, Wheel
<1>. QED  BY <1>5, <1>7 DEF Inv
-----------------------------------------------------------------------------
(***************************************************************************)
(* What the invariant gives                                                *)
(***************************************************************************)

\* Every step keeps the invariant.
LEMMA NextKeeps ==
    ASSUME Inv, [Next]_vars
    PROVE  Inv'
<1>1. ASSUME NEW n \in Node, Cancel(n) \/ \E d \in 1..MaxDelay : Schedule(n, d) PROVE Inv'
    BY <1>1, CancelKeeps, ScheduleKeeps
<1>2. CASE Tick
    BY <1>2, TickKeeps
<1>3. ASSUME NEW n \in Node, Fire(n) \/ Defer(n) PROVE Inv'
    BY <1>3, FireKeeps, DeferKeeps
<1>4. CASE CallbackReturns \/ BucketDone \/ Requeue \/ TickReturns
    BY <1>4, LoopsKeep, RequeueKeeps
<1>5. CASE UNCHANGED vars
    BY <1>5 DEF vars, Inv, TypeOK, Wheel, Timers, Timed, Placed
<1>. QED  BY <1>1, <1>2, <1>3, <1>4, <1>5, Zenon DEF Next, TickStep

\* The hooks form one ring per list, and every linked node is where its deadline,
\* kept modulo the word, says, in every reachable state.
THEOREM TimerWheelInvariant == Spec => []Inv
<1>1. Init => Inv
    BY InitInv
<1>2. Inv /\ [Next]_vars => Inv'
    BY NextKeeps
<1>. QED  BY <1>1, <1>2, PTL DEF Spec

\* Whatever callbacks schedule and cancel in the middle of dispatch_bucket, the
\* chains of the intrusive lists agree, a walk of next_ from the bucket of its
\* deadline, or from the local list, meets every armed node, and none is overdue
\* when tick() has returned.
THEOREM TimerWheelListsSound == Spec => []ListsSound
<1>1. ASSUME Inv PROVE ListsSound
    <2>1. PICK home : Ringed(links, home) /\ Timers(home)
        BY <1>1 DEF Inv
    <2>2. \A h \in Hook : links.prev[links.next[h]] = h /\ links.next[links.prev[h]] = h
        BY <2>1 DEF Ringed, TwoWay
    <2>3. ASSUME NEW n \in Node, is_linked(links, n)
          PROVE  /\ \/ n \in Walk(bucket(deadline[n] % NumSlots))
                    \/ /\ deadline[n] % NumSlots = current_slot
                       /\ pc # "idle" /\ n \in Walk(pending)
                 /\ pc = "idle" => left[n] > 0
        <3>1. PICK L \in home[n] : TRUE
            BY <2>1, <2>3, LinkedIsHome
        <3>2. Placed(n, L) /\ n \in Walk(L)
            BY <2>1, <3>1, WalkFinds DEF Timers
        <3>3. left[n] # 0 => left[n] > 0
            BY <1>1, Sizes DEF Inv, TypeOK
        <3>. QED  BY <3>2, <3>3 DEF Placed
    <2>. QED  BY <2>2, <2>3 DEF ListsSound
<1>. QED  BY <1>1, TimerWheelInvariant, PTL

\* The dispatch enters a callback in the very tick its delay named, also after any
\* number of wraps of tick_count_, unless the timer was scheduled a round or more
\* ahead across a wrap.
THEOREM TimerWheelFiresOnTime == Spec => FiresOnTime
<1>1. ASSUME Inv, [Next]_vars, NEW n \in Node, Fires(n) PROVE left[n] = 0 \/ wrapped[n]
    <2>1. PICK home : Ringed(links, home) /\ Timers(home)
        BY <1>1 DEF Inv
    <2>2. TypeOK /\ Wheel
        BY <1>1 DEF Inv
    <2>3. pc = "dispatch" /\ pc' = "callback" /\ n = links.next[bucket(current_slot)]
        BY <1>1 DEF Fires
    <2>4. PICK f \in Node : Fire(f)
        <3>1. ~ UNCHANGED vars
            BY <2>3 DEF vars
        <3>2. ASSUME NEW m \in Node PROVE ~ Cancel(m) /\ ~ Defer(m) /\ \A d \in 1..MaxDelay : ~ Schedule(m, d)
            BY <2>3 DEF Cancel, Defer, Schedule, ClientRuns
        <3>3. ~ Tick /\ ~ CallbackReturns /\ ~ BucketDone /\ ~ Requeue /\ ~ TickReturns
            BY <2>3 DEF Tick, CallbackReturns, BucketDone, Requeue, TickReturns
        <3>. QED  BY <1>1, <3>1, <3>2, <3>3, Zenon DEF Next, TickStep
    <2>5. f = n /\ InDispatch(n) /\ deadline[n] <= tick_count
        BY <2>3, <2>4 DEF Fire, InDispatch
    <2>6. Timed(n) /\ deadline[n] % NumSlots = current_slot
        BY <2>1, <2>2, <2>5, FrontSlot
    <2>7. SUFFICES ASSUME left[n] # 0, ~wrapped[n] PROVE FALSE
        OBVIOUS
    <2>8. PICK x \in Int, t \in Int : x = left[n] /\ t = tick_count
        BY <2>2, Sizes DEF TypeOK
    <2>9. x > 0
        BY <2>2, <2>7, <2>8, Sizes DEF TypeOK
    <2>10. deadline[n] # t + x
        BY <2>2, <2>5, <2>8, <2>9, Sizes DEF TypeOK
    <2>11. x < NumSlots
        BY <2>6, <2>7, <2>8, <2>10 DEF Timed
    <2>12. (t + x) % NumSlots = t % NumSlots
        <3>1. ((t + x) % Word) % NumSlots = (t + x) % NumSlots
            BY SlotOfTick
        <3>. QED  BY <2>2, <2>6, <2>8, <3>1 DEF Timed, Wheel
    <2>13. t % NumSlots # (t + x) % NumSlots
        <3>1. PICK u \in Int : u = t + x
            OBVIOUS
        <3>2. t < u /\ u - t < NumSlots
            BY <2>9, <2>11, <3>1, Sizes
        <3>. QED  BY <3>1, <3>2, Sizes, ModNear
    <2>. QED  BY <2>12, <2>13
<1>2. Inv /\ [Next]_vars => [\A n \in Node : Fires(n) => left[n] = 0 \/ wrapped[n]]_vars
    BY <1>1
<1>. QED  BY <1>2, TimerWheelInvariant, PTL DEF Spec, FiresOnTime
=============================================================================
