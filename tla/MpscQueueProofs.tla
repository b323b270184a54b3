--------------------------- MODULE MpscQueueProofs ---------------------------
(***************************************************************************)
(* Proofs about the MPSC queue, for every set of producers, every capacity *)
(* of at least 2, every number of spins and claims.                        *)
(*                                                                         *)
(* The invariant describes the Capacity positions from the consumer's on,  *)
(* one for each cell: the sequence and the element of a cell follow from   *)
(* who has its position.  The arithmetic of cells is in four lemmas; after *)
(* them the provers do not look into cell(p).                              *)
(*                                                                         *)
(* The double buffer, the other structure whose two sides share memory     *)
(* without a lock, follows: for every block size and any number of blocks. *)
(***************************************************************************)
EXTENDS MpscQueue, DoubleBuffer, ModArith

\* The first position whose cell is not released.
Front == IF cpc = "advance" THEN dequeue_pos + 1 ELSE dequeue_pos
Window == Front..(Front + Capacity - 1)

Active(p) == ppc[p] # "idle"

\* The position was claimed and its push has returned ok.
Done(q) ==
    /\ q < enqueue_pos /\ q \notin abandoned
    /\ \A p \in Producer : Active(p) => pos[p] # q

\* The cell of the position has a live element.
Holding(q) ==
    \/ Done(q) /\ ~(cpc = "release" /\ q = dequeue_pos)
    \/ \E p \in Producer : ppc[p] = "publish" /\ pos[p] = q

\* A position is one producer's, abandoned or done; none is behind the consumer
\* unless it is done, and none is done more than a round ahead of him.
Claims ==
    /\ Front <= enqueue_pos
    /\ \A p \in Producer : Active(p) => pos[p] >= Front /\ pos[p] < enqueue_pos
    /\ \A p \in Producer : Active(p) => pos[p] \notin abandoned
    /\ \A p, q \in Producer : Active(p) /\ Active(q) /\ p # q => pos[p] # pos[q]
    /\ \A a \in abandoned : Front <= a /\ a < enqueue_pos
    /\ \A q \in Nat : Done(q) => q < Front + Capacity
    /\ \A p \in Producer : Writing(p) => pos[p] < Front + Capacity

\* What the cells of the window hold.
Cells ==
    /\ \A q \in Window : seq[cell(q)] = IF Done(q) THEN q + 1 ELSE q
    /\ \A q \in Window : data[cell(q)] = IF Holding(q) THEN q ELSE None

\* What the consumer knows in the middle of pop.
Consumer ==
    /\ cpc = "check" => cspin < MaxSpins
    /\ cpc \in {"move", "destroy", "release"} => Done(dequeue_pos)
    /\ cpc \in {"destroy", "release", "advance"} /\ cop = "pop" => citem = dequeue_pos

\* While a call of the consumer is undisturbed it never waits.
Undisturbed ==
    /\ quiet => \A p \in Producer : ~Active(p)
    /\ quiet /\ abandoned = {} =>
           cspin = 0 /\ (cpc = "check" => enqueue_pos = dequeue_pos)

Inv == TypeOK /\ Claims /\ Cells /\ Consumer /\ Undisturbed
-----------------------------------------------------------------------------
(***************************************************************************)
(* Cells                                                                   *)
(***************************************************************************)

\* The mask of a position is a cell.
LEMMA CellOf == ASSUME NEW q \in Nat PROVE cell(q) \in Cell
BY MpscAssumption, ModDef DEF cell, Cell

\* Positions less than a capacity apart have different cells.
LEMMA CellNear ==
    ASSUME NEW a \in Nat, NEW b \in Nat, a # b, a - b < Capacity, b - a < Capacity
    PROVE  cell(a) # cell(b)
<1>1. Capacity \in Nat \ {0} /\ a \in Int /\ b \in Int
    BY MpscAssumption
<1>2. CASE a < b
    <2>1. a % Capacity # b % Capacity
        BY <1>1, <1>2, ModNear
    <2>. QED  BY <2>1 DEF cell
<1>3. CASE b < a
    <2>1. b % Capacity # a % Capacity
        BY <1>1, <1>3, ModNear
    <2>. QED  BY <2>1 DEF cell
<1>. QED  BY <1>1, <1>2, <1>3

\* The position one round later has the same cell.
LEMMA CellNextRound == ASSUME NEW q \in Nat PROVE cell(q + Capacity) = cell(q)
<1>1. Capacity \in Nat \ {0} /\ q \in Int
    BY MpscAssumption
<1>2. (q + Capacity) % Capacity = q % Capacity
    BY <1>1, ModShift
<1>. QED  BY <1>2 DEF cell

\* Every cell has a position among any Capacity consecutive ones.
LEMMA CellCovered ==
    ASSUME NEW i \in Cell, NEW f \in Nat
    PROVE  \E q \in f..(f + Capacity - 1) : cell(q) = i
<1>1. Capacity \in Nat \ {0} /\ i \in 0..(Capacity - 1) /\ i \in Int /\ f \in Int
    BY MpscAssumption DEF Cell
<1>2. PICK d \in Int : d = i - f
    BY <1>1
<1>3. PICK r \in 0..(Capacity - 1) : r = d % Capacity
    BY <1>1, ModDef
<1>4. ((d % Capacity) + f) % Capacity = (d + f) % Capacity
    BY <1>1, ModAddMod
<1>5. d + f = i
    BY <1>1, <1>2
<1>6. i % Capacity = i
    BY <1>1, ModSmall
<1>7. (r + f) % Capacity = i
    BY <1>3, <1>4, <1>5, <1>6
<1>8. r + f = f + r /\ f + r \in f..(f + Capacity - 1)
    BY <1>1, <1>3
<1>. QED  BY <1>7, <1>8 DEF cell

\* Positions of the window have their own cells.
LEMMA WindowCells ==
    ASSUME TypeOK, NEW a \in Window, NEW b \in Window, a # b
    PROVE  a \in Nat /\ b \in Nat /\ cell(a) # cell(b)
<1>1. Front \in Nat /\ Capacity \in Nat
    BY MpscAssumption DEF TypeOK, Front
<1>2. a \in Nat /\ b \in Nat /\ a - b < Capacity /\ b - a < Capacity
    BY <1>1 DEF Window
<1>. QED  BY <1>2, CellNear
-----------------------------------------------------------------------------
(***************************************************************************)
(* The invariant                                                           *)
(***************************************************************************)

\* An initial queue has its cells numbered and empty.
LEMMA InitInv == Init => Inv
<1> SUFFICES ASSUME Init PROVE Inv
    OBVIOUS
<1>1. Capacity \in Nat /\ Capacity >= 2 /\ MaxSpins \in Nat
    BY MpscAssumption
<1>2. TypeOK
    BY <1>1 DEF Init, TypeOK, Cell
<1>3. Front = 0 /\ Window = Cell
    BY <1>1 DEF Init, Front, Window, Cell
<1>4. \A q \in Nat : ~Done(q) /\ ~Holding(q)
    BY DEF Init, Done, Holding
<1>5. Claims
    BY <1>1, <1>3, <1>4 DEF Init, Claims, Active, Writing
<1>6. \A q \in Cell : q \in Nat /\ cell(q) = q
    BY <1>1, ModSmall DEF Cell, cell
<1>7. Cells
    BY <1>3, <1>4, <1>6 DEF Init, Cells
<1>8. Consumer /\ Undisturbed
    BY DEF Init, Consumer, Undisturbed, Active
<1>. QED  BY <1>2, <1>5, <1>7, <1>8 DEF Inv

\* The steps of push keep the types.
LEMMA PushType ==
    ASSUME TypeOK, NEW p \in Producer, Claim(p) \/ PushStep(p)
    PROVE  TypeOK'
<1>1. 0 \in 0..MaxSpins /\ (pspin[p] < MaxSpins => pspin[p] + 1 \in 0..MaxSpins)
    BY MpscAssumption DEF TypeOK
<1>2. cell(pos[p]) \in Cell /\ pos[p] \in Nat
    BY CellOf DEF TypeOK
<1>3. CASE Claim(p)
    <2>1. quiet' \in BOOLEAN
        BY <1>3 DEF Claim
    <2>2. /\ ppc' \in [Producer -> {"idle", "spin", "construct", "publish"}]
          /\ pos' \in [Producer -> Nat]
        BY <1>3 DEF Claim, TypeOK
    <2>3. pspin' \in [Producer -> 0..MaxSpins]
        BY <1>1, <1>3 DEF Claim, TypeOK
    <2>. QED  BY <1>3, <2>1, <2>2, <2>3 DEF Claim, TypeOK
<1>4. CASE SpinHit(p)
    BY <1>4 DEF SpinHit, consumerVars, TypeOK
<1>5. CASE SpinMiss(p)
    BY <1>1, <1>5 DEF SpinMiss, consumerVars, TypeOK
<1>6. CASE GiveUp(p)
    BY <1>6 DEF GiveUp, consumerVars, TypeOK
<1>7. CASE Construct(p)
    BY <1>2, <1>7 DEF Construct, consumerVars, TypeOK
<1>8. CASE Publish(p)
    BY <1>2, <1>8 DEF Publish, consumerVars, TypeOK
<1>. QED  BY <1>3, <1>4, <1>5, <1>6, <1>7, <1>8 DEF PushStep

\* The steps of pop keep the types.
LEMMA PopType ==
    ASSUME TypeOK, Consumer, PopStep \/ \E op \in {"pop", "clear"} : PopBegin(op)
    PROVE  TypeOK'
<1> USE DEF producerVars
<1>1. 0 \in 0..MaxSpins /\ (cspin < MaxSpins => cspin + 1 \in 0..MaxSpins)
    BY MpscAssumption DEF TypeOK
<1>2. cell(dequeue_pos) \in Cell /\ dequeue_pos + Capacity \in Nat /\ dequeue_pos + 1 \in Nat
    BY CellOf, MpscAssumption DEF TypeOK
<1>3. ASSUME NEW op \in {"pop", "clear"}, PopBegin(op) PROVE TypeOK'
    <2>1. quiet' \in BOOLEAN
        BY <1>3 DEF PopBegin
    <2>. QED  BY <1>1, <1>3, <2>1 DEF PopBegin, TypeOK
<1>4. CASE PopHit \/ PopUnpublished
    BY <1>4 DEF PopHit, PopUnpublished, TypeOK
<1>5. CASE PopEmpty
    BY <1>1, <1>5 DEF PopEmpty, Return, TypeOK
<1>6. CASE PopWait
    BY <1>1, <1>6 DEF PopWait, Consumer, TypeOK
<1>7. CASE PopGiveUp
    BY <1>1, <1>7 DEF PopGiveUp, Return, TypeOK
<1>8. CASE PopMove
    BY <1>2, <1>8 DEF PopMove, TypeOK
<1>9. CASE PopDestroy
    BY <1>2, <1>9 DEF PopDestroy, TypeOK
<1>10. CASE PopRelease
    BY <1>2, <1>10 DEF PopRelease, TypeOK
<1>11. CASE PopAdvance
    BY <1>1, <1>2, <1>11 DEF PopAdvance, Return, TypeOK
<1>. QED  BY <1>3, <1>4, <1>5, <1>6, <1>7, <1>8, <1>9, <1>10, <1>11 DEF PopStep

\* fetch_add gives the producer a position nobody has.
LEMMA ClaimInv == ASSUME Inv, NEW p \in Producer, Claim(p) PROVE Inv'
<1> USE DEF Inv
<1>1. TypeOK'
    BY PushType
<1>2. Front' = Front /\ Window' = Window /\ Front \in Nat /\ Capacity \in Nat
    BY MpscAssumption DEF Claim, Front, Window, TypeOK
<1>3. \A q \in Nat : Done(q)' <=> Done(q)
    BY DEF Claim, Done, Active, TypeOK
<1>4. \A q \in Nat : Holding(q)' <=> Holding(q)
    <2>1. \A r \in Producer : (ppc[r] = "publish")' <=> ppc[r] = "publish"
        BY DEF Claim, TypeOK
    <2>2. \A r \in Producer : ppc[r] = "publish" => pos'[r] = pos[r]
        BY DEF Claim, TypeOK
    <2>. QED  BY <1>3, <2>1, <2>2 DEF Claim, Holding
<1>5. Claims'
    BY <1>2, <1>3 DEF Claim, Claims, Active, Writing, TypeOK
<1>6. Cells'
    BY <1>2, <1>3, <1>4 DEF Claim, Cells, Window
<1>7. Consumer' /\ Undisturbed'
    BY <1>3 DEF Claim, Consumer, Undisturbed, TypeOK
<1>. QED  BY <1>1, <1>5, <1>6, <1>7

\* The cell of a position of a producer is his when the sequence says so: it is
\* not the cell of an earlier position.
LEMMA HitInWindow ==
    ASSUME Inv, NEW q \in Nat, Front <= q, seq[cell(q)] = q
    PROVE  q \in Window
<1>1. Front \in Nat /\ Capacity \in Nat /\ Capacity >= 2
    BY MpscAssumption DEF Inv, TypeOK, Front
<1>2. PICK w \in Window : cell(w) = cell(q)
    BY <1>1, CellOf, CellCovered DEF Window
<1>3. w \in Nat
    BY <1>1 DEF Window
<1>4. q \in {w, w + 1}
    BY <1>2 DEF Inv, Cells
<1>5. q # w + 1
    BY <1>1, <1>2, <1>3, CellNear
<1>. QED  BY <1>4, <1>5

\* A spinning producer: it finds its cell, tries again or gives up.
LEMMA SpinInv ==
    ASSUME Inv, NEW p \in Producer, SpinHit(p) \/ SpinMiss(p) \/ GiveUp(p)
    PROVE  Inv'
<1> USE DEF Inv, consumerVars
<1>1. TypeOK'
    BY PushType DEF PushStep
<1>2. Front' = Front /\ Window' = Window /\ Front \in Nat /\ Capacity \in Nat
    BY MpscAssumption DEF SpinHit, SpinMiss, GiveUp, Front, Window, TypeOK
<1>3. \A q \in Nat : Done(q)' <=> Done(q)
    <2>1. CASE GiveUp(p)
        BY <2>1 DEF GiveUp, Done, Active, TypeOK
    <2>2. CASE SpinHit(p) \/ SpinMiss(p)
        <3>1. \A r \in Producer : Active(r)' <=> Active(r)
            BY <2>2 DEF SpinHit, SpinMiss, Active, TypeOK
        <3>. QED  BY <2>2, <3>1 DEF SpinHit, SpinMiss, Done
    <2>. QED  BY <2>1, <2>2
<1>4. \A q \in Nat : Holding(q)' <=> Holding(q)
    <2>1. \A r \in Producer : (ppc[r] = "publish")' <=> ppc[r] = "publish"
        BY DEF SpinHit, SpinMiss, GiveUp, TypeOK
    <2>. QED  BY <1>3, <2>1 DEF SpinHit, SpinMiss, GiveUp, Holding
<1>5. Claims'
    <2>1. CASE SpinHit(p)
        <3>1. pos[p] \in Window
            BY <2>1, HitInWindow DEF SpinHit, Claims, Active, TypeOK
        <3>. QED  BY <1>2, <1>3, <2>1, <3>1 DEF SpinHit, Claims, Active, Writing, Window, TypeOK
    <2>2. CASE SpinMiss(p)
        BY <1>2, <1>3, <2>2 DEF SpinMiss, Claims, Active, Writing, TypeOK
    <2>3. CASE GiveUp(p)
        BY <1>2, <1>3, <2>3 DEF GiveUp, Claims, Active, Writing, TypeOK
    <2>. QED  BY <2>1, <2>2, <2>3
<1>6. Cells'
    BY <1>2, <1>3, <1>4 DEF SpinHit, SpinMiss, GiveUp, Cells, Window
<1>7. Consumer'
    BY <1>3 DEF SpinHit, SpinMiss, GiveUp, Consumer, TypeOK
<1>8. Undisturbed'
    BY DEF SpinHit, SpinMiss, GiveUp, Undisturbed, Active, TypeOK
<1>. QED  BY <1>1, <1>5, <1>6, <1>7, <1>8

\* The element is constructed in the producer's own cell.
LEMMA ConstructInv == ASSUME Inv, NEW p \in Producer, Construct(p) PROVE Inv'
<1> USE DEF Inv, consumerVars
<1>1. TypeOK'
    BY PushType DEF PushStep
<1>2. Front' = Front /\ Window' = Window /\ Front \in Nat /\ Capacity \in Nat
    BY MpscAssumption DEF Construct, Front, Window, TypeOK
<1>3. \A r \in Producer : Active(r)' <=> Active(r)
    BY DEF Construct, Active, TypeOK
<1>4. \A q \in Nat : Done(q)' <=> Done(q)
    BY <1>3 DEF Construct, Done
<1>5. pos[p] \in Window /\ pos[p] \in Nat
    BY <1>2 DEF Construct, Claims, Active, Writing, Window, TypeOK
<1>6. \A q \in Nat : Holding(q)' <=> Holding(q) \/ q = pos[p]
    <2>1. \A r \in Producer : (ppc[r] = "publish")' <=> ppc[r] = "publish" \/ r = p
        BY DEF Construct, TypeOK
    <2>. QED  BY <1>4, <2>1 DEF Construct, Holding
<1>7. Claims'
    BY <1>2, <1>3, <1>4 DEF Construct, Claims, Writing, TypeOK
<1>8. \A q \in Window : q \in Nat /\ cell(q) \in Cell /\ (q # pos[p] => cell(q) # cell(pos[p]))
    BY <1>2, <1>5, CellOf, WindowCells DEF Window
<1>9. Cells'
    BY <1>2, <1>4, <1>6, <1>8 DEF Construct, Cells, TypeOK
<1>10. Consumer' /\ Undisturbed'
    BY <1>3, <1>4 DEF Construct, Consumer, Undisturbed, TypeOK
<1>. QED  BY <1>1, <1>7, <1>9, <1>10

\* The release store makes the position done.
LEMMA PublishInv == ASSUME Inv, NEW p \in Producer, Publish(p) PROVE Inv'
<1> USE DEF Inv, consumerVars
<1>1. TypeOK'
    BY PushType DEF PushStep
<1>2. Front' = Front /\ Window' = Window /\ Front \in Nat /\ Capacity \in Nat
    BY MpscAssumption DEF Publish, Front, Window, TypeOK
<1>3. \A r \in Producer : Active(r)' <=> Active(r) /\ r # p
    BY DEF Publish, Active, TypeOK
<1>4. pos[p] \in Window /\ pos[p] \in Nat /\ Active(p)
    BY <1>2 DEF Publish, Claims, Active, Writing, Window, TypeOK
<1>5. \A q \in Nat : Done(q)' <=> Done(q) \/ q = pos[p]
    BY <1>3, <1>4 DEF Publish, Done, Claims, TypeOK
<1>6. ~Done(pos[p])
    BY <1>4 DEF Done
<1>7. \A q \in Nat : Holding(q)' <=> Holding(q)
    <2>1. \A r \in Producer : (ppc[r] = "publish")' <=> ppc[r] = "publish" /\ r # p
        BY DEF Publish, TypeOK
    <2>2. Holding(pos[p]) /\ Holding(pos[p])'
        BY <1>5, <1>4, <1>6 DEF Publish, Holding, Consumer
    <2>3. \A q \in Nat : q # pos[p] => (Holding(q)' <=> Holding(q))
        BY <1>5, <2>1 DEF Publish, Holding
    <2>. QED  BY <2>2, <2>3 DEF Publish
<1>8. Claims'
    BY <1>2, <1>3, <1>4, <1>5 DEF Publish, Claims, Writing, Active, Window, TypeOK
<1>9. \A q \in Window : q \in Nat /\ cell(q) \in Cell /\ (q # pos[p] => cell(q) # cell(pos[p]))
    BY <1>2, <1>4, CellOf, WindowCells DEF Window
<1>10. Cells'
    BY <1>2, <1>5, <1>7, <1>9 DEF Publish, Cells, TypeOK
<1>11. Consumer' /\ Undisturbed'
    BY <1>3, <1>5 DEF Publish, Consumer, Undisturbed, TypeOK
<1>. QED  BY <1>1, <1>8, <1>10, <1>11

\* The steps of pop that only the consumer sees.
LEMMA ConsumerOnly ==
    ASSUME Inv, UNCHANGED <<enqueue_pos, dequeue_pos, seq, data, producerVars>>,
           cpc \notin {"release", "advance"}, cpc' \notin {"release", "advance"}
    PROVE  /\ \A q \in Nat : Done(q)' <=> Done(q)
           /\ Claims' /\ Cells'
           /\ \A p \in Producer : Active(p)' <=> Active(p)
<1> USE DEF Inv, producerVars
<1>1. Front' = Front /\ Window' = Window /\ Front \in Nat /\ Capacity \in Nat
    BY MpscAssumption DEF Front, Window, TypeOK
<1>2. \A p \in Producer : Active(p)' <=> Active(p)
    BY DEF Active
<1>3. \A q \in Nat : Done(q)' <=> Done(q)
    BY <1>2 DEF Done
<1>4. \A q \in Nat : Holding(q)' <=> Holding(q)
    BY <1>3 DEF Holding
<1>5. Claims'
    BY <1>1, <1>2, <1>3 DEF Claims, Writing
<1>6. Cells'
    BY <1>1, <1>3, <1>4 DEF Cells, Window
<1>. QED  BY <1>2, <1>3, <1>5, <1>6

\* The consumer's position is the first of the window.
LEMMA FrontCell ==
    ASSUME Inv, cpc # "advance"
    PROVE  /\ dequeue_pos \in Window /\ dequeue_pos \in Nat
           /\ seq[cell(dequeue_pos)] = IF Done(dequeue_pos) THEN dequeue_pos + 1 ELSE dequeue_pos
           /\ data[cell(dequeue_pos)] = IF Holding(dequeue_pos) THEN dequeue_pos ELSE None
<1>1. dequeue_pos \in Window /\ dequeue_pos \in Nat
    BY MpscAssumption DEF Inv, TypeOK, Front, Window
<1>. QED  BY <1>1 DEF Inv, Cells

\* An undisturbed pop that finds nothing published finds nothing claimed.
LEMMA NothingClaimed ==
    ASSUME Inv, cpc # "advance", quiet, abandoned = {}, ~Done(dequeue_pos)
    PROVE  enqueue_pos = dequeue_pos
BY DEF Inv, Undisturbed, Done, Claims, Front, TypeOK

\* pop begins, spins, finds an element, or returns without one.
LEMMA PopSpinInv ==
    ASSUME Inv, \/ \E op \in {"pop", "clear"} : PopBegin(op)
                \/ PopHit \/ PopUnpublished \/ PopEmpty \/ PopWait \/ PopGiveUp
    PROVE  Inv'
<1> USE DEF Inv, producerVars
<1>1. TypeOK'
    BY PopType DEF PopStep
<1>2. /\ UNCHANGED <<enqueue_pos, dequeue_pos, seq, data, producerVars>>
      /\ cpc \notin {"release", "advance"} /\ cpc' \notin {"release", "advance"}
    BY DEF PopBegin, PopHit, PopUnpublished, PopEmpty, PopWait, PopGiveUp, Return
<1>3. /\ \A q \in Nat : Done(q)' <=> Done(q)
      /\ Claims' /\ Cells'
      /\ \A p \in Producer : Active(p)' <=> Active(p)
    BY <1>2, ConsumerOnly
<1>4. Consumer'
    <2>1. PopHit => Done(dequeue_pos)
        BY <1>2, FrontCell DEF PopHit
    <2>. QED  BY <1>2, <1>3, <2>1 DEF PopBegin, PopHit, PopUnpublished, PopEmpty, PopWait,
                   PopGiveUp, Return, Consumer, TypeOK
<1>5. Undisturbed'
    <2>1. ASSUME NEW op \in {"pop", "clear"}, PopBegin(op) PROVE Undisturbed'
        BY <1>2, <1>3, <2>1 DEF PopBegin, Undisturbed, Active
    <2>2. CASE PopUnpublished
        <3>1. ~Done(dequeue_pos)
            BY <1>2, <2>2, FrontCell DEF PopUnpublished
        <3>. QED  BY <1>2, <1>3, <2>2, <3>1, NothingClaimed DEF PopUnpublished, Undisturbed
    <2>3. CASE PopHit \/ PopEmpty \/ PopGiveUp
        BY <1>2, <1>3, <2>3 DEF PopHit, PopEmpty, PopGiveUp, Return, Undisturbed
    <2>4. CASE PopWait
        BY <1>2, <1>3, <2>4 DEF PopWait, Undisturbed
    <2>. QED  BY <2>1, <2>2, <2>3, <2>4
<1>. QED  BY <1>1, <1>3, <1>4, <1>5

\* pop moves the element out of its cell.
LEMMA PopMoveInv == ASSUME Inv, PopMove PROVE Inv'
<1> USE DEF Inv, producerVars
<1>1. TypeOK'
    BY PopType DEF PopStep
<1>2. /\ \A q \in Nat : Done(q)' <=> Done(q)
      /\ Claims' /\ Cells'
      /\ \A p \in Producer : Active(p)' <=> Active(p)
    BY ConsumerOnly DEF PopMove
<1>3. data[cell(dequeue_pos)] = dequeue_pos
    BY FrontCell DEF PopMove, Consumer, Holding
<1>4. Consumer' /\ Undisturbed'
    BY <1>2, <1>3 DEF PopMove, Consumer, Undisturbed, TypeOK
<1>. QED  BY <1>1, <1>2, <1>4

\* pop destroys the element, which is the consumer's alone.
LEMMA PopDestroyInv == ASSUME Inv, PopDestroy PROVE Inv'
<1> USE DEF Inv, producerVars
<1>1. TypeOK'
    BY PopType DEF PopStep
<1>2. Front' = Front /\ Window' = Window /\ Front \in Nat /\ Capacity \in Nat
    BY MpscAssumption DEF PopDestroy, Front, Window, TypeOK
<1>3. \A p \in Producer : Active(p)' <=> Active(p)
    BY DEF PopDestroy, Active
<1>4. \A q \in Nat : Done(q)' <=> Done(q)
    BY <1>3 DEF PopDestroy, Done
<1>5. dequeue_pos \in Window /\ dequeue_pos \in Nat /\ Done(dequeue_pos)
    BY FrontCell DEF PopDestroy, Consumer
<1>6. \A q \in Nat : Holding(q)' <=> Holding(q) /\ q # dequeue_pos
    <2>1. \A p \in Producer : ppc[p] = "publish" => pos[p] # dequeue_pos
        BY <1>5 DEF Done, Active
    <2>. QED  BY <1>4, <2>1 DEF PopDestroy, Holding
<1>7. Claims'
    BY <1>2, <1>3, <1>4 DEF PopDestroy, Claims, Writing
<1>8. \A q \in Window : q \in Nat /\ cell(q) \in Cell
                        /\ (q # dequeue_pos => cell(q) # cell(dequeue_pos))
    BY <1>2, <1>5, CellOf, WindowCells DEF Window
<1>9. Cells'
    BY <1>2, <1>4, <1>6, <1>8 DEF PopDestroy, Cells, TypeOK
<1>10. Consumer' /\ Undisturbed'
    BY <1>3, <1>4 DEF PopDestroy, Consumer, Undisturbed, TypeOK
<1>. QED  BY <1>1, <1>7, <1>9, <1>10

\* The released cell is that of the position one round later.
LEMMA PopReleaseInv == ASSUME Inv, PopRelease PROVE Inv'
<1> USE DEF Inv, producerVars
<1> DEFINE d == dequeue_pos
<1>1. TypeOK'
    BY PopType DEF PopStep
<1>2. d \in Nat /\ Capacity \in Nat /\ Capacity >= 2
    BY MpscAssumption DEF TypeOK
<1>3. Front = d /\ Front' = d + 1 /\ Window = d..(d + Capacity - 1) /\ Window' = (d + 1)..(d + Capacity)
    BY <1>2 DEF PopRelease, Front, Window
<1>4. \A p \in Producer : Active(p)' <=> Active(p)
    BY DEF PopRelease, Active
<1>5. \A q \in Nat : Done(q)' <=> Done(q)
    BY <1>4 DEF PopRelease, Done
<1>6. Done(d)
    BY DEF PopRelease, Consumer
<1>7. \A q \in Nat : q # d => (Holding(q)' <=> Holding(q))
    BY <1>5 DEF PopRelease, Holding
<1>8. Claims'
    BY <1>2, <1>3, <1>4, <1>5, <1>6 DEF PopRelease, Claims, Writing, Done, TypeOK
<1>9. ~Done(d + Capacity) /\ ~Holding(d + Capacity) /\ ~Holding(d)
    <2>1. d + Capacity \in Nat /\ d + Capacity # d
        BY <1>2
    <2>2. ~Done(d + Capacity)
        BY <1>2, <1>3, <2>1 DEF Claims
    <2>3. \A p \in Producer : ppc[p] = "publish" => pos[p] # d + Capacity /\ pos[p] # d
        BY <1>2, <1>3, <1>6 DEF Claims, Writing, Done, Active, TypeOK
    <2>. QED  BY <2>2, <2>3 DEF PopRelease, Holding
<1>10. d \in Window /\ cell(d) \in Cell /\ data[cell(d)] = None /\ cell(d + Capacity) = cell(d)
    BY <1>2, <1>3, <1>9, CellOf, CellNextRound DEF Cells
<1>11. ASSUME NEW q \in (d + 1)..(d + Capacity - 1)
       PROVE  /\ seq'[cell(q)] = IF Done(q)' THEN q + 1 ELSE q
              /\ data'[cell(q)] = IF Holding(q)' THEN q ELSE None
    <2>1. q \in Window /\ q \in Nat /\ q # d
        BY <1>2, <1>3
    <2>2. cell(q) # cell(d) /\ cell(q) \in Cell
        BY <1>10, <2>1, CellOf, WindowCells
    <2>. QED  BY <1>5, <1>7, <2>1, <2>2 DEF PopRelease, Cells, TypeOK
<1>12. ASSUME NEW q \in Nat, q = d + Capacity
       PROVE  /\ seq'[cell(q)] = IF Done(q)' THEN q + 1 ELSE q
              /\ data'[cell(q)] = IF Holding(q)' THEN q ELSE None
    <2>1. q # d
        BY <1>2, <1>12
    <2>2. ~Done(q)' /\ ~Holding(q)'
        BY <1>5, <1>7, <1>9, <1>12, <2>1
    <2>3. seq'[cell(q)] = q /\ data'[cell(q)] = None
        BY <1>10, <1>12 DEF PopRelease, TypeOK
    <2>. QED  BY <2>2, <2>3
<1>13. Cells'
    <2>1. \A q \in Window' : q \in Nat /\ (q \in (d + 1)..(d + Capacity - 1) \/ q = d + Capacity)
        BY <1>2, <1>3
    <2>. QED  BY <1>11, <1>12, <2>1 DEF Cells
<1>14. Consumer' /\ Undisturbed'
    BY <1>4 DEF PopRelease, Consumer, Undisturbed, TypeOK
<1>. QED  BY <1>1, <1>8, <1>13, <1>14

\* dequeue_pos_ moves to the front of the window.
LEMMA PopAdvanceInv == ASSUME Inv, PopAdvance PROVE Inv'
<1> USE DEF Inv, producerVars
<1>1. TypeOK'
    BY PopType DEF PopStep
<1>2. Front' = Front /\ Window' = Window /\ Front \in Nat /\ Capacity \in Nat
    BY MpscAssumption DEF PopAdvance, Return, Front, Window, TypeOK
<1>3. \A p \in Producer : Active(p)' <=> Active(p)
    BY DEF PopAdvance, Active
<1>4. \A q \in Nat : Done(q)' <=> Done(q)
    BY <1>3 DEF PopAdvance, Done
<1>5. \A q \in Nat : Holding(q)' <=> Holding(q)
    BY <1>4 DEF PopAdvance, Return, Holding
<1>6. Claims'
    BY <1>2, <1>3, <1>4 DEF PopAdvance, Claims, Writing
<1>7. Cells'
    BY <1>2, <1>4, <1>5 DEF PopAdvance, Cells, Window
<1>8. Consumer' /\ Undisturbed'
    BY <1>3 DEF PopAdvance, Return, Consumer, Undisturbed
<1>. QED  BY <1>1, <1>6, <1>7, <1>8

\* Every step keeps the invariant.
LEMMA NextInv == ASSUME Inv, [Next]_vars PROVE Inv'
<1>1. ASSUME NEW p \in Producer, Claim(p) \/ PushStep(p) PROVE Inv'
    BY <1>1, ClaimInv, SpinInv, ConstructInv, PublishInv DEF PushStep
<1>2. ASSUME NEW op \in {"pop", "clear"}, PopBegin(op) PROVE Inv'
    BY <1>2, PopSpinInv
<1>3. CASE PopStep
    BY <1>3, PopSpinInv, PopMoveInv, PopDestroyInv, PopReleaseInv, PopAdvanceInv DEF PopStep
<1>4. CASE UNCHANGED vars
    <2>1. \A p \in Producer : Active(p)' <=> Active(p)
        BY <1>4 DEF vars, producerVars, Active
    <2>2. Front' = Front /\ Window' = Window
        BY <1>4 DEF vars, consumerVars, Front, Window
    <2>3. \A q : Done(q)' <=> Done(q)
        BY <1>4, <2>1 DEF vars, producerVars, Done
    <2>4. \A q : Holding(q)' <=> Holding(q)
        BY <1>4, <2>3 DEF vars, producerVars, consumerVars, Holding
    <2>. QED  BY <1>4, <2>1, <2>2, <2>3, <2>4
                 DEF Inv, TypeOK, Claims, Cells, Consumer, Undisturbed, Writing,
                     vars, producerVars, consumerVars
<1>. QED  BY <1>1, <1>2, <1>3, <1>4 DEF Next

\* The invariant holds in every reachable state.
THEOREM MpscInvariant == Spec => []Inv
BY InitInv, NextInv, PTL DEF Spec
-----------------------------------------------------------------------------
(***************************************************************************)
(* Results                                                                 *)
(***************************************************************************)

\* No two contexts are ever in one cell: push claims before it knows that its cell
\* is free, and the sequence of the cell alone keeps it from another producer and
\* from pop.
THEOREM MpscCellExclusive == Spec => []CellExclusive
<1>1. Inv => CellExclusive
    <2> SUFFICES ASSUME Inv PROVE CellExclusive
        OBVIOUS
    <2>1. \A p \in Producer : Writing(p) => pos[p] \in Window /\ Active(p)
        BY MpscAssumption DEF Inv, Claims, Writing, Active, Window, Front, TypeOK
    <2>2. Reading => dequeue_pos \in Window /\ Done(dequeue_pos)
        BY FrontCell DEF Inv, Reading, Consumer
    <2>3. ASSUME NEW p \in Producer, Writing(p), NEW q \in Producer \ {p}, Writing(q)
          PROVE  cell(pos[q]) # cell(pos[p])
        <3>1. pos[p] # pos[q]
            BY <2>1, <2>3 DEF Inv, Claims
        <3>. QED  BY <2>1, <2>3, <3>1, WindowCells DEF Inv
    <2>4. ASSUME NEW p \in Producer, Writing(p), Reading
          PROVE  cell(dequeue_pos) # cell(pos[p])
        <3>1. pos[p] # dequeue_pos
            BY <2>1, <2>2, <2>4 DEF Done
        <3>. QED  BY <2>1, <2>2, <2>4, <3>1, WindowCells DEF Inv
    <2>. QED  BY <2>3, <2>4 DEF CellExclusive
<1>. QED  BY <1>1, MpscInvariant, PTL

\* pop returns the elements in the order of the claims, and never passes a claim
\* that was given up.
THEOREM MpscDeliversInClaimOrder == Spec => []DeliversInClaimOrder
<1>1. Inv => DeliversInClaimOrder
    BY DEF Inv, DeliversInClaimOrder, Consumer, Claims, Front, TypeOK
<1>. QED  BY <1>1, MpscInvariant, PTL

\* No element is overwritten or left behind in a cell.
THEOREM MpscNoLeak == Spec => []NoLeak
<1>1. Inv => NoLeak
    <2> SUFFICES ASSUME Inv, NEW i \in Cell, data[i] # None
                 PROVE  \/ seq[i] = data[i] + 1 /\ data[i] >= dequeue_pos
                        \/ \E p \in Producer : ppc[p] = "publish" /\ pos[p] = data[i]
        BY DEF NoLeak
    <2>1. Front \in Nat /\ Front >= dequeue_pos /\ Capacity \in Nat
        BY MpscAssumption DEF Inv, TypeOK, Front
    <2>2. PICK q \in Window : cell(q) = i
        BY <2>1, CellCovered DEF Window
    <2>3. Holding(q) /\ data[i] = q
        BY <2>2 DEF Inv, Cells
    <2>4. q >= dequeue_pos
        BY <2>1 DEF Window, Inv, TypeOK
    <2>. QED  BY <2>2, <2>3, <2>4 DEF Holding, Inv, Cells
<1>. QED  BY <1>1, MpscInvariant, PTL

\* What push and pop answer is true: a try of push fails only while the queue has a
\* capacity of older claims that were not consumed, pop says empty only when every
\* claim was consumed, and an undisturbed clear leaves no element.  clear calls pop
\* with its default of 1024 spins, so MaxSpins is not 0 here.
THEOREM MpscAnswersTruthful == ASSUME MaxSpins # 0 PROVE Spec => AnswersTruthful
<1> DEFINE A == /\ \A p \in Producer : SpinMiss(p) => pos[p] >= dequeue_pos + Capacity
                /\ PopEmpty => \A i \in Cell : seq[i] >= enqueue_pos
                /\ cop = "clear" /\ cpc # "idle" /\ cpc' = "idle" /\ quiet /\ abandoned = {}
                       => \A i \in Cell : data'[i] = None
<1>1. ASSUME Inv, [Next]_vars PROVE [A]_vars
    <2> SUFFICES ASSUME Next PROVE A
        BY <1>1
    <2>1. Inv /\ Front \in Nat /\ dequeue_pos \in Nat /\ Front >= dequeue_pos /\ Capacity \in Nat
        BY <1>1, MpscAssumption DEF Inv, TypeOK, Front
    <2>2. ASSUME NEW p \in Producer, SpinMiss(p) PROVE pos[p] >= dequeue_pos + Capacity
        <3>1. pos[p] \in Nat /\ pos[p] >= Front /\ ~Done(pos[p])
            BY <2>1, <2>2 DEF Inv, TypeOK, Claims, Done, SpinMiss, Active
        <3>2. pos[p] \notin Window
            BY <2>1, <2>2, <3>1 DEF SpinMiss, Inv, Cells
        <3>. QED  BY <2>1, <3>1, <3>2 DEF Window
    <2>3. ASSUME PopEmpty, NEW i \in Cell PROVE seq[i] >= enqueue_pos
        <3>1. PICK q \in Window : cell(q) = i
            BY <2>1, CellCovered DEF Window
        <3>2. q \in Nat /\ q >= enqueue_pos
            BY <2>1, <2>3 DEF Window, PopEmpty
        <3>3. seq[i] \in {q, q + 1}
            BY <2>1, <3>1 DEF Inv, Cells
        <3>4. enqueue_pos \in Nat
            BY <2>1 DEF Inv, TypeOK
        <3>. QED  BY <3>2, <3>3, <3>4
    <2>4. ASSUME cop = "clear", cpc # "idle", cpc' = "idle", quiet, abandoned = {}, NEW i \in Cell
          PROVE  data'[i] = None
        <3>1. \A p \in Producer : ~Claim(p) /\ ~PushStep(p)
            BY <2>4 DEF Claim, PushStep, SpinHit, SpinMiss, GiveUp, Construct, Publish, consumerVars
        <3>2. PopEmpty \/ PopGiveUp
            BY <2>4, <3>1 DEF Next, PopBegin, PopStep, PopHit, PopUnpublished, PopEmpty, PopWait,
                   PopGiveUp, PopMove, PopDestroy, PopRelease, PopAdvance, Return
        <3>3. ~PopGiveUp
            BY <2>1, <2>4, MpscAssumption DEF PopGiveUp, Inv, Undisturbed
        <3>4. PopEmpty /\ enqueue_pos = dequeue_pos /\ data' = data /\ cpc = "check"
            BY <3>2, <3>3 DEF PopEmpty
        <3>5. PICK q \in Window : cell(q) = i
            BY <2>1, CellCovered DEF Window
        <3>6. q \in Nat /\ q >= enqueue_pos
            BY <2>1, <3>4 DEF Window
        <3>7. \A p \in Producer : ~Active(p)
            BY <2>1, <2>4 DEF Inv, Undisturbed
        <3>8. ~Holding(q)
            BY <2>1, <3>6, <3>7 DEF Holding, Done, Active, Inv, TypeOK
        <3>. QED  BY <2>1, <3>4, <3>5, <3>8 DEF Inv, Cells
    <2>. QED  BY <2>2, <2>3, <2>4
<1>. QED  BY <1>1, MpscInvariant, PTL DEF Spec, AnswersTruthful

-----------------------------------------------------------------------------
(***************************************************************************)
(* The double buffer                                                       *)
(***************************************************************************)

\* Every element of a slot belongs to the block b.
Whole(s, b) == \A i \in 1..BlockSize : buffer[s][i] = b

\* The readable slot holds the block published last; the producer is at most one
\* block ahead and fills the other slot.
ProducerInv ==
    /\ Whole(readable, published)
    /\ block = IF wpc = "fill" THEN published + 1 ELSE published
    /\ wpc = "fill" => /\ wslot = 1 - readable
                       /\ \A i \in 1..written : buffer[wslot][i] = block

\* A span that is not overrun holds the block that was readable at read_span.  It
\* either still is the readable slot, or the producer has published another block
\* and not yet asked for the next span.
ConsumerInv ==
    rpc = "read" /\ ~overrun =>
        /\ Whole(rslot, taken) /\ taken <= published
        /\ rslot = readable \/ (published > taken /\ wpc = "idle")

BufferInv == BufferTypeOK /\ ProducerInv /\ ConsumerInv /\ WholeUnlessOverrun

\* Nothing is published, written or read.
LEMMA BufferInitInv ==
    ASSUME BufferInit
    PROVE  BufferInv
<1>1. BufferTypeOK
    BY DoubleBufferAssumption DEF BufferInit, BufferTypeOK, Side, Block
<1>2. ProducerInv
    BY DEF BufferInit, ProducerInv, Whole, Side
<1>. QED  BY <1>1, <1>2 DEF BufferInit, BufferInv, ConsumerInv, WholeUnlessOverrun

\* write_span gives the producer the slot that is not readable; the consumer that
\* still holds it is overrun.
LEMMA BufferWriteSpanInv ==
    ASSUME BufferInv, WriteSpan
    PROVE  BufferInv'
<1>1. /\ published \in Nat /\ block \in Nat /\ block < MaxBlocks /\ taken \in Nat /\ MaxBlocks \in Nat
      /\ readable \in {0, 1} /\ rslot \in {0, 1} /\ BlockSize \in Nat
    BY DoubleBufferAssumption DEF BufferInv, BufferTypeOK, Block, Side, WriteSpan
<1>2. wslot' \in Side /\ written' \in 0..BlockSize /\ block' \in Block /\ overrun' \in BOOLEAN
    BY <1>1 DEF WriteSpan, Side, Block
<1>3. BufferTypeOK'
    BY <1>2 DEF BufferInv, BufferTypeOK, WriteSpan, readVars
<1>4. ProducerInv'
    BY <1>1 DEF BufferInv, ProducerInv, Whole, WriteSpan
<1>5. overrun' <=> overrun \/ (rpc = "read" /\ rslot = 1 - readable)
    BY DEF WriteSpan
<1>6. ConsumerInv'
    BY <1>1, <1>5 DEF BufferInv, ConsumerInv, Whole, WriteSpan, readVars
<1>7. overrun' => published > taken
    BY <1>1, <1>5 DEF BufferInv, ConsumerInv, WholeUnlessOverrun
<1>8. overrun' => published' > taken' /\ block' > taken' + 1
    BY <1>1, <1>7 DEF BufferInv, ProducerInv, WriteSpan, readVars
<1>9. ~overrun' => \A i \in 1..Len(got') : got'[i] = taken'
    BY <1>5 DEF BufferInv, WholeUnlessOverrun, WriteSpan, readVars
<1>10. WholeUnlessOverrun'
    BY <1>8, <1>9 DEF WholeUnlessOverrun
<1>. QED  BY <1>3, <1>4, <1>6, <1>10 DEF BufferInv

\* The producer fills a slot that no span of the consumer shows, unless it is overrun.
LEMMA BufferFillInv ==
    ASSUME BufferInv, Fill
    PROVE  BufferInv'
<1>1. /\ written \in Nat /\ written < BlockSize /\ BlockSize \in Nat /\ written + 1 \in 1..BlockSize
      /\ readable \in Side /\ wslot \in Side /\ rslot \in Side /\ block \in Block
      /\ buffer \in [Side -> [1..BlockSize -> Block]] /\ wslot = 1 - readable /\ wpc = "fill"
    BY DoubleBufferAssumption DEF BufferInv, BufferTypeOK, ProducerInv, Fill
<1>2. buffer' = [buffer EXCEPT ![wslot] = [buffer[wslot] EXCEPT ![written + 1] = block]]
    BY DEF Fill
<1>3. buffer' \in [Side -> [1..BlockSize -> Block]]
    BY <1>1, <1>2
<1>4. \A s \in Side : s # wslot => buffer'[s] = buffer[s]
    BY <1>1, <1>2
<1>5. \A i \in 1..BlockSize : buffer'[wslot][i] = IF i = written + 1 THEN block ELSE buffer[wslot][i]
    BY <1>1, <1>2
<1>6. readable # wslot
    BY <1>1 DEF Side
<1>7. BufferTypeOK'
    BY <1>1, <1>3 DEF BufferInv, BufferTypeOK, Fill, readVars
<1>8. ProducerInv'
    <2>1. Whole(readable, published)'
        BY <1>1, <1>4, <1>6 DEF BufferInv, ProducerInv, Whole, Fill
    <2>2. \A i \in 1..(written + 1) : buffer'[wslot][i] = block
        <3>1. TAKE i \in 1..(written + 1)
        <3>2. i \in 1..BlockSize /\ (i = written + 1 \/ i \in 1..written)
            BY <1>1
        <3>. QED  BY <1>5, <3>2, <1>1 DEF BufferInv, ProducerInv
    <2>. QED  BY <1>1, <2>1, <2>2 DEF BufferInv, ProducerInv, Fill
<1>9. ConsumerInv'
    <2>1. SUFFICES ASSUME rpc = "read", ~overrun PROVE ConsumerInv'
        BY DEF ConsumerInv, Fill, readVars
    <2>2. rslot = readable /\ Whole(rslot, taken) /\ taken <= published
        BY <1>1, <2>1 DEF BufferInv, ConsumerInv
    <2>. QED  BY <1>1, <1>4, <1>6, <2>2 DEF ConsumerInv, Whole, Fill, readVars
<1>. QED  BY <1>7, <1>8, <1>9 DEF BufferInv, WholeUnlessOverrun, Fill, readVars

\* publish makes the slot that was filled readable.
LEMMA BufferPublishInv ==
    ASSUME BufferInv, PublishBlock
    PROVE  BufferInv'
<1>1. /\ published \in Nat /\ block \in Nat /\ block = published + 1 /\ taken \in Nat
      /\ readable \in Side /\ rslot \in Side /\ wslot = 1 - readable /\ written = BlockSize
      /\ \A i \in 1..BlockSize : buffer[wslot][i] = block
    BY DoubleBufferAssumption DEF BufferInv, BufferTypeOK, ProducerInv, PublishBlock, Block
<1>2. readable' = wslot /\ wslot \in Side
    BY <1>1 DEF PublishBlock, Side
<1>3. BufferTypeOK'
    BY <1>2 DEF BufferInv, BufferTypeOK, PublishBlock, readVars
<1>4. ProducerInv'
    BY <1>1, <1>2 DEF ProducerInv, Whole, PublishBlock
<1>5. ConsumerInv' /\ WholeUnlessOverrun'
    BY <1>1 DEF BufferInv, ConsumerInv, WholeUnlessOverrun, Whole, PublishBlock, readVars
<1>. QED  BY <1>3, <1>4, <1>5 DEF BufferInv

\* read_span, and the steps of the consumer.
LEMMA BufferReadInv ==
    ASSUME BufferInv, ReadSpan \/ Read \/ ReadDone
    PROVE  BufferInv'
<1>1. BlockSize \in Nat /\ published \in Nat /\ taken \in Nat /\ got \in Seq(Block) /\ rslot \in Side
      /\ buffer \in [Side -> [1..BlockSize -> Block]]
    BY DoubleBufferAssumption DEF BufferInv, BufferTypeOK, Block
<1>2. UNCHANGED <<readable, buffer, writeVars>>
    BY DEF ReadSpan, Read, ReadDone
<1>3. ProducerInv'
    BY <1>2 DEF BufferInv, ProducerInv, Whole, writeVars
<1>4. CASE ReadSpan
    <2>1. got' \in Seq(Block) /\ Len(got') = 0
        BY <1>4 DEF ReadSpan
    <2>2. rpc' = "read" /\ rslot' \in Side /\ taken' \in Block /\ Len(got') <= BlockSize
        BY <1>1, <1>4, <2>1 DEF BufferInv, BufferTypeOK, ReadSpan
    <2>3. overrun' \in BOOLEAN
        BY <1>4 DEF ReadSpan
    <2>4. BufferTypeOK'
        BY <1>2, <2>1, <2>2, <2>3 DEF BufferInv, BufferTypeOK, writeVars
    <2>5. ConsumerInv' /\ WholeUnlessOverrun'
        BY <1>1, <1>4, <2>1 DEF BufferInv, ProducerInv, ConsumerInv, WholeUnlessOverrun, Whole, ReadSpan, writeVars
    <2>. QED  BY <1>3, <2>4, <2>5 DEF BufferInv
<1>5. CASE Read
    <2>1. Len(got) \in Nat /\ Len(got) < BlockSize /\ Len(got) + 1 \in 1..BlockSize
        BY <1>1, <1>5 DEF Read
    <2>2. PICK x \in Block : x = buffer[rslot][Len(got) + 1]
        BY <1>1, <2>1
    <2>3. /\ got' = Append(got, x) /\ got' \in Seq(Block) /\ Len(got') = Len(got) + 1
          /\ \A i \in 1..Len(got) : got'[i] = got[i]
          /\ got'[Len(got) + 1] = x
        BY <1>1, <1>5, <2>2 DEF Read
    <2>4. BufferTypeOK'
        BY <1>2, <1>5, <2>1, <2>3 DEF BufferInv, BufferTypeOK, Read, writeVars
    <2>5. ConsumerInv'
        BY <1>5 DEF BufferInv, ConsumerInv, Whole, Read, writeVars
    <2>6. ~overrun => x = taken
        BY <1>5, <2>1, <2>2 DEF BufferInv, ConsumerInv, Whole, Read
    <2>7. ~overrun => \A i \in 1..Len(got') : got'[i] = taken
        BY <2>1, <2>3, <2>6 DEF BufferInv, WholeUnlessOverrun
    <2>8. WholeUnlessOverrun'
        BY <1>5, <2>7 DEF BufferInv, WholeUnlessOverrun, Read, writeVars
    <2>. QED  BY <1>3, <2>4, <2>5, <2>8 DEF BufferInv
<1>6. CASE ReadDone
    BY <1>2, <1>3, <1>6 DEF BufferInv, BufferTypeOK, ConsumerInv, WholeUnlessOverrun, Whole, ReadDone, writeVars
<1>. QED  BY <1>4, <1>5, <1>6

\* The inductive invariant holds throughout.
THEOREM DoubleBufferInvariant == BufferSpec => []BufferInv
<1>1. BufferInit => BufferInv
    BY BufferInitInv
<1>2. BufferInv /\ [BufferNext]_bufferVars => BufferInv'
    <2>1. SUFFICES ASSUME BufferInv, [BufferNext]_bufferVars PROVE BufferInv'
        OBVIOUS
    <2>2. CASE UNCHANGED bufferVars
        BY <2>1, <2>2 DEF bufferVars, writeVars, readVars, BufferInv, BufferTypeOK, ProducerInv, ConsumerInv,
                          WholeUnlessOverrun, Whole
    <2>. QED  BY <2>1, <2>2, BufferWriteSpanInv, BufferFillInv, BufferPublishInv, BufferReadInv DEF BufferNext
<1>. QED  BY <1>1, <1>2, PTL DEF BufferSpec

\* Whatever the size of a block: a consumer whose span is not overrun reads one whole
\* block, and it takes a publish and a further write_span to overrun it.
THEOREM DoubleBufferWhole == BufferSpec => []WholeUnlessOverrun
<1>1. BufferInv => WholeUnlessOverrun
    BY DEF BufferInv
<1>. QED  BY <1>1, DoubleBufferInvariant, PTL

\* The indices of the spans and the block numbers keep their ranges.
THEOREM DoubleBufferTypeCorrect == BufferSpec => []BufferTypeOK
<1>1. BufferInv => BufferTypeOK
    BY DEF BufferInv
<1>. QED  BY <1>1, DoubleBufferInvariant, PTL
=============================================================================
