------------------------------ MODULE MpscQueue ------------------------------
(***************************************************************************)
(* memkit::MpscQueue, the bounded multi-producer single-consumer queue of  *)
(* include/memkit/detail/mpsc_queue_core.hpp (Vyukov-style cells).         *)
(*                                                                         *)
(* A push claims a position with fetch_add before it knows whether the     *)
(* cell is free, then spins for at most MaxSpins loads of the cell's       *)
(* sequence; pop spins on the cell at dequeue_pos_.  Every atomic access   *)
(* and every construction, move or destruction of an element is a step.    *)
(* The atomics are modelled as one total order; an older sequence value    *)
(* read late by a spinning thread is one more failed spin.                 *)
(*                                                                         *)
(* An element is identified by the position its push claimed, so pop is    *)
(* right exactly when the element at position p is p.                      *)
(***************************************************************************)
EXTENDS Integers

CONSTANTS Producer,   \* the producer contexts
          Capacity,   \* capacity_
          MaxSpins,   \* max_spins of push and pop
          MaxClaims,  \* bound: positions claimed in one behaviour
          None        \* a cell without a live element; no element

ASSUME MpscAssumption ==
    /\ Capacity \in Nat /\ Capacity >= 2
    /\ MaxSpins \in Nat /\ MaxClaims \in Nat
    /\ None \notin Nat

VARIABLES enqueue_pos,  \* enqueue_pos_
          dequeue_pos,  \* dequeue_pos_, the consumer's
          seq,          \* the sequence of each cell
          data,         \* the element constructed in each cell
          ppc, pos, pspin,        \* per producer: place in push, its position, its spins
          abandoned,    \* positions whose push gave up
          cpc, cspin, cop, citem, \* consumer: place in pop, spins, caller, element
          cres,         \* what the consumer's last call returned
          quiet         \* no push has been in progress since the consumer's call began

producerVars == <<ppc, pos, pspin, abandoned>>
consumerVars == <<cpc, cspin, cop, citem, cres, quiet>>
vars == <<enqueue_pos, dequeue_pos, seq, data, producerVars, consumerVars>>

Cell == 0..(Capacity - 1)

\* pos & mask_, for a power-of-two capacity.
cell(p) == p % Capacity

\* The values of the variables.
TypeOK ==
    /\ enqueue_pos \in Nat /\ dequeue_pos \in Nat
    /\ seq \in [Cell -> Nat] /\ data \in [Cell -> Nat \cup {None}]
    /\ ppc \in [Producer -> {"idle", "spin", "construct", "publish"}]
    /\ pos \in [Producer -> Nat] /\ pspin \in [Producer -> 0..MaxSpins]
    /\ abandoned \subseteq Nat
    /\ cpc \in {"idle", "spin", "check", "move", "destroy", "release", "advance"}
    /\ cspin \in 0..MaxSpins /\ cop \in {"pop", "clear"}
    /\ citem \in Nat \cup {None}
    /\ cres \in {"none", "ok", "empty", "full", "cleared"}
    /\ quiet \in BOOLEAN

\* init numbers the cells 0 .. capacity_ - 1.
Init ==
    /\ enqueue_pos = 0 /\ dequeue_pos = 0
    /\ seq = [i \in Cell |-> i] /\ data = [i \in Cell |-> None]
    /\ ppc = [p \in Producer |-> "idle"] /\ pos = [p \in Producer |-> 0]
    /\ pspin = [p \in Producer |-> 0] /\ abandoned = {}
    /\ cpc = "idle" /\ cspin = 0 /\ cop = "pop" /\ citem = None /\ cres = "none"
    /\ quiet = TRUE
-----------------------------------------------------------------------------
(***************************************************************************)
(* push                                                                    *)
(***************************************************************************)

\* Mutant: load and store instead of fetch_add, so two producers may claim the
\* same position.
Claim_NotAtomic(p) ==
    /\ ppc[p] = "idle" /\ enqueue_pos < MaxClaims
    /\ enqueue_pos' \in {enqueue_pos, enqueue_pos + 1}
    /\ pos' = [pos EXCEPT ![p] = enqueue_pos]
    /\ pspin' = [pspin EXCEPT ![p] = 0]
    /\ ppc' = [ppc EXCEPT ![p] = "spin"]
    /\ quiet' = FALSE
    /\ UNCHANGED <<dequeue_pos, seq, data, abandoned, cpc, cspin, cop, citem, cres>>

\* enqueue_pos_.fetch_add(1).
Claim(p) ==
    /\ ppc[p] = "idle" /\ enqueue_pos < MaxClaims
    /\ enqueue_pos' = enqueue_pos + 1
    /\ pos' = [pos EXCEPT ![p] = enqueue_pos]
    /\ pspin' = [pspin EXCEPT ![p] = 0]
    /\ ppc' = [ppc EXCEPT ![p] = "spin"]
    /\ quiet' = FALSE
    /\ UNCHANGED <<dequeue_pos, seq, data, abandoned, cpc, cspin, cop, citem, cres>>

\* Mutant: a producer takes any cell that is not ahead of its position.
SpinHit_Late(p) ==
    /\ ppc[p] = "spin" /\ pspin[p] < MaxSpins
    /\ seq[cell(pos[p])] <= pos[p]
    /\ ppc' = [ppc EXCEPT ![p] = "construct"]
    /\ UNCHANGED <<enqueue_pos, dequeue_pos, seq, data, pos, pspin, abandoned, consumerVars>>

\* sequence == pos: the cell is this push's.
SpinHit(p) ==
    /\ ppc[p] = "spin" /\ pspin[p] < MaxSpins
    /\ seq[cell(pos[p])] = pos[p]
    /\ ppc' = [ppc EXCEPT ![p] = "construct"]
    /\ UNCHANGED <<enqueue_pos, dequeue_pos, seq, data, pos, pspin, abandoned, consumerVars>>

\* sequence != pos: spin again.
SpinMiss(p) ==
    /\ ppc[p] = "spin" /\ pspin[p] < MaxSpins
    /\ seq[cell(pos[p])] # pos[p]
    /\ pspin' = [pspin EXCEPT ![p] = @ + 1]
    /\ UNCHANGED <<enqueue_pos, dequeue_pos, seq, data, ppc, pos, abandoned, consumerVars>>

\* Out of spins: return full.  The claimed position is never given back.
GiveUp(p) ==
    /\ ppc[p] = "spin" /\ pspin[p] = MaxSpins
    /\ ppc' = [ppc EXCEPT ![p] = "idle"]
    /\ abandoned' = abandoned \cup {pos[p]}
    /\ UNCHANGED <<enqueue_pos, dequeue_pos, seq, data, pos, pspin, consumerVars>>

\* copy_construct into the cell.
Construct(p) ==
    /\ ppc[p] = "construct"
    /\ data' = [data EXCEPT ![cell(pos[p])] = pos[p]]
    /\ ppc' = [ppc EXCEPT ![p] = "publish"]
    /\ UNCHANGED <<enqueue_pos, dequeue_pos, seq, pos, pspin, abandoned, consumerVars>>

\* seq.store(pos + 1, release) and return ok.
Publish(p) ==
    /\ ppc[p] = "publish"
    /\ seq' = [seq EXCEPT ![cell(pos[p])] = pos[p] + 1]
    /\ ppc' = [ppc EXCEPT ![p] = "idle"]
    /\ UNCHANGED <<enqueue_pos, dequeue_pos, data, pos, pspin, abandoned, consumerVars>>
-----------------------------------------------------------------------------
(***************************************************************************)
(* pop, called directly or in the loop of clear                            *)
(***************************************************************************)

\* What a finished pop does: pop returns; clear goes on after ok and stops
\* otherwise.
Return(status) ==
    /\ cspin' = 0
    /\ IF cop = "clear" /\ status = "ok"
       THEN cpc' = "spin" /\ cres' = cres
       ELSE cpc' = "idle" /\ cres' = IF cop = "clear" THEN "cleared" ELSE status

PopBegin(op) ==
    /\ cpc = "idle"
    /\ cpc' = "spin" /\ cspin' = 0 /\ cop' = op
    /\ quiet' = \A p \in Producer : ppc[p] = "idle"
    /\ UNCHANGED <<enqueue_pos, dequeue_pos, seq, data, citem, cres, producerVars>>

\* Mutant: pop waits for the sequence to pass pos + 1.
PopHit_OffByOne ==
    /\ cpc = "spin" /\ cspin < MaxSpins
    /\ seq[cell(dequeue_pos)] > dequeue_pos + 1
    /\ cpc' = "move"
    /\ UNCHANGED <<enqueue_pos, dequeue_pos, seq, data, cspin, cop, citem, cres, quiet, producerVars>>

\* sequence == pos + 1: the element is published.
PopHit ==
    /\ cpc = "spin" /\ cspin < MaxSpins
    /\ seq[cell(dequeue_pos)] = dequeue_pos + 1
    /\ cpc' = "move"
    /\ UNCHANGED <<enqueue_pos, dequeue_pos, seq, data, cspin, cop, citem, cres, quiet, producerVars>>

\* sequence == pos: is there a claim?  The two loads are separate.
PopUnpublished ==
    /\ cpc = "spin" /\ cspin < MaxSpins
    /\ seq[cell(dequeue_pos)] = dequeue_pos
    /\ cpc' = "check"
    /\ UNCHANGED <<enqueue_pos, dequeue_pos, seq, data, cspin, cop, citem, cres, quiet, producerVars>>

\* enqueue_pos_ == pos: return empty.
PopEmpty ==
    /\ cpc = "check" /\ enqueue_pos = dequeue_pos
    /\ Return("empty")
    /\ UNCHANGED <<enqueue_pos, dequeue_pos, seq, data, cop, citem, quiet, producerVars>>

\* Claimed but not published: spin again.
PopWait ==
    /\ cpc = "check" /\ enqueue_pos # dequeue_pos
    /\ cpc' = "spin" /\ cspin' = cspin + 1
    /\ UNCHANGED <<enqueue_pos, dequeue_pos, seq, data, cop, citem, cres, quiet, producerVars>>

\* Out of spins: pop returns full.
PopGiveUp ==
    /\ cpc = "spin" /\ cspin = MaxSpins
    /\ Return("full")
    /\ UNCHANGED <<enqueue_pos, dequeue_pos, seq, data, cop, citem, quiet, producerVars>>

\* move_construct(out, src); nothing when clear discards the element.
PopMove ==
    /\ cpc = "move"
    /\ citem' = IF cop = "clear" THEN citem ELSE data[cell(dequeue_pos)]
    /\ cpc' = "destroy"
    /\ UNCHANGED <<enqueue_pos, dequeue_pos, seq, data, cspin, cop, cres, quiet, producerVars>>

\* Mutant: pop(nullptr) does not destroy the element it discards.
PopDestroy_OnlyMoved ==
    /\ cpc = "destroy"
    /\ data' = IF cop = "clear" THEN data ELSE [data EXCEPT ![cell(dequeue_pos)] = None]
    /\ cpc' = "release"
    /\ UNCHANGED <<enqueue_pos, dequeue_pos, seq, cspin, cop, citem, cres, quiet, producerVars>>

\* destroy(src).
PopDestroy ==
    /\ cpc = "destroy"
    /\ data' = [data EXCEPT ![cell(dequeue_pos)] = None]
    /\ cpc' = "release"
    /\ UNCHANGED <<enqueue_pos, dequeue_pos, seq, cspin, cop, citem, cres, quiet, producerVars>>

\* Mutant: the cell is released for the position after the next round's.
PopRelease_OffByOne ==
    /\ cpc = "release"
    /\ seq' = [seq EXCEPT ![cell(dequeue_pos)] = dequeue_pos + Capacity + 1]
    /\ cpc' = "advance"
    /\ UNCHANGED <<enqueue_pos, dequeue_pos, data, cspin, cop, citem, cres, quiet, producerVars>>

\* seq.store(pos + capacity_, release).
PopRelease ==
    /\ cpc = "release"
    /\ seq' = [seq EXCEPT ![cell(dequeue_pos)] = dequeue_pos + Capacity]
    /\ cpc' = "advance"
    /\ UNCHANGED <<enqueue_pos, dequeue_pos, data, cspin, cop, citem, cres, quiet, producerVars>>

\* dequeue_pos_ = pos + 1 and return ok.
PopAdvance ==
    /\ cpc = "advance"
    /\ dequeue_pos' = dequeue_pos + 1
    /\ Return("ok")
    /\ UNCHANGED <<enqueue_pos, seq, data, cop, citem, quiet, producerVars>>
-----------------------------------------------------------------------------
PushStep(p) == SpinHit(p) \/ SpinMiss(p) \/ GiveUp(p) \/ Construct(p) \/ Publish(p)
PopStep ==
    \/ PopHit \/ PopUnpublished \/ PopEmpty \/ PopWait \/ PopGiveUp
    \/ PopMove \/ PopDestroy \/ PopRelease \/ PopAdvance

Next ==
    \/ \E p \in Producer : Claim(p) \/ PushStep(p)
    \/ \E op \in {"pop", "clear"} : PopBegin(op)
    \/ PopStep

Spec == Init /\ [][Next]_vars

\* Every context keeps running, and the consumer keeps calling pop.
FairSpec ==
    /\ Spec
    /\ \A p \in Producer : WF_vars(PushStep(p))
    /\ WF_vars(PopStep) /\ WF_vars(PopBegin("pop"))
-----------------------------------------------------------------------------
Writing(p) == ppc[p] \in {"construct", "publish"}
Reading == cpc \in {"move", "destroy", "release"}

\* A cell belongs to one context at a time: two producers never construct in
\* the same cell, and none does in the cell pop is emptying.
CellExclusive ==
    \A p \in Producer : Writing(p) =>
        /\ \A q \in Producer \ {p} : Writing(q) => cell(pos[q]) # cell(pos[p])
        /\ Reading => cell(dequeue_pos) # cell(pos[p])

\* pop delivers the elements in the order of their claims, each once: the
\* element it takes at position p is the one pushed at p, and it never passes a
\* position whose push gave up.
DeliversInClaimOrder ==
    /\ cpc \in {"destroy", "release", "advance"} /\ cop = "pop" => citem = dequeue_pos
    /\ \A a \in abandoned : dequeue_pos <= a

\* A constructed element is never overwritten or leaked: the cells that hold a
\* live element are those published and not yet popped, or being filled.
NoLeak ==
    \A i \in Cell : data[i] # None =>
        \/ seq[i] = data[i] + 1 /\ data[i] >= dequeue_pos
        \/ \E p \in Producer : ppc[p] = "publish" /\ pos[p] = data[i]

\* Each try of a push that says full failed while Capacity earlier positions were
\* unconsumed, pop says empty only when every claimed position has been consumed, and
\* clear, when no push was in progress while it ran and none was ever abandoned,
\* leaves no live element.
AnswersTruthful ==
    [][/\ \A p \in Producer : SpinMiss(p) => pos[p] >= dequeue_pos + Capacity
       /\ PopEmpty => \A i \in Cell : seq[i] >= enqueue_pos
       /\ cop = "clear" /\ cpc # "idle" /\ cpc' = "idle" /\ quiet /\ abandoned = {}
              => \A i \in Cell : data'[i] = None]_vars

Published(q) == seq[cell(q)] = q + 1

\* Every published element is eventually consumed, unless a push gave up at
\* its position or before it.  (docs/CONCURRENCY.md, "System-wide progress is
\* guaranteed", has no such exception: the consumer waits at an abandoned position
\* for ever.)
DeliveredUnlessAbandoned ==
    \A q \in 0..(MaxClaims - 1) :
        Published(q) ~> (dequeue_pos > q \/ \E a \in abandoned : a < q)
=============================================================================
