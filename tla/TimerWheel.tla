------------------------------ MODULE TimerWheel ------------------------------
(***************************************************************************)
(* memkit::TimerWheel: timer_wheel_core of                                 *)
(* include/memkit/detail/timer_wheel_core.hpp over the circular intrusive  *)
(* lists of include/memkit/detail/intrusive_hook.hpp.                      *)
(*                                                                         *)
(* The lists are modelled link by link, because cancel() unlinks a node    *)
(* without knowing which list holds it and a callback may call schedule()  *)
(* and cancel() while dispatch_bucket is half way through a bucket.        *)
(* tick(k) is k ticks of one step.                                         *)
(***************************************************************************)
EXTENDS Integers, FiniteSets

CONSTANTS Node,      \* the timer_wheel_node objects of the program
          NumSlots,  \* the template parameter
          Word,      \* values of the tick counter, 2^32 in the code
          MaxDelay   \* bound: the longest delay a client asks for

ASSUME TimerWheelAssumption ==
    /\ IsFiniteSet(Node)
    /\ NumSlots \in Nat \ {0, 1} /\ Word \in Nat /\ Word > NumSlots
    /\ Word % NumSlots = 0
    /\ MaxDelay \in 1..(Word - 1)
    /\ \A s \in 0..NumSlots : <<s>> \notin Node   \* a node is not a sentinel

VARIABLES links,         \* next and prev of every hook
          deadline,      \* node.deadline
          tick_count,    \* tick_count_
          current_slot,  \* current_slot_
          pc,            \* where tick() stands: "idle" when it is not running
          left,          \* ticks until the node is due, counted without wrapping
          wrapped        \* scheduled a round or more ahead, across the counter's wrap

vars == <<links, deadline, tick_count, current_slot, pc, left, wrapped>>

Slot == 0..(NumSlots - 1)
bucket(s) == <<s>>            \* the sentinel of buckets_[s]
pending == <<NumSlots>>       \* the sentinel of dispatch_bucket's local list
Hook == Node \cup {bucket(s) : s \in Slot} \cup {pending}

\* The values of the variables.
TypeOK ==
    /\ links \in [next : [Hook -> Hook], prev : [Hook -> Hook]]
    /\ deadline \in [Node -> 0..(Word - 1)]
    /\ tick_count \in 0..(Word - 1) /\ current_slot \in Slot
    /\ pc \in {"idle", "dispatch", "callback", "requeue"}
    /\ left \in [Node -> 0..MaxDelay] /\ wrapped \in [Node -> BOOLEAN]
-----------------------------------------------------------------------------
(***************************************************************************)
(* intrusive_list_hook and intrusive_list_head                             *)
(***************************************************************************)

\* is_linked()
is_linked(l, h) == l.next[h] # h

\* insert_after(pos, node): the assignments in the order of the code.
insert_after(l, pos, n) ==
    [next |-> [l.next EXCEPT ![n] = l.next[pos], ![pos] = n],
     prev |-> [[l.prev EXCEPT ![n] = pos] EXCEPT ![l.next[pos]] = n]]

\* push_back(node)
push_back(l, list, n) == insert_after(l, l.prev[list], n)

\* Mutant: only the forward chain is repaired.
erase_OneWay(l, n) ==
    IF ~is_linked(l, n) THEN l
    ELSE [next |-> [[l.next EXCEPT ![l.prev[n]] = l.next[n]] EXCEPT ![n] = n],
          prev |-> [l.prev EXCEPT ![n] = n]]

\* erase(node): of whichever list the node is linked in.
erase(l, n) ==
    IF ~is_linked(l, n) THEN l
    ELSE [next |-> [[l.next EXCEPT ![l.prev[n]] = l.next[n]] EXCEPT ![n] = n],
          prev |-> [[l.prev EXCEPT ![l.next[n]] = l.prev[n]] EXCEPT ![n] = n]]
-----------------------------------------------------------------------------
(***************************************************************************)
(* The client's calls: between ticks, or from a callback                   *)
(***************************************************************************)

\* A wheel whose init() has run, and nodes that no list holds.
Init ==
    /\ links = [next |-> [h \in Hook |-> h], prev |-> [h \in Hook |-> h]]
    /\ deadline = [n \in Node |-> 0]
    /\ tick_count = 0 /\ current_slot = 0 /\ pc = "idle"
    /\ left = [n \in Node |-> 0] /\ wrapped = [n \in Node |-> FALSE]

ClientRuns == pc \in {"idle", "callback"}

\* The end of schedule(): the deadline, and the node into buckets_[s].
Arm(n, d, s) ==
    /\ deadline' = [deadline EXCEPT ![n] = (tick_count + d) % Word]
    /\ links' = push_back(links, bucket(s), n)
    /\ wrapped' = [wrapped EXCEPT ![n] = tick_count + d >= Word /\ d >= NumSlots]
    /\ left' = [left EXCEPT ![n] = d]
    /\ UNCHANGED <<tick_count, current_slot, pc>>

\* schedule(node, d); a linked node, or a zero delay, is refused.
Schedule(n, d) ==
    /\ ClientRuns /\ ~is_linked(links, n)
    /\ Arm(n, d, ((tick_count + d) % Word) % NumSlots)

\* cancel(node): the first bucket's erase unlinks it, the others find it unlinked.
Cancel(n) ==
    /\ ClientRuns /\ is_linked(links, n)
    /\ links' = erase(links, n)
    /\ deadline' = [deadline EXCEPT ![n] = 0]
    /\ left' = [left EXCEPT ![n] = 0] /\ wrapped' = [wrapped EXCEPT ![n] = FALSE]
    /\ UNCHANGED <<tick_count, current_slot, pc>>
-----------------------------------------------------------------------------
(***************************************************************************)
(* tick()                                                                  *)
(***************************************************************************)

\* One step of tick(): the counter and the slot advance, the bucket is entered.
Tick ==
    /\ pc = "idle" /\ pc' = "dispatch"
    /\ tick_count' = (tick_count + 1) % Word
    /\ current_slot' = (current_slot + 1) % NumSlots
    /\ left' = [n \in Node |-> IF left[n] > 0 THEN left[n] - 1 ELSE 0]
    /\ UNCHANGED <<links, deadline, wrapped>>

InDispatch(n) ==
    /\ pc = "dispatch"
    /\ is_linked(links, bucket(current_slot)) /\ n = links.next[bucket(current_slot)]

\* Mutant: a node fires in the round before its own.
Fire_RoundEarly(n) ==
    /\ InDispatch(n) /\ deadline[n] <= tick_count + NumSlots
    /\ links' = erase(links, n) /\ pc' = "callback"
    /\ left' = [left EXCEPT ![n] = 0] /\ wrapped' = [wrapped EXCEPT ![n] = FALSE]
    /\ UNCHANGED <<deadline, tick_count, current_slot>>

\* The front node is unlinked and its callback is entered.
Fire(n) ==
    /\ InDispatch(n) /\ deadline[n] <= tick_count
    /\ links' = erase(links, n) /\ pc' = "callback"
    /\ left' = [left EXCEPT ![n] = 0] /\ wrapped' = [wrapped EXCEPT ![n] = FALSE]
    /\ UNCHANGED <<deadline, tick_count, current_slot>>

\* Mutant: the node is put back into the bucket being walked.
Defer_InPlace(n) ==
    /\ InDispatch(n) /\ deadline[n] > tick_count
    /\ links' = push_back(erase(links, n), bucket(current_slot), n)
    /\ UNCHANGED <<deadline, tick_count, current_slot, pc, left, wrapped>>

\* The front node is of a later round: it waits on the local list.
Defer(n) ==
    /\ InDispatch(n) /\ deadline[n] > tick_count
    /\ links' = push_back(erase(links, n), pending, n)
    /\ UNCHANGED <<deadline, tick_count, current_slot, pc, left, wrapped>>

\* The callback returns to the loop.
CallbackReturns ==
    /\ pc = "callback" /\ pc' = "dispatch"
    /\ UNCHANGED <<links, deadline, tick_count, current_slot, left, wrapped>>

\* The bucket is empty.
BucketDone ==
    /\ pc = "dispatch" /\ ~is_linked(links, bucket(current_slot)) /\ pc' = "requeue"
    /\ UNCHANGED <<links, deadline, tick_count, current_slot, left, wrapped>>

\* The second loop: the deferred nodes return to the bucket, in their order.
Requeue ==
    /\ pc = "requeue" /\ is_linked(links, pending)
    /\ LET n == links.next[pending] IN
       links' = push_back(erase(links, n), bucket(current_slot), n)
    /\ UNCHANGED <<deadline, tick_count, current_slot, pc, left, wrapped>>

\* dispatch_bucket and the step end.
TickReturns ==
    /\ pc = "requeue" /\ ~is_linked(links, pending) /\ pc' = "idle"
    /\ UNCHANGED <<links, deadline, tick_count, current_slot, left, wrapped>>
-----------------------------------------------------------------------------
TickStep == \/ \E n \in Node : Fire(n) \/ Defer(n)
            \/ CallbackReturns \/ BucketDone \/ Requeue \/ TickReturns

Next == \/ \E n \in Node : Cancel(n) \/ \E d \in 1..MaxDelay : Schedule(n, d)
        \/ Tick \/ TickStep

Spec == Init /\ [][Next]_vars

\* A call of tick() runs: its own steps are taken and the callbacks return.
FairSpec == Spec /\ WF_vars(TickStep /\ pc # "callback") /\ WF_vars(CallbackReturns)
-----------------------------------------------------------------------------
\* The first Cardinality(Node) + 1 hooks from list on.
Walk(list) ==
    LET hop[k \in 0..Cardinality(Node)] == IF k = 0 THEN list ELSE links.next[hop[k - 1]]
    IN {hop[k] : k \in 0..Cardinality(Node)}

\* Whatever callbacks schedule and cancel in the middle of a dispatch, both chains
\* agree at every hook, and a linked node is in the bucket of its deadline or, while
\* that bucket is dispatched, on the local list, which tick() leaves empty; and no
\* timer is missed: when tick() has returned, a scheduled node has ticks to go.
ListsSound ==
    /\ \A h \in Hook : links.prev[links.next[h]] = h /\ links.next[links.prev[h]] = h
    /\ \A n \in Node : is_linked(links, n) =>
         LET s == deadline[n] % NumSlots IN
         \/ n \in Walk(bucket(s))
         \/ s = current_slot /\ pc # "idle" /\ n \in Walk(pending)
    /\ \A n \in Node : pc = "idle" /\ is_linked(links, n) => left[n] > 0

Fires(n) == pc = "dispatch" /\ pc' = "callback" /\ n = links.next[bucket(current_slot)]

\* A callback runs in the very tick its delay named, also after any number of wraps
\* of the counter, unless it was scheduled a round or more ahead, across the wrap.
FiresOnTime ==
    [][\A n \in Node : Fires(n) => left[n] = 0 \/ wrapped[n]]_vars

\* tick() returns although callbacks reschedule into the bucket being dispatched,
\* unless one is a round or more ahead, across the wrap.
TickEnds == pc # "idle" ~> pc = "idle" \/ \E n \in Node : wrapped[n]
=============================================================================
