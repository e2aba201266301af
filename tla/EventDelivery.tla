---------------------------- MODULE EventDelivery ----------------------------
(* What the outbound event queue of the kiosk promises: events queued on   *)
(* the kiosk reach the backend, each at least once, the first time in the  *)
(* order in which they were queued, and none before it was queued.         *)
EXTENDS Naturals

VARIABLES
    last,       \* number of events queued so far; their ids are 1..last
    delivered   \* ids the backend has received at least once

Init == last = 0 /\ delivered = {}

Enqueue == last' = last + 1 /\ UNCHANGED delivered

Deliver ==
    /\ \E D \in SUBSET (1..last) :
          delivered \subseteq D /\ delivered # D /\ delivered' = D
    /\ \A i \in delivered' : \A j \in 1..last : j < i => j \in delivered'
    /\ UNCHANGED last

Next == Enqueue \/ Deliver

Spec == Init /\ [][Next]_<<last, delivered>> /\ WF_<<last, delivered>>(Deliver)
=============================================================================
