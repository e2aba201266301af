----------------------------- MODULE EventQueue -----------------------------
(***************************************************************************)
(* The outbound event queue: pending_events in the local cache             *)
(* (services/local_cache.py) and flush_events of the sync client           *)
(* (services/sync_client.py): list a batch, POST it, delete what was       *)
(* acknowledged.  Events are queued at any moment; the reply to a POST may *)
(* be lost, and the service may crash between any two steps.               *)
(***************************************************************************)
EXTENDS Naturals, FiniteSets

CONSTANTS
    BatchSize,   \* 50 in the code
    MaxEvents,   \* bound: events ever queued
    MaxFaults    \* bound: lost replies and crashes

ASSUME BatchAssumption == BatchSize \in Nat \ {0}
ASSUME BoundAssumption == MaxEvents \in Nat /\ MaxFaults \in Nat

VARIABLES
    nextId,     \* the AUTOINCREMENT id the next event gets
    pending,    \* ids in pending_events
    batch,      \* ids of the batch in flight
    pc,         \* where flush_events stands
    received,   \* backend: how often it received each event
    faults      \* lost replies and crashes so far

vars == <<nextId, pending, batch, pc, received, faults>>

Id == 1..MaxEvents

TypeOK ==
    /\ nextId \in 1..(MaxEvents + 1)
    /\ pending \subseteq 1..(nextId - 1)
    /\ batch \subseteq Id
    /\ pc \in {"idle", "posting", "accepted"}
    /\ received \in [Id -> Nat]
    /\ faults \in Nat

Init ==
    /\ nextId = 1 /\ pending = {} /\ batch = {} /\ pc = "idle"
    /\ received = [e \in Id |-> 0] /\ faults = 0

Got == {e \in Id : received[e] > 0}

QueueEvent_SameId ==
    /\ nextId <= MaxEvents
    /\ pending' = pending \cup {nextId}
    /\ UNCHANGED <<nextId, batch, pc, received, faults>>

(* queue_event                                                             *)
QueueEvent ==
    /\ nextId <= MaxEvents
    /\ pending' = pending \cup {nextId}
    /\ nextId' = nextId + 1
    /\ UNCHANGED <<batch, pc, received, faults>>

Batches_Any == {B \in SUBSET pending : Cardinality(B) <= BatchSize}

(* list_pending_events: ORDER BY id LIMIT BatchSize.                       *)
Batches ==
    {B \in SUBSET pending :
        /\ Cardinality(B) <= BatchSize
        /\ \A i \in pending, j \in B : i < j => i \in B
        /\ Cardinality(B) < BatchSize => B = pending}

(* With an empty queue flush_events returns at once.                       *)
ListBatch ==
    /\ pc = "idle"
    /\ \E B \in Batches : B # {} /\ batch' = B
    /\ pc' = "posting"
    /\ UNCHANGED <<nextId, pending, received, faults>>

Handed == [e \in Id |-> IF e \in batch THEN received[e] + 1 ELSE received[e]]

(* The backend takes the batch and its reply arrives.                      *)
PostAccepted ==
    /\ pc = "posting"
    /\ received' = Handed
    /\ pc' = "accepted"
    /\ UNCHANGED <<nextId, pending, batch, faults>>

(* The backend takes the batch, the reply does not arrive (RequestException). *)
PostReplyLost ==
    /\ pc = "posting"
    /\ faults < MaxFaults
    /\ received' = Handed
    /\ faults' = faults + 1
    /\ pc' = "idle" /\ batch' = {}
    /\ UNCHANGED <<nextId, pending>>

AfterRefusal_Delete == "accepted"

AfterRefusal == "idle"

(* No connection, or a status of 400 and above: everything stays queued.   *)
PostRefused ==
    /\ pc = "posting"
    /\ pc' = AfterRefusal
    /\ batch' = IF AfterRefusal = "idle" THEN {} ELSE batch
    /\ UNCHANGED <<nextId, pending, received, faults>>

Remaining_Kept == pending

Remaining == pending \ batch

(* delete_pending_events, by id: what was queued since stays.              *)
DeleteBatch ==
    /\ pc = "accepted"
    /\ pending' = Remaining
    /\ pc' = "idle" /\ batch' = {}
    /\ UNCHANGED <<nextId, received, faults>>

Crash ==
    /\ pc # "idle"
    /\ faults < MaxFaults
    /\ faults' = faults + 1
    /\ pc' = "idle" /\ batch' = {}
    /\ UNCHANGED <<nextId, pending, received>>

Flush == ListBatch \/ PostAccepted \/ PostReplyLost \/ PostRefused \/ DeleteBatch

Next == QueueEvent \/ Flush \/ Crash

Spec == Init /\ [][Next]_vars

(* The tick comes round for ever and the backend accepts now and then.     *)
FairSpec == Spec /\ WF_vars(Flush) /\ SF_vars(PostAccepted)

-----------------------------------------------------------------------------
(* No event is lost: it is queued until the backend has it, crashes, lost  *)
(* replies and events queued during a POST included.                       *)
NothingLost == 1..(nextId - 1) = pending \cup Got

(* An event is received a second time only for a lost reply or a crash:    *)
(* without a fault delivery is exactly once.                               *)
DuplicatesNeedFaults == \A e \in Id : received[e] <= 1 + faults

(* The queue delivers at least once and in order.                          *)
Delivery == INSTANCE EventDelivery WITH last <- nextId - 1, delivered <- Got
DeliverySpec == Delivery!Spec
=============================================================================
