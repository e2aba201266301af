--------------------------- MODULE IncidentPoller ---------------------------
(***************************************************************************)
(* services/incident_poller.py: one thread polls the cloud for the active  *)
(* incident of this kiosk and caches it for the page, the power scheduler  *)
(* and the per-output renderer.  A request takes time: the cloud answers   *)
(* with what is true at one moment, the kiosk acts on it at a later one.   *)
(* The timeout of a request bounds the connection and each gap between two *)
(* parts of the answer, not their sum: a request may outlast it.  Time is  *)
(* counted in seconds; ages saturate.                                      *)
(***************************************************************************)
EXTENDS Naturals

CONSTANTS
    Interval,   \* POLL_INTERVAL_SEC
    Timeout,    \* REQUEST_TIMEOUT_SEC
    Grace,      \* STALE_ACTIVE_GRACE_SEC
    MaxFlips, MaxRestarts, MaxEnrols, MaxExcess   \* bounds

ASSUME TimeAssumption ==
    Interval \in Nat \ {0} /\ Timeout \in Nat \ {0} /\ Grace \in Nat \ {0}
ASSUME PollerBoundAssumption ==
    MaxFlips \in Nat /\ MaxRestarts \in Nat /\ MaxEnrols \in Nat /\ MaxExcess \in Nat

VARIABLES
    truth,      \* is an incident active at the cloud?
    enrolled,   \* backend and license token configured
    cached,     \* _state: is it active?
    age,        \* of _last_active_at
    pc, left,   \* the thread: what it does and until when, a request at the first timeout
    reply,      \* the answer on its way
    since,      \* observer: seconds since the truth changed
    excess,     \* observer: the part of it that no poll within its timeout explains
    clean,      \* observer: no failed poll, restart or gap in enrolment since
    steady,     \* observer: active without a break since it was confirmed
    seen,       \* observer: seconds since it was confirmed
    flips, restarts, enrols   \* bounds

counters == <<flips, restarts, enrols>>
pollerVars == <<truth, enrolled, cached, age, pc, left, reply, since, excess, clean, steady, seen, counters>>

(* How late a confirmation can be, and how long polls can be apart.        *)
PollGap == Interval + Timeout
ClearBound == Timeout + Grace + PollGap
ShowBound == Timeout + PollGap
Horizon == ClearBound + MaxExcess

PollerTypeOK ==
    /\ truth \in BOOLEAN /\ enrolled \in BOOLEAN /\ cached \in BOOLEAN
    /\ age \in 0..Grace /\ seen \in 0..Grace
    /\ pc \in {"sleep", "ask", "receive"}
    /\ left \in 0..(Interval + Timeout) /\ reply \in BOOLEAN
    /\ since \in 0..(Horizon + 1) /\ excess \in 0..MaxExcess /\ clean \in BOOLEAN /\ steady \in BOOLEAN
    /\ flips \in 0..MaxFlips /\ restarts \in 0..MaxRestarts /\ enrols \in 0..MaxEnrols

PollerInit ==
    /\ truth \in BOOLEAN /\ enrolled \in BOOLEAN
    /\ cached = FALSE /\ age = Grace /\ seen = Grace
    /\ pc = "sleep" /\ left = 0 /\ reply = FALSE
    /\ since = 0 /\ excess = 0 /\ clean = enrolled /\ steady = FALSE
    /\ flips = 0 /\ restarts = 0 /\ enrols = 0

-----------------------------------------------------------------------------
(* poll_once *)

Sleep == pc' = "sleep" /\ left' = Interval

NotEnrolled ==
    /\ pc = "sleep" /\ left = 0 /\ ~enrolled
    /\ cached' = FALSE
    /\ Sleep
    /\ UNCHANGED <<truth, enrolled, age, reply, since, excess, clean, steady, seen, counters>>

Ask_Slow ==
    /\ pc = "sleep" /\ left = 0 /\ enrolled
    /\ pc' = "ask" /\ left' = Interval + Timeout
    /\ UNCHANGED <<truth, enrolled, cached, age, reply, since, excess, clean, steady, seen, counters>>

Ask ==
    /\ pc = "sleep" /\ left = 0 /\ enrolled
    /\ pc' = "ask" /\ left' = Timeout
    /\ UNCHANGED <<truth, enrolled, cached, age, reply, since, excess, clean, steady, seen, counters>>

Answer ==
    /\ pc = "ask"
    /\ pc' = "receive" /\ reply' = truth
    /\ UNCHANGED <<truth, enrolled, cached, age, left, since, excess, clean, steady, seen, counters>>

ConfirmedAge == 0

ReceiveActive ==
    /\ pc = "receive" /\ reply
    /\ cached' = TRUE /\ age' = ConfirmedAge
    /\ steady' = (truth /\ enrolled) /\ seen' = 0
    /\ Sleep
    /\ UNCHANGED <<truth, enrolled, reply, since, excess, clean, counters>>

ReceiveInactive ==
    /\ pc = "receive" /\ ~reply
    /\ cached' = FALSE
    /\ Sleep
    /\ UNCHANGED <<truth, enrolled, age, reply, since, excess, clean, steady, seen, counters>>

KeepActive_Never == FALSE

KeepActive_Always == cached

KeepActive == cached /\ age < Grace

(* A network error, a timeout, a status other than 200 or a bad body.      *)
FailClosed ==
    /\ pc \in {"ask", "receive"}
    /\ cached' = KeepActive
    /\ clean' = FALSE
    /\ Sleep
    /\ UNCHANGED <<truth, enrolled, age, reply, since, excess, steady, seen, counters>>

(* Any other exception, as from reading the configuration: the loop goes   *)
(* on, the cache keeps what it has.                                        *)
PollRaises ==
    /\ pc = "sleep" => left = 0
    /\ excess + PollGap <= MaxExcess
    /\ excess' = excess + PollGap
    /\ clean' = FALSE
    /\ Sleep
    /\ UNCHANGED <<truth, enrolled, cached, age, reply, since, steady, seen, counters>>

Poll ==
    NotEnrolled \/ Ask \/ Answer \/ ReceiveActive \/ ReceiveInactive \/ FailClosed \/ PollRaises

-----------------------------------------------------------------------------
Older(a) == IF a < Grace THEN a + 1 ELSE a

Passes ==
    /\ age' = Older(age) /\ seen' = Older(seen)
    /\ since' = IF since <= Horizon THEN since + 1 ELSE since
    /\ UNCHANGED <<truth, enrolled, cached, pc, reply, clean, steady, counters>>

Second ==
    /\ left > 0
    /\ left' = left - 1
    /\ Passes
    /\ UNCHANGED excess

(* A request outlasts the timeout: the lookup of the name, a second        *)
(* address, an answer that comes in parts.                                 *)
Overtime ==
    /\ pc # "sleep" /\ left = 0 /\ excess < MaxExcess
    /\ excess' = excess + 1
    /\ Passes
    /\ UNCHANGED left

(* An incident is declared or cleared.                                     *)
Flip ==
    /\ flips < MaxFlips /\ flips' = flips + 1
    /\ truth' = ~truth /\ steady' = FALSE
    /\ since' = 0 /\ excess' = 0 /\ clean' = enrolled
    /\ UNCHANGED <<enrolled, cached, age, pc, left, reply, seen, restarts, enrols>>

(* The admin server restarts; the thread begins with a poll.               *)
Restart ==
    /\ restarts < MaxRestarts /\ restarts' = restarts + 1
    /\ cached' = FALSE /\ age' = Grace
    /\ pc' = "sleep" /\ left' = 0 /\ reply' = FALSE
    /\ clean' = FALSE /\ steady' = FALSE
    /\ UNCHANGED <<truth, enrolled, since, excess, seen, flips, enrols>>

(* The wizard enrols the kiosk, a factory reset removes token and backend. *)
Enrol ==
    /\ enrols < MaxEnrols /\ enrols' = enrols + 1
    /\ enrolled' = ~enrolled
    /\ clean' = FALSE /\ steady' = FALSE
    /\ UNCHANGED <<truth, cached, age, pc, left, reply, since, excess, seen, flips, restarts>>

PollerNext == Poll \/ Second \/ Overtime \/ Flip \/ Restart \/ Enrol

PollerSpec == PollerInit /\ [][PollerNext]_pollerVars

-----------------------------------------------------------------------------
(* "a transient blip doesn't yank a live incident off the wall": while an  *)
(* incident goes on without a break since it was last confirmed, failed    *)
(* polls do not hide it before the grace is over.                          *)
KeepsThroughBlip == steady /\ seen < Grace => cached

(* "a real outage can't pin a stale active on the display forever": an     *)
(* incident is gone from the cache within the time its confirmation can be *)
(* late, the grace, and a poll, whatever fails meanwhile.  The time goes   *)
(* up by the seconds that requests outlast their timeout, and by one poll  *)
(* for each that raises.                                                   *)
ClearedInTime == cached /\ ~truth => since <= ClearBound + excess

(* An incident is cached within the rest of a poll under way and one more  *)
(* poll, if no poll fails or raises, plus the seconds that their requests  *)
(* outlast the timeout.                                                    *)
ShownInTime == truth /\ clean /\ ~cached => since <= ShowBound + excess
=============================================================================
