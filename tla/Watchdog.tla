------------------------------ MODULE Watchdog ------------------------------
(***************************************************************************)
(* services/watchdog.py: every INTERVAL_SEC it probes the session, the     *)
(* local server and the freshness of the page, and escalates from a soft   *)
(* heal (restart greetd) to a reboot, at most one per cooldown.  Time is   *)
(* counted in watchdog intervals; clocks saturate at the value the code    *)
(* compares them with.  Around it: the graphical session, its owner        *)
(* (greetd before /etc/bluebird/configured exists, bluebird-kiosk.service  *)
(* from the next boot on), the local server with its page-activity clock,  *)
(* and the power scheduler, whose requests reset that clock as well.       *)
(***************************************************************************)
EXTENDS Naturals

CONSTANTS
    FailThreshold, RecoveringProbes, Cooldown, BootGrace, PageStale,
    PowerTimer,      \* is bluebird-power-scheduler.timer enabled?
    PowerEvery,      \* ... its period
    MaxFaults        \* bound

ASSUME KnobAssumption ==
    /\ FailThreshold \in Nat \ {0} /\ RecoveringProbes \in Nat \ {0}
    /\ Cooldown \in Nat \ {0} /\ BootGrace \in Nat /\ PageStale \in Nat \ {0}
ASSUME EnvAssumption ==
    /\ PowerTimer \in BOOLEAN /\ PowerEvery \in Nat \ {0} /\ MaxFaults \in Nat

VARIABLES
    state, streak, probes,   \* the locals of main()
    recorded,    \* age of the reboot recorded in watchdog-last-reboot
    uptime,      \* of this boot
    configured,  \* /etc/bluebird/configured exists
    owner,       \* which unit runs the session of this boot
    session,     \* sway, Chromium and the page they show
    server,      \* bluebird-admin
    idle,        \* app.state.last_page_activity, as an age
    phase,       \* intervals until the power scheduler runs again
    bad,         \* observer: failed polls in a row in this boot
    rested,      \* observer: intervals since the watchdog last rebooted
    written,     \* observer: could it record that reboot? ("yes", "no")
    faults       \* bound

daemon == <<state, streak, probes>>
stack == <<configured, owner, session, server>>
clocks == <<recorded, uptime, idle, phase, rested>>
vars == <<daemon, stack, clocks, written, bad, faults>>

(* Longest run of failed polls the escalation asks for, and the uptime     *)
(* before which it cannot reach the reboot.                                *)
FullEscalation == FailThreshold + RecoveringProbes
EarliestReboot == BootGrace + RecoveringProbes

TypeOK ==
    /\ state \in {"alive", "recovering"}
    /\ streak \in 0..FailThreshold /\ probes \in 0..RecoveringProbes
    /\ recorded \in 0..Cooldown /\ rested \in 0..Cooldown /\ written \in {"yes", "no"}
    /\ uptime \in 0..EarliestReboot
    /\ configured \in BOOLEAN /\ owner \in {"greetd", "kiosk"}
    /\ session \in {"starting", "up", "wedged", "dead"}
    /\ server \in {"starting", "up", "down"}
    /\ idle \in 0..PageStale /\ phase \in 0..PowerEvery
    /\ bad \in 0..FullEscalation /\ faults \in 0..MaxFaults

AtMost(n, limit) == IF n < limit THEN n ELSE limit

Init ==
    /\ state = "alive" /\ streak = 0 /\ probes = 0
    /\ recorded = Cooldown /\ rested = Cooldown /\ written = "yes"
    /\ uptime = 0 /\ idle = 0 /\ phase = 0
    /\ configured \in BOOLEAN
    /\ owner = IF configured THEN "kiosk" ELSE "greetd"
    /\ session = "starting" /\ server = "starting"
    /\ bad = 0 /\ faults = 0

Broken == session = "dead" \/ server = "down"

-----------------------------------------------------------------------------
(* What one interval of sleep adds to the clocks.                          *)
UptimeNow == AtMost(uptime + 1, EarliestReboot)
RecordedNow == AtMost(recorded + 1, Cooldown)
RestedNow == AtMost(rested + 1, Cooldown)

(* _track_page_activity counts every request but /_health: those of the    *)
(* page, and the power scheduler's GET of the active incident.             *)
Requested ==
    server = "up" /\ (session = "up" \/ (PowerTimer /\ phase = 0))
IdleNow == IF Requested THEN 0 ELSE AtMost(idle + 1, PageStale)

PageFresh == IdleNow < PageStale

AllPass_NoPage == session \in {"up", "wedged"} /\ server = "up"

(* _run_checks: the four critical checks.                                  *)
AllPass == session \in {"up", "wedged"} /\ server = "up" /\ PageFresh

Observing_NoGrace == ~configured

Observing == UptimeNow < BootGrace \/ ~configured

RebootAllowed_Always == TRUE

RebootAllowed == RecordedNow >= Cooldown

(* The clocks after a poll that does not reboot.                           *)
Elapse ==
    /\ uptime' = UptimeNow /\ idle' = IdleNow
    /\ recorded' = RecordedNow /\ rested' = RestedNow
    /\ phase' = IF phase = 0 THEN PowerEvery - 1 ELSE phase - 1

BadNow == AtMost(bad + 1, FullEscalation)

Failing == ~AllPass /\ bad' = BadNow

Streak == AtMost(streak + 1, FailThreshold)

StreakAfterPass_Kept == streak

StreakAfterPass == 0

PollPass ==
    /\ AllPass /\ Elapse
    /\ state' = "alive" /\ streak' = StreakAfterPass /\ probes' = 0
    /\ bad' = 0
    /\ UNCHANGED <<stack, written, faults>>

(* Boot grace or not configured: observing only.                           *)
PollObserve ==
    /\ Failing /\ Elapse
    /\ Observing
    /\ streak' = Streak
    /\ UNCHANGED <<state, probes, stack, written, faults>>

(* Below the threshold: keep counting.                                     *)
PollCount ==
    /\ Failing /\ Elapse
    /\ ~Observing /\ state # "recovering"
    /\ ~(state = "alive" /\ Streak >= FailThreshold)
    /\ streak' = Streak
    /\ UNCHANGED <<state, probes, stack, written, faults>>

SoftHealState_Stays == "degraded"

SoftHealState == "recovering"

(* _restart_greetd: stopping greetd ends the session it owns; its start is *)
(* skipped by the condition of the drop-in once the marker exists.         *)
PollSoftHeal ==
    /\ Failing /\ Elapse
    /\ ~Observing /\ state = "alive" /\ Streak >= FailThreshold
    /\ state' = SoftHealState /\ probes' = RecoveringProbes /\ streak' = 0
    /\ session' = IF owner = "greetd" THEN "dead" ELSE session
    /\ UNCHANGED <<configured, owner, server, written, faults>>

(* The probes after the soft heal; at 0 the counter of the code runs on    *)
(* into the negative, which it treats alike.                               *)
ProbesLeft == IF probes = 0 THEN 0 ELSE probes - 1

Recovering == ~AllPass /\ ~Observing /\ state = "recovering"

PollRecover ==
    /\ Recovering /\ Failing /\ Elapse
    /\ ProbesLeft > 0
    /\ streak' = Streak /\ probes' = ProbesLeft
    /\ UNCHANGED <<state, stack, written, faults>>

PollBlocked ==
    /\ Recovering /\ Failing /\ Elapse
    /\ ProbesLeft = 0 /\ ~RebootAllowed
    /\ streak' = Streak /\ state' = "alive" /\ probes' = 0
    /\ UNCHANGED <<stack, written, faults>>

(* A boot: the daemon and the page clock start afresh, the session comes   *)
(* up under the unit whose condition holds.                                *)
Boot ==
    /\ uptime' = 0 /\ idle' = 0 /\ phase' = 0
    /\ state' = "alive" /\ streak' = 0 /\ probes' = 0 /\ bad' = 0
    /\ owner' = IF configured THEN "kiosk" ELSE "greetd"
    /\ session' = "starting" /\ server' = "starting"
    /\ UNCHANGED configured

(* _record_reboot swallows an OSError and the reboot goes on: the old      *)
(* record stays, or an empty file that reads as none.                      *)
Record ==
    \/ recorded' = 0 /\ written' = "yes"
    \/ recorded' \in {RecordedNow, Cooldown} /\ written' = "no"

PollReboot ==
    /\ Recovering
    /\ ProbesLeft = 0 /\ RebootAllowed
    /\ Record
    /\ rested' = 0
    /\ Boot
    /\ UNCHANGED faults

(* systemctl reboot fails: the daemon is still there for the next poll.    *)
PollRebootFails ==
    /\ faults < MaxFaults
    /\ Recovering /\ Failing
    /\ ProbesLeft = 0 /\ RebootAllowed
    /\ Record
    /\ rested' = RestedNow /\ uptime' = UptimeNow /\ idle' = IdleNow
    /\ phase' = IF phase = 0 THEN PowerEvery - 1 ELSE phase - 1
    /\ streak' = Streak /\ probes' = 0
    /\ faults' = faults + 1
    /\ UNCHANGED <<state, stack>>

(* A boot brings its units up within the grace ("30-60s on a fresh boot"); *)
(* a slower one counts as broken.                                          *)
StartedInTime ==
    UptimeNow < BootGrace \/ (session # "starting" /\ server # "starting")

Poll ==
    /\ StartedInTime
    /\ \/ PollPass \/ PollObserve \/ PollCount \/ PollSoftHeal
       \/ PollRecover \/ PollBlocked \/ PollReboot \/ PollRebootFails

-----------------------------------------------------------------------------
(* Around the watchdog.                                                    *)

SessionStarts ==
    /\ session = "starting"
    /\ session' = "up"
    /\ UNCHANGED <<daemon, configured, owner, server, clocks, written, bad, faults>>

ServerStarts ==
    /\ server = "starting"
    /\ server' = "up" /\ idle' = 0
    /\ UNCHANGED <<daemon, configured, owner, session, recorded, uptime, phase, rested, written, bad, faults>>

(* A fault: the session dies and does not come back, the page is stuck on  *)
(* an error page, or the local server hangs.                               *)
Breaks ==
    /\ faults < MaxFaults /\ faults' = faults + 1
    /\ \/ session \in {"starting", "up"} /\ session' \in {"dead", "wedged"} /\ UNCHANGED server
       \/ server = "up" /\ server' = "down" /\ UNCHANGED session
    /\ UNCHANGED <<daemon, configured, owner, clocks, written, bad>>

(* A fault that passes by itself (systemd's Restart=, the page's reload).  *)
Recovers ==
    /\ \/ session \in {"dead", "wedged"} /\ session' = "up" /\ UNCHANGED <<server, idle>>
       \/ server = "down" /\ server' = "up" /\ idle' = 0 /\ UNCHANGED session
    /\ UNCHANGED <<daemon, configured, owner, recorded, uptime, phase, rested, written, bad, faults>>

(* The watchdog itself is restarted (Restart=always).                      *)
DaemonRestarts ==
    /\ faults < MaxFaults /\ faults' = faults + 1
    /\ state' = "alive" /\ streak' = 0 /\ probes' = 0
    /\ UNCHANGED <<stack, clocks, written, bad>>

(* Someone else reboots: an update, the admin, the fleet console.          *)
OtherReboot ==
    /\ faults < MaxFaults /\ faults' = faults + 1
    /\ Boot
    /\ UNCHANGED <<recorded, rested, written>>

(* The firstboot wizard writes the marker; the session keeps its owner.    *)
Finalize ==
    /\ ~configured
    /\ configured' = TRUE
    /\ UNCHANGED <<daemon, owner, session, server, clocks, written, bad, faults>>

Next ==
    \/ Poll \/ SessionStarts \/ ServerStarts
    \/ Breaks \/ Recovers \/ DaemonRestarts \/ OtherReboot \/ Finalize

Spec == Init /\ [][Next]_vars

(* The daemon polls on (Restart=always) and a boot brings its units up.    *)
FairSpec ==
    Spec /\ WF_vars(Poll) /\ WF_vars(SessionStarts) /\ WF_vars(ServerStarts)

-----------------------------------------------------------------------------
(* "cap: at most 1 reboot per REBOOT_COOLDOWN_SEC": two reboots by the     *)
(* watchdog are a cooldown apart, over boots and restarts of the daemon,   *)
(* unless the first of them could not be recorded.                         *)
RebootCapped == [][PollReboot /\ written = "yes" => RestedNow >= Cooldown]_vars

(* A transient flake never reboots the kiosk: the poll that reboots is the *)
(* last of a full escalation of failed polls, with no pass in between.     *)
RebootIsSustained == [][PollReboot => BadNow >= FullEscalation]_vars

(* Every boot of a broken kiosk gets the grace and all the probes of the   *)
(* soft heal before the watchdog ends it, whatever counted before.         *)
BootGetsItsTime == [][PollReboot => UptimeNow >= EarliestReboot]_vars

(* A configured kiosk whose session died or whose server hangs is healed:  *)
(* no state of the daemon, its cooldown or its restarts leaves it broken.  *)
FailureHeals == (configured /\ Broken) ~> ~Broken

(* A page that stopped driving the local server is noticed and healed      *)
(* ("the signature of a wedged render", _run_checks).                      *)
WedgedPageHeals == (configured /\ session = "wedged") ~> (session # "wedged")
=============================================================================
