--------------------------- MODULE PowerScheduler ---------------------------
(***************************************************************************)
(* kiosk-power-scheduler, the oneshot that a timer starts every minute to  *)
(* switch the panel through sway: read the incident, the schedule and the  *)
(* touch-to-wake override, apply the verb unless the record of the last    *)
(* run says it is in force, write the record.  Around it: the gesture      *)
(* daemon's _wake_on_touch, sway sessions and boots, the local server.     *)
(* Time is counted in minutes; ages saturate at what the code compares.    *)
(***************************************************************************)
EXTENDS Naturals

CONSTANTS
    Reassert,        \* REASSERT_SECS
    WakeMinutes,     \* WAKE_SECONDS of the gesture daemon
    MaxChanges,      \* of the schedule's verdict, the incident, the server
    MaxTaps, MaxSessions, MaxBoots,
    MaxFails,        \* failing swaymsg calls
    MaxWriteFails,   \* failing writes of power_state.json
    MaxOutside       \* panel switched by something else

ASSUME PeriodAssumption == Reassert \in Nat \ {0} /\ WakeMinutes \in Nat \ {0}
ASSUME BoundAssumption ==
    /\ MaxChanges \in Nat /\ MaxTaps \in Nat /\ MaxSessions \in Nat \ {0} /\ MaxBoots \in Nat \ {0}
    /\ MaxFails \in Nat /\ MaxWriteFails \in Nat /\ MaxOutside \in Nat

VARIABLES
    sched,      \* what _desired_on makes of the cached schedule now
    incident,   \* what the loopback route would answer
    serving,    \* does the local server answer?
    sock,       \* socket path of the sway session of now, or of the next one
    up,         \* is that session up?
    boot,       \* boot_id
    panel,      \* DPMS state of the panel
    file,       \* power_state.json
    wake,       \* minutes left of wake_override.json
    run,        \* the scheduler run under way
    due,        \* has the timer elapsed?
    touch,      \* the gesture daemon inside _wake_on_touch
    waiting,    \* observer: minutes it has been dark though each of these wants it on
    changes, taps, fails, writeFails, outside   \* bounds

world == <<sched, incident, serving>>
screen == <<sock, up, boot, panel>>
counts == <<changes, taps, fails, writeFails, outside>>
vars == <<world, screen, file, wake, run, due, touch, waiting, counts>>

Verb(on) == IF on THEN "on" ELSE "off"
NoRecord == [dpms |-> "none"]
Record == [dpms : {"on", "off"}, sock : 1..MaxSessions, boot : 1..MaxBoots, age : 0..Reassert]
Reasons == {"", "incident", "wake_override", "schedule", "no_schedule"}
Result == Record \cup {NoRecord}

IdleRun == [pc |-> "idle"]
Deciding == {IdleRun, [pc |-> "schedule"], [pc |-> "wake"]}
Applying == [pc : {"apply"}, on : BOOLEAN, reason : Reasons]
Writing == [pc : {"write"}, on : BOOLEAN, reason : Reasons, applied : Result]

TypeOK ==
    /\ sched \in {"none", "on", "off"} /\ incident \in BOOLEAN /\ serving \in BOOLEAN
    /\ sock \in 1..MaxSessions /\ up \in BOOLEAN /\ boot \in 1..MaxBoots /\ panel \in {"on", "off"}
    /\ file \in [on : BOOLEAN, reason : Reasons, applied : Result]
    /\ wake \in 0..WakeMinutes
    /\ run \in Deciding \cup Applying \cup Writing
    /\ due \in BOOLEAN /\ touch \in {"idle", "kick"}
    /\ waiting \in [{"incident", "schedule", "tap"} -> Nat]
    /\ changes \in 0..MaxChanges /\ taps \in 0..MaxTaps /\ fails \in 0..MaxFails
    /\ writeFails \in 0..MaxWriteFails /\ outside \in 0..MaxOutside

Init ==
    /\ sched \in {"none", "on", "off"} /\ incident = FALSE /\ serving = TRUE
    /\ sock = 1 /\ up = TRUE /\ boot = 1 /\ panel = "on"
    /\ file = [on |-> TRUE, reason |-> "", applied |-> NoRecord]
    /\ wake = 0 /\ run = IdleRun /\ due = FALSE /\ touch = "idle"
    /\ waiting = [w \in {"incident", "schedule", "tap"} |-> 0]
    /\ changes = 0 /\ taps = 0 /\ fails = 0 /\ writeFails = 0 /\ outside = 0

-----------------------------------------------------------------------------
(* One run of main(), from a start by the timer or by the gesture daemon.  *)

Apply(on, reason) == [pc |-> "apply", on |-> on, reason |-> reason]

(* _emergency_active: any error counts as no emergency.                    *)
Emergency == incident /\ serving

Start ==
    /\ run = IdleRun
    /\ run' = IF Emergency THEN Apply(TRUE, "incident") ELSE [pc |-> "schedule"]
    /\ due' = FALSE

TimerStart ==
    /\ due
    /\ Start
    /\ UNCHANGED <<world, screen, file, wake, touch, counts>>

ReadSchedule ==
    /\ run.pc = "schedule"
    /\ run' = CASE sched = "none" -> Apply(TRUE, "no_schedule")
                [] sched = "on"   -> Apply(TRUE, "schedule")
                [] sched = "off"  -> [pc |-> "wake"]
    /\ UNCHANGED <<world, screen, file, wake, due, touch, counts>>

CheckWake ==
    /\ run.pc = "wake"
    /\ run' = IF wake > 0 THEN Apply(TRUE, "wake_override") ELSE Apply(FALSE, "schedule")
    /\ UNCHANGED <<world, screen, file, wake, due, touch, counts>>

Recorded_NoVerb(verb) ==
    LET r == file.applied IN
    r # NoRecord /\ r.boot = boot /\ r.sock = sock /\ r.age < Reassert

Recorded_NoExpiry(verb) ==
    LET r == file.applied IN
    r # NoRecord /\ r.boot = boot /\ r.dpms = verb /\ r.sock = sock

(* _already_applied.                                                       *)
Recorded(verb) ==
    LET r == file.applied IN
    r # NoRecord /\ r.boot = boot /\ r.dpms = verb /\ r.sock = sock /\ r.age < Reassert

LeftBehind(verb) ==
    LET r == file.applied IN
    r # NoRecord /\ r.boot = boot /\ r.dpms = verb /\ r.sock < sock /\ r.age < Reassert

Ends(applied) ==
    run' = [pc |-> "write", on |-> run.on, reason |-> run.reason, applied |-> applied]

Skip ==
    /\ run.pc = "apply" /\ up
    /\ Recorded(Verb(run.on))
    /\ Ends(file.applied)
    /\ UNCHANGED <<world, screen, file, wake, due, touch, counts>>

SendDpms ==
    /\ run.pc = "apply" /\ up
    /\ ~Recorded(Verb(run.on))
    /\ panel' = Verb(run.on)
    /\ Ends([dpms |-> Verb(run.on), sock |-> sock, boot |-> boot, age |-> 0])
    /\ UNCHANGED <<world, sock, up, boot, file, wake, due, touch, counts>>

(* No session to talk to: no socket, or one that a dead session left       *)
(* behind, whose record may still match.                                   *)
NoSession ==
    /\ run.pc = "apply" /\ ~up
    /\ \/ Ends(NoRecord)
       \/ LeftBehind(Verb(run.on)) /\ Ends(file.applied)
    /\ UNCHANGED <<world, screen, file, wake, due, touch, counts>>

FailedRecord_Previous == file.applied

FailedRecord == NoRecord

(* sudo or swaymsg fails, or times out after sway got the command.         *)
SendFails ==
    /\ fails < MaxFails
    /\ run.pc = "apply" /\ up
    /\ ~Recorded(Verb(run.on))
    /\ panel' \in {panel, Verb(run.on)}
    /\ Ends(FailedRecord)
    /\ fails' = fails + 1
    /\ UNCHANGED <<world, sock, up, boot, file, wake, due, touch, changes, taps, writeFails, outside>>

WriteState ==
    /\ run.pc = "write"
    /\ file' = [on |-> run.on, reason |-> run.reason, applied |-> run.applied]
    /\ run' = IdleRun
    /\ UNCHANGED <<world, screen, wake, due, touch, counts>>

(* _write_state swallows an OSError: the previous record stays.            *)
WriteFails ==
    /\ writeFails < MaxWriteFails
    /\ run.pc = "write"
    /\ run' = IdleRun
    /\ writeFails' = writeFails + 1
    /\ UNCHANGED <<world, screen, file, wake, due, touch, changes, taps, fails, outside>>

RunStep ==
    \/ TimerStart \/ ReadSchedule \/ CheckWake
    \/ Skip \/ SendDpms \/ NoSession \/ SendFails \/ WriteState \/ WriteFails

-----------------------------------------------------------------------------
(* _wake_on_touch: what the state file says decides whether a tap counts.  *)

Asleep == ~file.on /\ file.reason = "schedule"

Tap ==
    /\ touch = "idle" /\ taps < MaxTaps
    /\ taps' = taps + 1
    /\ IF Asleep \/ file.reason = "wake_override"
       THEN wake' = WakeMinutes /\ touch' = IF file.on THEN "idle" ELSE "kick"
       ELSE UNCHANGED <<wake, touch>>
    /\ UNCHANGED <<world, screen, file, run, due, changes, fails, writeFails, outside>>

(* systemctl start: joins a run that is under way.                         *)
Kick ==
    /\ touch = "kick"
    /\ touch' = "idle"
    /\ IF run = IdleRun THEN Start ELSE UNCHANGED <<run, due>>
    /\ UNCHANGED <<world, screen, file, wake, counts>>

-----------------------------------------------------------------------------
(* Time and the world.                                                     *)

Left_Kept(w) == w

Left(w) == IF w = 0 THEN 0 ELSE w - 1

Aged(r) ==
    IF r = NoRecord \/ r.age = Reassert THEN r ELSE [r EXCEPT !.age = @ + 1]

(* A minute: a run takes seconds, so the last one is over.                 *)
Minute ==
    /\ ~due /\ run = IdleRun /\ touch = "idle"
    /\ due' = TRUE
    /\ wake' = Left(wake)
    /\ file' = [file EXCEPT !.applied = Aged(@)]
    /\ UNCHANGED <<world, screen, run, touch, counts>>

Change ==
    /\ changes < MaxChanges /\ changes' = changes + 1
    /\ \/ sched' \in {"none", "on", "off"} \ {sched} /\ UNCHANGED <<incident, serving>>
       \/ incident' = ~incident /\ UNCHANGED <<sched, serving>>
       \/ serving' = ~serving /\ UNCHANGED <<sched, incident>>
    /\ UNCHANGED <<screen, file, wake, run, due, touch, taps, fails, writeFails, outside>>

(* sway ends; what replaces it has a new socket and a panel that is on.    *)
SessionEnds ==
    /\ up /\ sock < MaxSessions
    /\ sock' = sock + 1 /\ up' = FALSE /\ panel' = "on"
    /\ UNCHANGED <<world, boot, file, wake, run, due, touch, counts>>

SessionStarts ==
    /\ ~up
    /\ up' = TRUE
    /\ UNCHANGED <<world, sock, boot, panel, file, wake, run, due, touch, counts>>

(* A boot may hand out the same pid again, so the socket path is the same. *)
Reboot ==
    /\ boot < MaxBoots /\ boot' = boot + 1
    /\ sock' = 1 /\ up' = FALSE /\ panel' = "on"
    /\ run' = IdleRun /\ due' = FALSE /\ touch' = "idle"
    /\ UNCHANGED <<world, file, wake, counts>>

(* Something else switches the panel.                                      *)
Outside ==
    /\ outside < MaxOutside /\ outside' = outside + 1
    /\ up
    /\ panel' = IF panel = "on" THEN "off" ELSE "on"
    /\ UNCHANGED <<world, sock, up, boot, file, wake, run, due, touch, changes, taps, fails, writeFails>>

-----------------------------------------------------------------------------
Dark == up /\ panel = "off"
Wishes == {w \in {"incident", "schedule", "tap"} :
              \/ w = "incident" /\ Emergency
              \/ w = "schedule" /\ sched # "off"
              \/ w = "tap" /\ wake > 0}

Observe ==
    waiting' = [w \in DOMAIN waiting |->
                   IF ~(Dark /\ w \in Wishes)' THEN 0
                   ELSE IF due' /\ ~due THEN waiting[w] + 1 ELSE waiting[w]]

Step ==
    \/ RunStep \/ Tap \/ Kick \/ Minute
    \/ Change \/ SessionEnds \/ SessionStarts \/ Reboot \/ Outside

Next == Step /\ Observe

Spec == Init /\ [][Next]_vars

(* The timer fires, a run that was started ends, a kick is delivered.      *)
FairSpec ==
    Spec /\ WF_vars(RunStep /\ Observe) /\ WF_vars(Kick /\ Observe) /\ WF_vars(Minute /\ Observe)

-----------------------------------------------------------------------------
(* A panel that an incident, the schedule or a tap wants on is not dark    *)
(* for longer than the run of the next minute, plus one minute for each    *)
(* call that failed, in whatever order sessions, boots and taps come; as   *)
(* long as records get written and nothing else switches the panel.        *)
Undisturbed == writeFails = 0 /\ outside = 0
LitWithinMinute == Undisturbed => \A w \in DOMAIN waiting : waiting[w] <= 1 + fails

(* "if anything outside the scheduler blanked the panel, it is never more  *)
(* than this far from ON" (REASSERT_SECS), and no more if records of what  *)
(* was switched are lost.                                                  *)
LitWithinReassert == \A w \in DOMAIN waiting : waiting[w] <= Reassert + 1 + fails

(* The record the next run trusts is true: in the session and the boot it  *)
(* names, the panel is as it says, whatever came between call and record.  *)
RecordTruthful ==
    LET r == file.applied IN
    /\ Undisturbed /\ run = IdleRun /\ up
    /\ r # NoRecord /\ r.sock = sock /\ r.boot = boot
    => panel = r.dpms

(* Nothing keeps the panel awake for ever: while the schedule wants it off *)
(* and no incident is reported, it goes dark again.                        *)
PanelSleeps ==
    <>[](sched = "off" /\ ~incident) => []<>(panel = "off" \/ ~up)
=============================================================================
