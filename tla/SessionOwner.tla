---------------------------- MODULE SessionOwner ----------------------------
(***************************************************************************)
(* Which systemd unit drives the screen.  Two units can run the compositor *)
(* (sway): greetd while the box is not configured yet, and                 *)
(* bluebird-kiosk.service once the marker /etc/bluebird/configured exists. *)
(* Neither declares Conflicts= with the other: each has a condition on the *)
(* marker, which systemd evaluates only when the unit is STARTED.  The     *)
(* marker is written by the wizard and removed by a factory reset while a  *)
(* session is running; the fleet command "restart_kiosk", the installer,   *)
(* the watchdog, the gesture daemon and the admin page all restart units.  *)
(* Definitions with an underscore are mutants: mistakes in the code that   *)
(* the properties below must detect.                                       *)
(***************************************************************************)

VARIABLES
  marker,   \* /etc/bluebird/configured exists
  pin,      \* admin.pin exists
  changed,  \* observer: the marker was written or removed since this boot
  kiosk,    \* bluebird-kiosk.service: running, waiting RestartSec, or neither
  greetd,   \* greetd.service, with the session it keeps respawning
  wizard,   \* the session whose page reboots the box 3 s after finalize
  reset,    \* a factory reset: the marker unlinked, the PIN too, not yet rebooted
  cmd,      \* the fleet's restart_kiosk: its place and the two answers it got
  inst,     \* install.sh, run by an update: where it is
  fresh     \* observer: a compositor was started since the command began

vars == <<marker, pin, changed, kiosk, greetd, wizard, reset, cmd, inst, fresh>>

TypeOK ==
  /\ marker \in BOOLEAN /\ pin \in BOOLEAN /\ changed \in BOOLEAN /\ fresh \in BOOLEAN
  /\ kiosk \in {"up", "respawn", "down"}
  /\ greetd \in {"up", "down"}
  /\ wizard \in {"none", "kiosk", "greetd"}
  /\ reset \in {"none", "unlinked", "cleared"}
  /\ cmd \in [at : {"idle", "ask", "act", "kick", "fallback"},
              kiosk : BOOLEAN, greetd : BOOLEAN]
  /\ inst \in {"idle", "stop", "daemons", "gesture"}

Idle == [at |-> "idle", kiosk |-> FALSE, greetd |-> FALSE]

Lit == kiosk = "up" \/ greetd = "up"        \* some compositor is running
Both == kiosk = "up" /\ greetd = "up"       \* the dual-compositor fault

\* What a start job leaves of each unit: its ConditionPathExists decides, and a
\* unit skipped by its condition is a successful job.
KioskStarts == IF marker THEN "up" ELSE "down"

GreetdStarts_NoDropIn == "up"

GreetdStarts == IF marker THEN "down" ELSE "up"

\* A page lives in one session and is lost with it.
PageLost(unit) == IF wizard = unit THEN "none" ELSE wizard

RestartKiosk ==
  /\ kiosk' = KioskStarts
  /\ wizard' = PageLost("kiosk")
  /\ fresh' = (fresh \/ KioskStarts = "up")

RestartGreetd ==
  /\ greetd' = GreetdStarts
  /\ wizard' = PageLost("greetd")
  /\ fresh' = (fresh \/ GreetdStarts = "up")

StopGreetd ==
  /\ greetd' = "down"
  /\ wizard' = PageLost("greetd")

\* A start (not a restart) of the kiosk unit, pulled in by Wants=: no effect on
\* a running one.
WantKiosk ==
  IF kiosk = "up" THEN UNCHANGED <<kiosk, wizard, fresh>> ELSE RestartKiosk

-----------------------------------------------------------------------------
\* Boot: greetd is enabled and the kiosk unit is pulled in by the gesture
\* daemon's Wants=; every process starts over.
Boot_NoWants ==
  /\ kiosk' = "down" /\ greetd' = GreetdStarts
  /\ changed' = FALSE /\ wizard' = "none" /\ reset' = "none"
  /\ cmd' = Idle /\ inst' = "idle" /\ fresh' = TRUE
  /\ UNCHANGED <<marker, pin>>

Boot ==
  /\ kiosk' = KioskStarts /\ greetd' = GreetdStarts
  /\ changed' = FALSE /\ wizard' = "none" /\ reset' = "none"
  /\ cmd' = Idle /\ inst' = "idle" /\ fresh' = TRUE
  /\ UNCHANGED <<marker, pin>>

Init ==
  /\ marker \in BOOLEAN /\ pin = marker
  /\ kiosk = KioskStarts /\ greetd = GreetdStarts
  /\ changed = FALSE /\ wizard = "none" /\ reset = "none"
  /\ cmd = Idle /\ inst = "idle" /\ fresh = TRUE

\* A power cut, the fleet's reboot, or a reboot from the admin page.
Reboot == Boot

-----------------------------------------------------------------------------
\* The wizard's last step stores the PIN and writes the marker in the running
\* session; its page reboots the box three seconds later, unless a call fails
\* or the page dies.
Finalize ==
  /\ ~marker /\ Lit /\ reset = "none"
  /\ pin' = TRUE /\ marker' = TRUE /\ changed' = TRUE
  /\ \E unit \in {"kiosk", "greetd"} :
       /\ (unit = "kiosk" /\ kiosk = "up") \/ (unit = "greetd" /\ greetd = "up")
       /\ wizard' = unit
  /\ UNCHANGED <<kiosk, greetd, reset, cmd, inst, fresh>>

\* The server dies between the two.
FinalizeCut ==
  /\ ~marker /\ Lit /\ reset = "none"
  /\ pin' = TRUE
  /\ UNCHANGED <<marker, changed, kiosk, greetd, wizard, reset, cmd, inst, fresh>>

WizardReboot == wizard # "none" /\ reset = "none" /\ Boot

WizardGivesUp ==
  /\ wizard # "none"
  /\ wizard' = "none"
  /\ UNCHANGED <<marker, pin, changed, kiosk, greetd, reset, cmd, inst, fresh>>

\* A factory reset removes the marker first, then the PIN file and the license
\* fields of kiosk.conf, and reboots only if all of that worked.
Unlinking_PinFirst == [first |-> "pin", second |-> "marker"]

Unlinking == [first |-> "marker", second |-> "pin"]

Unlink(path) ==
  IF path = "marker"
  THEN marker' = FALSE /\ changed' = TRUE /\ UNCHANGED pin
  ELSE pin' = FALSE /\ UNCHANGED <<marker, changed>>

ResetUnlinks ==
  /\ marker /\ reset = "none"
  /\ Unlink(Unlinking.first) /\ reset' = "unlinked"
  /\ UNCHANGED <<kiosk, greetd, wizard, cmd, inst, fresh>>

ResetClears ==
  /\ reset = "unlinked"
  /\ Unlink(Unlinking.second) /\ reset' = "cleared"
  /\ UNCHANGED <<kiosk, greetd, wizard, cmd, inst, fresh>>

ResetFails ==
  /\ reset \in {"unlinked", "cleared"}
  /\ reset' = "none"
  /\ UNCHANGED <<marker, pin, changed, kiosk, greetd, wizard, cmd, inst, fresh>>

ResetReboots == reset = "cleared" /\ Boot

-----------------------------------------------------------------------------
\* The kiosk unit is Restart=always; its condition is evaluated again when the
\* two seconds of RestartSec are over.
KioskDies ==
  /\ kiosk = "up"
  /\ kiosk' = "respawn" /\ wizard' = PageLost("kiosk")
  /\ UNCHANGED <<marker, pin, changed, greetd, reset, cmd, inst, fresh>>

KioskRespawns ==
  /\ kiosk = "respawn"
  /\ RestartKiosk
  /\ UNCHANGED <<marker, pin, changed, greetd, reset, cmd, inst>>

\* When sway exits under greetd, greetd itself starts default_session again: no
\* unit is started and no condition is evaluated.
GreetdSwayDies ==
  /\ greetd = "up"
  /\ wizard' = PageLost("greetd") /\ fresh' = TRUE
  /\ UNCHANGED <<marker, pin, changed, kiosk, greetd, reset, cmd, inst>>

\* The gesture daemon dies and is restarted: its Wants= starts the kiosk unit.
GestureRestarts ==
  /\ WantKiosk
  /\ UNCHANGED <<marker, pin, changed, greetd, reset, cmd, inst>>

\* The admin page's restart button restarts the kiosk unit, whichever unit drives
\* the screen.  Its server handles one call at a time: not during a reset.
AdminRestarts ==
  /\ reset = "none"
  /\ RestartKiosk
  /\ UNCHANGED <<marker, pin, changed, greetd, reset, cmd, inst>>

-----------------------------------------------------------------------------
\* The fleet's restart_kiosk asks systemd about one unit, then about the other,
\* and then acts on the two answers.
CmdAsksKiosk ==
  /\ cmd.at = "idle"
  /\ cmd' = [Idle EXCEPT !.at = "ask", !.kiosk = (kiosk = "up")]
  /\ fresh' = FALSE
  /\ UNCHANGED <<marker, pin, changed, kiosk, greetd, wizard, reset, inst>>

CmdAsksGreetd ==
  /\ cmd.at = "ask"
  /\ cmd' = [cmd EXCEPT !.at = "act", !.greetd = (greetd = "up")]
  /\ UNCHANGED <<marker, pin, changed, kiosk, greetd, wizard, reset, inst, fresh>>

CmdDropsGreetd ==
  /\ cmd.at = "act" /\ cmd.kiosk /\ cmd.greetd
  /\ StopGreetd
  /\ cmd' = [cmd EXCEPT !.at = "kick"]
  /\ UNCHANGED <<marker, pin, changed, kiosk, reset, inst, fresh>>

\* The kiosk unit is restarted after greetd was dropped, when it alone answered
\* "active", and when neither did; a unit its condition skips counts as done.
CmdRestartsKiosk_GreetdFirst ==
  /\ cmd.at = "kick" \/ (cmd.at = "act" /\ ~cmd.greetd)
  /\ RestartGreetd
  /\ cmd' = Idle
  /\ UNCHANGED <<marker, pin, changed, kiosk, reset, inst>>

CmdRestartsKiosk ==
  /\ cmd.at = "kick" \/ (cmd.at = "act" /\ ~cmd.greetd)
  /\ RestartKiosk
  /\ cmd' = Idle
  /\ UNCHANGED <<marker, pin, changed, greetd, reset, inst>>

CmdRestartsGreetd ==
  /\ cmd.at = "act" /\ ~cmd.kiosk /\ cmd.greetd
  /\ RestartGreetd
  /\ cmd' = Idle
  /\ UNCHANGED <<marker, pin, changed, kiosk, reset, inst>>

\* The start fails (sway does not come up, systemctl times out): systemd will
\* retry the unit; only a command that found neither unit active tries greetd.
CmdKioskFails ==
  /\ cmd.at = "kick" \/ (cmd.at = "act" /\ ~cmd.greetd)
  /\ marker
  /\ kiosk' = "respawn" /\ wizard' = PageLost("kiosk")
  /\ cmd' = IF cmd.at = "act" /\ ~cmd.kiosk THEN [cmd EXCEPT !.at = "fallback"]
                                            ELSE Idle
  /\ UNCHANGED <<marker, pin, changed, greetd, reset, inst, fresh>>

CmdFallsBack ==
  /\ cmd.at = "fallback"
  /\ RestartGreetd
  /\ cmd' = Idle
  /\ UNCHANGED <<marker, pin, changed, kiosk, reset, inst>>

-----------------------------------------------------------------------------
\* install.sh heals a box that runs both, then restarts the daemons whose code
\* it replaced (a command or a reset they were executing is lost), the gesture
\* daemon last: its Wants= starts the kiosk unit after the check was made.
InstChecks ==
  /\ inst = "idle"
  /\ inst' = IF marker /\ Both THEN "stop" ELSE "daemons"
  /\ UNCHANGED <<marker, pin, changed, kiosk, greetd, wizard, reset, cmd, fresh>>

InstStopsGreetd ==
  /\ inst = "stop"
  /\ StopGreetd
  /\ inst' = "daemons"
  /\ UNCHANGED <<marker, pin, changed, kiosk, reset, cmd, fresh>>

InstRestartsDaemons ==
  /\ inst = "daemons"
  /\ cmd' = Idle /\ reset' = "none" /\ inst' = "gesture"
  /\ UNCHANGED <<marker, pin, changed, kiosk, greetd, wizard, fresh>>

InstRestartsGesture ==
  /\ inst = "gesture"
  /\ WantKiosk
  /\ inst' = "idle"
  /\ UNCHANGED <<marker, pin, changed, greetd, reset, cmd>>

-----------------------------------------------------------------------------
\* The watchdog acts on a configured box only (module Watchdog models when): the
\* soft heal restarts greetd whichever unit drives the screen; a box without a
\* compositor ends in a reboot.
WatchdogSoftHeal ==
  /\ marker
  /\ RestartGreetd
  /\ UNCHANGED <<marker, pin, changed, kiosk, reset, cmd, inst>>

WatchdogReboots == marker /\ ~Lit /\ Boot

Next ==
  \/ Reboot \/ Finalize \/ FinalizeCut \/ WizardReboot \/ WizardGivesUp
  \/ ResetUnlinks \/ ResetClears \/ ResetFails \/ ResetReboots
  \/ KioskDies \/ KioskRespawns \/ GreetdSwayDies \/ GestureRestarts \/ AdminRestarts
  \/ CmdAsksKiosk \/ CmdAsksGreetd \/ CmdDropsGreetd \/ CmdRestartsKiosk
  \/ CmdRestartsGreetd \/ CmdKioskFails \/ CmdFallsBack
  \/ InstChecks \/ InstStopsGreetd \/ InstRestartsDaemons \/ InstRestartsGesture
  \/ WatchdogSoftHeal \/ WatchdogReboots

Spec == Init /\ [][Next]_vars

\* systemd retries the kiosk unit, and the watchdog ends in a reboot.
FairSpec == Spec /\ WF_vars(KioskRespawns) /\ WF_vars(WatchdogReboots)

-----------------------------------------------------------------------------
(***************************************************************************)
(* Properties.                                                             *)
(***************************************************************************)

\* While the marker has not moved since the boot, exactly one unit owns the
\* seat, the one the marker names, whatever restarts the units: two would fight
\* over the display (bluebird-kiosk.service:9-16), none leaves a text console.
OneOwner ==
  ~changed =>
    IF marker THEN kiosk # "down" /\ greetd = "down"
              ELSE kiosk = "down" /\ greetd = "up"

\* A configured box has a PIN, whichever step of finalize or of a factory reset
\* a crash, a power cut or a failed call is the last: otherwise nobody could
\* enter the admin page of a box that no longer offers the wizard.
ConfiguredHasPin == marker => pin

\* A fleet command that ends without the installer killing it, on a box whose
\* marker did not move, has given the screen a new compositor or left the unit
\* to systemd's retry: it never reports success over an untouched wedged session.
RestartRestarts ==
  [][cmd.at # "idle" /\ cmd' = Idle /\ inst' = inst /\ ~changed /\ ~changed'
       => fresh' \/ kiosk' = "respawn"]_vars

\* A configured box without a compositor gets one back, or is unconfigured again.
ScreenReturns == (marker /\ ~Lit) ~> (Lit \/ ~marker)

\* bluebird-kiosk.service:9-10: "They can never both be active -- the marker is
\* either present or absent".  A condition is evaluated only at a start: between
\* finalize and the wizard's reboot the marker is there, greetd still runs, and
\* any start of the kiosk unit succeeds.
SeatExclusive == ~Both

=============================================================================
