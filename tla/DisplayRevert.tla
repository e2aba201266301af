---------------------------- MODULE DisplayRevert ----------------------------
(***************************************************************************)
(* Display settings: the admin routes apply / confirm / revert-now with    *)
(* the 15 s auto-revert (server.py), the snapshot of confirmed settings    *)
(* (services/display.py), kiosk-display-manager, which restores them once  *)
(* per appearance of an output, and set-display-mode, the root helper      *)
(* behind the fleet command.  The route handlers run on one event loop and *)
(* block in wlr-randr, so each is one step; the helper is another process. *)
(***************************************************************************)
EXTENDS Naturals, Sequences

CONSTANTS
    Outputs, Transforms, Modes,
    Boot,          \* the setting sway gives an output from its EDID
    Better,        \* the mode _better_mode prefers to Boot.m ("" for none)
    UiModes,       \* modes an apply may ask for (admin.js asks for none)
    MaxApplies, MaxCloud, MaxMishaps                      \* bounds

Setting == [t : Transforms, m : Modes]
Same == ""                       \* a field that is not set
Entry == [t : Transforms \cup {Same}, m : Modes \cup {Same}]
Field == {"t", "m"}
NoEntry == [t |-> Same, m |-> Same]

ASSUME SettingAssumption ==
    /\ Boot \in Setting
    /\ Better \in Modes \cup {Same}
    /\ UiModes \subseteq Modes
    /\ Same \notin Transforms \cup Modes
ASSUME BoundAssumption ==
    MaxApplies \in Nat /\ MaxCloud \in Nat /\ MaxMishaps \in Nat

VARIABLES
    live,      \* what the compositor shows on each output
    plugged,   \* connected outputs
    restored,  \* outputs the display manager takes for set up (reconcile's restored)
    event,     \* an output event the display manager has not handled yet
    saved,     \* display-settings.json
    pending,   \* app.state.display_revert_pending
    timers,    \* the sleeping _auto_revert_display tasks, oldest first
    cloud,     \* set-display-mode: where it stands, its request, what it read
    kept,      \* observer: the setting last accepted for each output
    strays,    \* observer: outputs left on a setting by a command that failed
               \* or a revert that was lost, or that a revert may take back there
    course,    \* observer: "rough" once changes overlapped, an output went away,
               \* or a snapshot failed or was taken of a stray
    applies, clouds, mishaps   \* bounds

admin == <<pending, timers>>
screen == <<live, plugged, restored, event>>
observers == <<kept, strays, course>>
counters == <<applies, clouds, mishaps>>
vars == <<screen, saved, admin, cloud, observers, counters>>

Revert == [token : Nat, o : Outputs, prev : Entry]
NoRevert == [token |-> 0]
Idle == [pc |-> "idle"]

TypeOK ==
    /\ live \in [Outputs -> Setting]
    /\ plugged \subseteq Outputs /\ restored \subseteq Outputs
    /\ event \in BOOLEAN /\ (event \/ restored \subseteq plugged)
    /\ saved \in [Outputs -> Entry]
    /\ pending \in Revert \cup {NoRevert}
    /\ timers \in Seq(Revert)
    /\ \/ cloud = Idle
       \/ cloud \in [pc : {"set", "read"}, o : Outputs, m : Modes, data : [Outputs -> Entry]]
    /\ kept \in [Outputs -> Setting] /\ strays \subseteq Outputs
    /\ course \in {"calm", "rough"}
    /\ applies \in Nat /\ clouds \in Nat /\ mishaps \in Nat

(* Fields given in e override those of s.                                  *)
With(s, e) == [t |-> IF e.t = Same THEN s.t ELSE e.t,
               m |-> IF e.m = Same THEN s.m ELSE e.m]

(* kiosk-display-manager: a saved entry wins, else the EDID correction.    *)
Wanted(s) == IF s # NoEntry THEN s ELSE [t |-> Same, m |-> Better]
Restored(s) == With(Boot, Wanted(s))

(* What of e reaches the compositor when the commands of some fields fail: *)
(* no socket, a timeout, a mode it knows under another rate than the whole *)
(* Hz list_outputs reports.  Nobody looks at the result of a revert or of  *)
(* a restore.                                                              *)
Sent(e, lost) == [t |-> IF "t" \in lost THEN Same ELSE e.t,
                  m |-> IF "m" \in lost THEN Same ELSE e.m]

Init ==
    /\ plugged = Outputs /\ restored = Outputs /\ event = FALSE
    /\ saved = [o \in Outputs |-> NoEntry]
    /\ live = [o \in Outputs |-> Restored(NoEntry)]
    /\ kept = live /\ strays = {} /\ course = "calm"
    /\ pending = NoRevert /\ timers = <<>> /\ cloud = Idle
    /\ applies = 0 /\ clouds = 0 /\ mishaps = 0

(* The helper and the display manager finish within milliseconds; admin.js *)
(* disables Apply during the countdown, in its own page.  A step that comes *)
(* before they are done, or before the last change is settled, is rough.   *)
Quiet == cloud = Idle /\ ~event
Free == Quiet /\ pending = NoRevert
RoughUnless(calm) == course' = IF calm THEN course ELSE "rough"

Mishap == mishaps < MaxMishaps /\ mishaps' = mishaps + 1
MishapUnless(fine) == IF fine THEN UNCHANGED mishaps ELSE Mishap

-----------------------------------------------------------------------------
(* persist_settings: a snapshot of every output wlr-randr lists as enabled *)
(* replaces the file; outputs that are not listed have no entry any more.  *)
(* A wlr-randr that fails lists none; a write that fails leaves the file.  *)
Snapshot == [o \in Outputs |-> IF o \in plugged THEN live[o] ELSE NoEntry]
NoneListed == [o \in Outputs |-> NoEntry]

Persist ==
    \E data \in {Snapshot, NoneListed, saved} :
        saved' = data /\ MishapUnless(data = Snapshot)

(* wlr-randr --transform / --mode: no effect on an output that is gone.    *)
Randr(o, e) == IF o \in plugged THEN [live EXCEPT ![o] = With(live[o], e)] ELSE live

(* What list_outputs reports of an output before the change is applied.    *)
Previous(o) == IF o \in plugged THEN live[o] ELSE NoEntry

TimersWith_Single(r) == IF timers = <<>> THEN <<r>> ELSE timers

TimersWith(r) == Append(timers, r)

(* POST /admin/display/apply with transform t and/or mode m, all applied:  *)
(* remember the previous state and start the 15 s timer.                   *)
ApplyChange(o, t, m) ==
    /\ applies < MaxApplies
    /\ t # Same \/ m # Same
    /\ o \in plugged
    /\ live' = Randr(o, [t |-> t, m |-> m])
    /\ \E listed \in {Previous(o), NoEntry} :
          LET r == [token |-> applies + 1, o |-> o, prev |-> listed]
          IN  /\ pending' = r /\ timers' = TimersWith(r)
              /\ MishapUnless(listed = Previous(o))
    /\ applies' = applies + 1
    /\ RoughUnless(Free)
    /\ UNCHANGED <<plugged, restored, event, saved, cloud, kept, strays, clouds>>

(* A later part of the change failed, or an earlier one was reported as    *)
(* failed after its 5 s: 400, and the handler returns before the revert is *)
(* scheduled; t and m are what was applied.                                *)
ApplyPartly(o, t, m) ==
    /\ applies < MaxApplies
    /\ t # Same \/ m # Same
    /\ o \in plugged
    /\ live' = Randr(o, [t |-> t, m |-> m])
    /\ strays' = strays \cup {o}
    /\ applies' = applies + 1
    /\ RoughUnless(Free)
    /\ UNCHANGED <<plugged, restored, event, saved, admin, cloud, kept, clouds, mishaps>>

(* Only the brightness changes: kept at once, the snapshot is written.     *)
ApplyBrightness ==
    /\ applies < MaxApplies
    /\ Persist
    /\ applies' = applies + 1
    /\ RoughUnless(Free /\ saved' = Snapshot /\ strays = {})
    /\ UNCHANGED <<screen, admin, cloud, kept, strays, clouds>>

(* POST /admin/display/confirm.                                            *)
Confirm ==
    /\ pending # NoRevert
    /\ pending' = NoRevert
    /\ Persist
    /\ kept' = [kept EXCEPT ![pending.o] = live[pending.o]]
    /\ strays' = strays \ {pending.o}
    /\ RoughUnless(Quiet /\ saved' = Snapshot /\ strays' = {})
    /\ UNCHANGED <<screen, timers, cloud, applies, clouds>>

(* What was captured is set again; nothing was, if it could not be listed. *)
Undo(r) ==
    /\ pending' = NoRevert
    /\ \E lost \in SUBSET Field :
          /\ live' = Randr(r.o, Sent(r.prev, lost))
          /\ strays' = IF lost = {} /\ r.prev # NoEntry THEN strays ELSE strays \cup {r.o}
          /\ MishapUnless(lost = {})

(* POST /admin/display/revert-now.                                         *)
RevertNow ==
    /\ pending # NoRevert
    /\ Undo(pending)
    /\ UNCHANGED <<plugged, restored, event, saved, timers, cloud, kept, course,
                   applies, clouds>>

StillPending_Any(r) == pending # NoRevert

StillPending_Never(r) == FALSE

StillPending_Always(r) == TRUE

StillPending(r) == pending # NoRevert /\ pending.token = r.token

AutoRevert_Persisted ==
    /\ timers # <<>>
    /\ timers' = Tail(timers)
    /\ IF StillPending(Head(timers))
       THEN Undo(Head(timers))
       ELSE UNCHANGED <<live, pending, strays, mishaps>>
    /\ saved' = Snapshot
    /\ UNCHANGED <<plugged, restored, event, cloud, kept, course, applies, clouds>>

(* A timer wakes up after its 15 s; all wait equally long, so in order.    *)
AutoRevert ==
    /\ timers # <<>>
    /\ timers' = Tail(timers)
    /\ IF StillPending(Head(timers))
       THEN Undo(Head(timers))
       ELSE UNCHANGED <<live, pending, strays, mishaps>>
    /\ UNCHANGED <<plugged, restored, event, saved, cloud, kept, course, applies, clouds>>

-----------------------------------------------------------------------------
(* set-display-mode: apply the mode, then read, modify and replace the     *)
(* settings file (no lock is shared with the server).                      *)

CloudSet(o, m) ==
    /\ cloud = Idle /\ clouds < MaxCloud
    /\ o \in plugged
    /\ live' = Randr(o, [t |-> Same, m |-> m])
    /\ cloud' = [pc |-> "set", o |-> o, m |-> m, data |-> NoneListed]
    /\ clouds' = clouds + 1
    /\ RoughUnless(Free)
    /\ UNCHANGED <<plugged, restored, event, saved, admin, kept, strays, applies, mishaps>>

CloudRead ==
    /\ cloud.pc = "set"
    /\ cloud' = [cloud EXCEPT !.pc = "read", !.data = saved]
    /\ UNCHANGED <<screen, saved, admin, observers, counters>>

CloudEntry(e, m) == [e EXCEPT !.m = m]

CloudWrite ==
    /\ cloud.pc = "read"
    /\ saved' = [cloud.data EXCEPT ![cloud.o] = CloudEntry(@, cloud.m)]
    /\ kept' = [kept EXCEPT ![cloud.o].m = cloud.m]
    /\ cloud' = Idle
    /\ UNCHANGED <<screen, admin, strays, course, counters>>

(* It is killed, or cannot write the file: the mode is set and not saved.  *)
CloudDies ==
    /\ cloud # Idle
    /\ cloud' = Idle
    /\ strays' = strays \cup {cloud.o}
    /\ Mishap
    /\ UNCHANGED <<screen, saved, admin, kept, course, applies, clouds>>

-----------------------------------------------------------------------------
(* Hotplug, restarts and reboots.                                          *)

Unplug(o) ==
    /\ o \in plugged
    /\ plugged' = plugged \ {o}
    /\ event' = TRUE
    /\ Mishap
    /\ RoughUnless(FALSE)
    /\ UNCHANGED <<restored, live, saved, admin, cloud, kept, strays, applies, clouds>>

Plug(o) ==
    /\ o \notin plugged
    /\ plugged' = plugged \cup {o}
    /\ live' = [live EXCEPT ![o] = Boot]
    /\ event' = TRUE
    /\ UNCHANGED <<restored, saved, admin, cloud, observers, counters>>

(* Outputs that come up with Boot are set up; each is taken for set up     *)
(* whether the commands went through or not.  A revert that still waits    *)
(* may take a stray back where it was.                                     *)
Waiting == IF pending = NoRevert THEN {} ELSE {pending.o}

SetUp(P, waiting) ==
    \E lost \in [P -> SUBSET Field] :
        /\ live' = [o \in Outputs |->
                      IF o \in P THEN With(Boot, Sent(Wanted(saved[o]), lost[o])) ELSE live[o]]
        /\ strays' = (strays \ (P \ waiting)) \cup {o \in P : lost[o] # {}}
        /\ MishapUnless(\A o \in P : lost[o] = {})

(* restored.intersection_update(present)                                   *)
StillThere == plugged

(* reconcile, on an output event, of which sway sends more than hotplugs:  *)
(* what is present and not in restored is set up; what the event was about *)
(* is not looked at.                                                       *)
Reconcile ==
    /\ SetUp(plugged \ restored, Waiting)
    /\ restored' = StillThere
    /\ event' = FALSE
    /\ UNCHANGED <<plugged, saved, admin, cloud, kept, course, applies, clouds>>

(* swaymsg fails: no output is present, all are forgotten, and the next    *)
(* event sets them up again, over whatever they show.                      *)
ReconcileBlind ==
    /\ restored' = {} /\ event' = FALSE
    /\ Mishap
    /\ RoughUnless(FALSE)
    /\ UNCHANGED <<live, plugged, saved, admin, cloud, kept, strays, applies, clouds>>

(* The session is restarted: sway forgets everything, the display manager  *)
(* starts anew and restores before anyone can log in to the admin overlay. *)
SessionRestart ==
    /\ SetUp(plugged, Waiting)
    /\ restored' = plugged /\ event' = FALSE
    /\ RoughUnless(Quiet)
    /\ UNCHANGED <<plugged, saved, admin, cloud, kept, applies, clouds>>

(* The admin server restarts: pending and timers live in its memory, and   *)
(* with them what it would have reverted.                                  *)
ServerRestart ==
    /\ Mishap
    /\ strays' = IF pending = NoRevert THEN strays ELSE strays \cup {pending.o}
    /\ pending' = NoRevert /\ timers' = <<>>
    /\ UNCHANGED <<screen, saved, cloud, kept, course, applies, clouds>>

Reboot ==
    /\ SetUp(plugged, {})
    /\ pending' = NoRevert /\ timers' = <<>> /\ cloud' = Idle
    /\ restored' = plugged /\ event' = FALSE
    /\ UNCHANGED <<plugged, saved, kept, course, applies, clouds>>

Next ==
    \/ \E o \in Outputs, t \in Transforms \cup {Same}, m \in UiModes \cup {Same} :
          ApplyChange(o, t, m) \/ ApplyPartly(o, t, m)
    \/ ApplyBrightness \/ Confirm \/ RevertNow \/ AutoRevert
    \/ \E o \in Outputs, m \in Modes : CloudSet(o, m)
    \/ CloudRead \/ CloudWrite \/ CloudDies
    \/ \E o \in Outputs : Unplug(o) \/ Plug(o)
    \/ Reconcile \/ ReconcileBlind \/ SessionRestart \/ ServerRestart \/ Reboot

Spec == Init /\ [][Next]_vars

(* The event loop runs the timers that are due; the helper and the display *)
(* manager run on.  Nobody has to click.                                   *)
FairSpec ==
    Spec /\ WF_vars(AutoRevert) /\ WF_vars(CloudRead) /\ WF_vars(CloudWrite)
         /\ WF_vars(event /\ Reconcile)

-----------------------------------------------------------------------------
(* On a calm course and with nothing pending, every screen shows the       *)
(* setting last accepted for it by a confirm or by the fleet console,      *)
(* but for the strays: nothing unconfirmed stays, an accepted setting      *)
(* comes back after a restart of the session or a reboot at any moment,    *)
(* and so does that of an output left astray by a failed revert or by a    *)
(* restart of the server, if no snapshot was taken of it.                  *)
Settled == pending = NoRevert /\ cloud = Idle /\ ~event

SettledOnAccepted ==
    Settled /\ course = "calm" => \A o \in plugged \ strays : live[o] = kept[o]

(* The settings file never holds anything but accepted settings ("never on *)
(* the auto-revert path, so an unconfirmed-and-rebooted change doesn't     *)
(* stick", display.py), on a calm course.                                  *)
OnlyAcceptedSaved ==
    cloud = Idle /\ course = "calm" =>
        \A o \in Outputs : saved[o].t \in {Same, kept[o].t} /\ saved[o].m \in {Same, kept[o].m}

(* A change nobody confirms is undone: "Operator applies a change, gets 15 *)
(* seconds to confirm; otherwise the previous state is restored"; unless   *)
(* the course gets rough or a command fails that should undo it.           *)
UnconfirmedReverts ==
    \A o \in Outputs :
        o \in plugged /\ live[o] # kept[o] ~>
            course = "rough" \/ o \in strays \/ live[o] = kept[o]

(* A pending change always has its own timer still running, so that it is  *)
(* not pending for ever, whatever was applied, restarted or unplugged.     *)
PendingHasTimer ==
    pending # NoRevert => \E i \in DOMAIN timers : timers[i].token = pending.token

(* Only the timer started last reverts anything, never the one of a change *)
(* that was superseded: every pending change gets its 15 seconds in full.  *)
FullWindow ==
    [][AutoRevert /\ pending' # pending => timers' = <<>>]_vars
=============================================================================
