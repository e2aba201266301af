------------------------------ MODULE Heartbeat ------------------------------
(***************************************************************************)
(* services/heartbeat.py: once a minute the kiosk tells the cloud that it  *)
(* lives and is told what to show, one page (display_assignment) or a page *)
(* per output (output_assignments).  It writes that down, in kiosk.conf    *)
(* and display-content.json, and restarts the session if it changed: the   *)
(* session reads both files when it starts.                                *)
(***************************************************************************)
EXTENDS KioskConf

CONSTANTS
    Outputs,    \* contents of display-content.json: [screens, pages]
    MaxAssigns, MaxFaults   \* bounds

ASSUME OutputsAssumption == \A c \in Outputs : {"screens", "pages"} = DOMAIN c
ASSUME BoundsAssumption == MaxAssigns \in Nat /\ MaxFaults \in Nat

None == [none |-> TRUE]

VARIABLES
    assigned,   \* what the cloud wants: [display, outputs]
    answer,     \* the answer of this heartbeat
    hpc,        \* send_once: where it is
    content,    \* display-content.json
    shown,      \* what the screens show
    owed,       \* observer: a change the code has not made visible waits for a session start
    assigns, faults   \* bounds

heartbeatVars == <<assigned, answer, hpc, content, shown, owed, assigns, faults>>
vars == <<confVars, heartbeatVars>>

Assignment == [display : Display, outputs : Outputs \cup {None}]

Wizard == [by |-> "wizard"]
Single(d) == [by |-> "chromium", page |-> d]
PerOutput(c) == [by |-> "independent", page |-> c]

TypeOK ==
    /\ ConfTypeOK
    /\ assigned \in Assignment /\ answer \in Assignment
    /\ hpc \in {"sleep", "display", "writeDisplay", "restartDisplay",
                "outputs", "layout", "writeLayout", "restartLayout"}
    /\ content \in Outputs \cup {None}
    /\ shown \in {Wizard} \cup {Single(d) : d \in Display}
                 \cup {PerOutput(c) : c \in Outputs \cup {None}}
    /\ owed \in BOOLEAN
    /\ assigns \in 0..MaxAssigns /\ faults \in 0..MaxFaults
    /\ Writing("heartbeat") => hpc \in {"writeDisplay", "writeLayout"}

-----------------------------------------------------------------------------
(* launch-bluebird-session and what it starts.                             *)
Launched ==
    IF ~configured THEN Wizard
    ELSE IF conf.layout = "independent" /\ content # None THEN PerOutput(content)
    ELSE Single(conf.display)

SessionStarts ==
    /\ shown' = Launched
    /\ owed' = (owed /\ \E p \in Process : Writing(p))

(* The reconcile loop of launch-kiosk-independent.                         *)
Reconcile ==
    /\ shown.by = "independent"
    /\ shown' = PerOutput(content)
    /\ UNCHANGED <<confVars, assigned, answer, hpc, content, owed, assigns, faults>>

Init ==
    /\ ConfInit
    /\ assigned \in Assignment /\ answer = [display |-> Wall, outputs |-> None]
    /\ hpc = "sleep" /\ content = None
    /\ shown = Launched /\ owed = FALSE
    /\ assigns = 0 /\ faults = 0

-----------------------------------------------------------------------------
Enrolled == conf.slug /\ conf.id

(* A device not enrolled is silent; without a license only the heartbeat   *)
(* counts.  A request that fails leaves everything as it is.               *)
Beat ==
    /\ hpc = "sleep"
    /\ Enrolled /\ licensed
    /\ answer' = assigned /\ hpc' = "display"
    /\ UNCHANGED <<confVars, assigned, content, shown, owed, assigns, faults>>

SameDisplay_Never == FALSE

SameDisplay == conf.display = answer.display

(* BeginWrite of the heartbeat: two writes at a time may leave either text.*)
Writes(changes) ==
    /\ BeginWrite("heartbeat", changes)
    /\ owed' = (owed \/ overlap')
    /\ UNCHANGED <<conf, tmp, op, licensed, configured, serverOps>>

DisplayUnchanged ==
    /\ hpc = "display" /\ SameDisplay
    /\ hpc' = "outputs"
    /\ UNCHANGED <<confVars, assigned, answer, content, shown, owed, assigns, faults>>

ApplyDisplay ==
    /\ hpc = "display" /\ ~SameDisplay
    /\ Writes([display |-> answer.display]) /\ hpc' = "writeDisplay"
    /\ UNCHANGED <<assigned, answer, content, shown, assigns, faults>>

Independent == conf.layout = "independent"

OutputsUnchanged ==
    /\ hpc = "outputs"
    /\ IF answer.outputs = None THEN ~Independent ELSE Independent /\ content = answer.outputs
    /\ hpc' = "sleep"
    /\ UNCHANGED <<confVars, assigned, answer, content, shown, owed, assigns, faults>>

UrlsOnly_AnyLayout == content # None /\ content.screens = answer.outputs.screens

UrlsOnly == Independent /\ content # None /\ content.screens = answer.outputs.screens

(* The file first, then the layout; the same screens need no restart.      *)
ApplyOutputs ==
    /\ hpc = "outputs" /\ answer.outputs # None
    /\ ~(Independent /\ content = answer.outputs)
    /\ content' = answer.outputs
    /\ hpc' = IF UrlsOnly THEN "sleep" ELSE "layout"
    /\ UNCHANGED <<confVars, assigned, answer, shown, owed, assigns, faults>>

ClearOutputs ==
    /\ hpc = "outputs" /\ answer.outputs = None /\ Independent
    /\ content' = None /\ hpc' = "layout"
    /\ UNCHANGED <<confVars, assigned, answer, shown, owed, assigns, faults>>

SetLayout ==
    /\ hpc = "layout"
    /\ Writes([layout |-> IF answer.outputs = None THEN "mirror" ELSE "independent"])
    /\ hpc' = "writeLayout"
    /\ UNCHANGED <<assigned, answer, content, shown, assigns, faults>>

AfterWrite == IF hpc = "writeDisplay" THEN "restartDisplay" ELSE "restartLayout"

AfterRestart == IF hpc \in {"writeDisplay", "restartDisplay"} THEN "outputs" ELSE "sleep"

HeartbeatWrites ==
    /\ hpc \in {"writeDisplay", "writeLayout"}
    /\ \/ (OpenTmp("heartbeat") \/ FillTmp("heartbeat")) /\ UNCHANGED <<hpc, owed>>
       \/ /\ Replaces("heartbeat") /\ hpc' = AfterWrite
          /\ UNCHANGED <<op, licensed, configured, serverOps, owed>>
       \/ /\ ReplaceRaises("heartbeat") /\ hpc' = AfterRestart
          /\ UNCHANGED <<op, licensed, configured, serverOps, owed>>
    /\ UNCHANGED <<assigned, answer, content, shown, assigns, faults>>

(* _cmd_restart_kiosk                                                      *)
RestartKiosk ==
    /\ hpc \in {"restartDisplay", "restartLayout"}
    /\ SessionStarts /\ hpc' = AfterRestart
    /\ UNCHANGED <<confVars, assigned, answer, content, assigns, faults>>

(* Its result is not looked at.                                            *)
RestartFails ==
    /\ hpc \in {"restartDisplay", "restartLayout"}
    /\ faults < MaxFaults /\ faults' = faults + 1
    /\ owed' = TRUE /\ hpc' = AfterRestart
    /\ UNCHANGED <<confVars, assigned, answer, content, shown, assigns>>

SendOnce ==
    \/ Beat \/ DisplayUnchanged \/ ApplyDisplay
    \/ OutputsUnchanged \/ ApplyOutputs \/ ClearOutputs \/ SetLayout
    \/ HeartbeatWrites \/ RestartKiosk \/ RestartFails

-----------------------------------------------------------------------------
(* The heartbeat is killed (an update restarts it) and starts again.       *)
HeartbeatDies ==
    /\ hpc # "sleep"
    /\ faults < MaxFaults /\ faults' = faults + 1
    /\ hpc' = "sleep" /\ writer' = Killed("heartbeat")
    /\ overlap' = (overlap /\ Writing("server"))
    /\ owed' = (owed \/ overlap \/ hpc \in {"restartDisplay", "restartLayout"})
    /\ UNCHANGED <<conf, tmp, op, licensed, configured, serverOps,
                   assigned, answer, content, shown, assigns>>

(* The session is restarted: its crash, the watchdog, the admin page.      *)
SessionRestarts ==
    /\ SessionStarts
    /\ UNCHANGED <<confVars, assigned, answer, hpc, content, assigns, faults>>

Boots ==
    /\ hpc' = "sleep" /\ writer' = [p \in Process |-> Quiet]
    /\ overlap' = FALSE /\ op' = "none"
    /\ shown' = Launched /\ owed' = FALSE
    /\ UNCHANGED <<conf, tmp, licensed, configured, serverOps,
                   assigned, answer, content, assigns>>

(* The last step of a factory reset.                                       *)
ResetReboots == op = "reboot" /\ Boots /\ UNCHANGED faults

PowerCut ==
    /\ faults < MaxFaults /\ faults' = faults + 1
    /\ Boots

Assign ==
    /\ assigns < MaxAssigns /\ assigns' = assigns + 1
    /\ assigned' \in Assignment \ {assigned}
    /\ UNCHANGED <<confVars, answer, hpc, content, shown, owed, faults>>

Server ==
    /\ ServerStep
    /\ owed' = (owed \/ overlap' \/ configured' # configured)
    /\ UNCHANGED <<assigned, answer, hpc, content, shown, assigns, faults>>

Next ==
    SendOnce \/ Reconcile \/ Server \/ HeartbeatDies \/ SessionRestarts
    \/ ResetReboots \/ PowerCut \/ Assign

Spec == Init /\ [][Next]_vars

(* send_once runs for ever and is answered now and then; a request is      *)
(* handled to its end.                                                     *)
FairSpec ==
    /\ Spec
    /\ WF_vars(SendOnce) /\ SF_vars(Beat)
    /\ WF_vars(Reconcile) /\ WF_vars(Server /\ op # "none") /\ WF_vars(ResetReboots)

-----------------------------------------------------------------------------
Wanted ==
    IF assigned.outputs # None THEN PerOutput(assigned.outputs) ELSE Single(assigned.display)

(* A write of kiosk.conf changes the keys of its caller and no other, as   *)
(* long as no second process writes meanwhile (config.py:72-84, "merged"), *)
(* but for a name with an apostrophe: that grows by one quoting at every   *)
(* write, whoever's it is.                                                 *)
OwnKeysOnly ==
    [][~overlap =>
         \A k \in Key : conf'[k] # conf[k] =>
             \/ \E p \in Process : writer[p].at = "filled" /\ k \in writer[p].keys
             \/ conf'[k] = Reread(k, conf[k])]_vars

(* What the cloud assigns comes to the screens, whatever the old and the   *)
(* new assignment, unless the one restart of the session was lost to a     *)
(* crash, a failure or a second writer: then it waits for the next.        *)
AssignmentShown ==
    <>[](Enrolled /\ licensed /\ configured) => <>[](shown = Wanted \/ owed)

(* "we must NOT restart on every heartbeat" (heartbeat.py:726-728): an     *)
(* assignment that stays is applied once.                                  *)
RestartsStop == <>[][~RestartKiosk]_vars
=============================================================================
