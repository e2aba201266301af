--------------------------- MODULE RemoteCommands ----------------------------
(***************************************************************************)
(* _execute_commands of services/heartbeat.py: the commands of the fleet   *)
(* console that ride on an answer, one after the other, each reported when *)
(* it ended.  Two of them the heartbeat may not do itself: it stages a     *)
(* request file and starts a root unit, which reads the file, acts and     *)
(* removes it.  Starting a unit that runs already joins that run.          *)
(***************************************************************************)
EXTENDS Naturals, Sequences

CONSTANT Answers    \* the sequences of commands an answer may carry

VARIABLES
    batch,      \* the commands of the answer that are still to do
    at, cur,    \* where the executor is, with which command
    ok, did,    \* the result so far; observer: the command has had its effect
    file,       \* the request files: of this command, of an earlier one, or none
    unit,       \* the root units: off, on, or with the request they have read
    joined,     \* observer: the run waited for has read an earlier request
    cut         \* observer: a credential is staged of which the heartbeat was killed
                \* or could not finish the staging

commandVars == <<batch, at, cur, ok, did, file, unit, joined, cut>>

Staged == {"reset_access", "set_display_mode"}
Kind == Staged \cup {"restart_kiosk", "reboot", "other"}

ASSUME AnswersAssumption == Answers \subseteq Seq(Kind)

CommandTypeOK ==
    /\ batch \in Seq(Kind)
    /\ at \in {"idle", "staged", "started", "session", "clean", "report", "reboot"}
    /\ cur \in Kind \cup {"none"}
    /\ ok \in BOOLEAN /\ did \in BOOLEAN /\ joined \in BOOLEAN /\ cut \in BOOLEAN
    /\ file \in [Staged -> {"none", "mine", "old"}]
    /\ unit \in [Staged -> {"off", "on", "mine", "old"}]
    /\ \A k \in Staged : "mine" \in {file[k], unit[k]} => cur = k

CommandInit ==
    /\ batch = <<>> /\ at = "idle" /\ cur = "none"
    /\ ok = FALSE /\ did = FALSE /\ joined = FALSE /\ cut = FALSE
    /\ file = [k \in Staged |-> "none"] /\ unit = [k \in Staged |-> "off"]

-----------------------------------------------------------------------------
(* An answer with commands; the cloud hands out each of them once.         *)
Receive ==
    /\ at = "idle" /\ batch = <<>>
    /\ batch' \in Answers
    /\ UNCHANGED <<at, cur, ok, did, file, unit, joined, cut>>

Take(k) ==
    /\ at = "idle" /\ batch # <<>> /\ Head(batch) = k
    /\ batch' = Tail(batch) /\ cur' = k
    /\ ok' = FALSE /\ did' = FALSE /\ joined' = FALSE

(* force_sync, check_update, take_screenshot, or a name it does not know.  *)
RunOther ==
    /\ Take("other")
    /\ at' = "clean"
    /\ UNCHANGED <<file, unit, cut>>

Stage(k) ==
    /\ k \in Staged /\ Take(k)
    /\ file' = [file EXCEPT ![k] = "mine"] /\ at' = "staged"
    /\ cut' = (cut /\ k # "reset_access")
    /\ UNCHANGED unit

(* Bad arguments, no display inventory.                                    *)
Refuse ==
    /\ \E k \in Staged : Take(k)
    /\ at' = "report"
    /\ UNCHANGED <<file, unit, cut>>

(* A full disk, or a chmod that fails: what is written of the file stays.  *)
CannotStage(k) ==
    /\ k \in Staged /\ Take(k)
    /\ at' = "report"
    /\ file' = [file EXCEPT ![k] = "old"]
    /\ cut' = (cut \/ k = "reset_access")
    /\ UNCHANGED unit

StartUnit ==
    /\ at = "staged"
    /\ joined' = (unit[cur] = "old")
    /\ unit' = [unit EXCEPT ![cur] = IF @ = "off" THEN "on" ELSE @]
    /\ at' = "started"
    /\ UNCHANGED <<batch, cur, ok, did, file, cut>>

UnitReads(k) ==
    /\ unit[k] = "on" /\ file[k] # "none"
    /\ unit' = [unit EXCEPT ![k] = file[k]]
    /\ UNCHANGED <<batch, at, cur, ok, did, file, joined, cut>>

(* systemctl start returns when the unit ends.                             *)
UnitEnds_AnyResult(k, success) ==
    /\ unit' = [unit EXCEPT ![k] = "off"]
    /\ IF at = "started" /\ cur = k THEN ok' = TRUE /\ at' = "clean" ELSE UNCHANGED <<ok, at>>
    /\ UNCHANGED <<batch, cur, joined>>

UnitEnds(k, success) ==
    /\ unit' = [unit EXCEPT ![k] = "off"]
    /\ IF at = "started" /\ cur = k THEN ok' = success /\ at' = "clean" ELSE UNCHANGED <<ok, at>>
    /\ UNCHANGED <<batch, cur, joined>>

Removed(k) == [file EXCEPT ![k] = "none"]

UnitActs(k) ==
    /\ unit[k] \in {"mine", "old"}
    /\ did' = (did \/ unit[k] = "mine")
    /\ file' = Removed(k) /\ cut' = (cut /\ k # "reset_access")
    /\ UnitEnds(k, TRUE)

(* No request, or one the unit refuses: removed all the same.              *)
UnitRefuses(k) ==
    /\ unit[k] # "off"
    /\ file' = Removed(k) /\ cut' = (cut /\ k # "reset_access")
    /\ UnitEnds(k, FALSE)
    /\ UNCHANGED did

(* TimeoutStartSec, at any line of the script.                             *)
UnitKilled(k) ==
    /\ unit[k] # "off"
    /\ did' \in {did, did \/ unit[k] = "mine"}
    /\ file' \in {file, Removed(k)}
    /\ cut' = (cut /\ file'["reset_access"] # "none")
    /\ UnitEnds(k, FALSE)

CleanedUp_OnSuccess == IF ok THEN Removed(cur) ELSE file

CleanedUp == Removed(cur)

(* The request is removed whatever came of it; one that set-display-mode   *)
(* has left behind means that it never ran.                                *)
CleanUp ==
    /\ at = "clean"
    /\ IF cur \in Staged
       THEN /\ ok' = (ok /\ ~(cur = "set_display_mode" /\ file[cur] # "none"))
            /\ file' = CleanedUp
       ELSE ok' \in BOOLEAN /\ UNCHANGED file
    /\ cut' = (cut /\ cur # "reset_access")
    /\ at' = "report"
    /\ UNCHANGED <<batch, cur, did, unit, joined>>

(* The report may be lost; the cloud then gives the command up.            *)
Report ==
    /\ at = "report"
    /\ at' = "idle" /\ cur' = "none" /\ ok' = FALSE /\ did' = FALSE /\ joined' = FALSE
    /\ UNCHANGED <<batch, file, unit, cut>>

(* Reported first; the commands behind it are dropped either way.          *)
TakeReboot ==
    /\ Take("reboot")
    /\ at' = "reboot"
    /\ UNCHANGED <<file, unit, cut>>

RebootFails ==
    /\ at = "reboot"
    /\ at' = "idle" /\ cur' = "none" /\ batch' = <<>>
    /\ UNCHANGED <<ok, did, file, unit, joined, cut>>

(* The heartbeat is killed: the answer is forgotten, a unit goes on.       *)
Forgotten(s) == IF s = "mine" THEN "old" ELSE s

Forget ==
    /\ batch' = <<>> /\ at' = "idle" /\ cur' = "none"
    /\ ok' = FALSE /\ did' = FALSE /\ joined' = FALSE
    /\ file' = [k \in Staged |-> Forgotten(file[k])]
    /\ cut' = (file["reset_access"] # "none")

HeartbeatKilled ==
    /\ Forget
    /\ unit' = [k \in Staged |-> Forgotten(unit[k])]

Rebooted == Forget /\ unit' = [k \in Staged |-> "off"]

Execute ==
    \/ Receive \/ RunOther \/ Refuse \/ StartUnit \/ CleanUp \/ Report \/ TakeReboot
    \/ RebootFails
    \/ \E k \in Staged :
          \/ Stage(k) \/ CannotStage(k)
          \/ UnitReads(k) \/ UnitActs(k) \/ UnitRefuses(k) \/ UnitKilled(k)

-----------------------------------------------------------------------------
(* A command is reported done only if the unit has acted on this command's *)
(* request, and not on one an earlier heartbeat staged before it was       *)
(* killed, unless that earlier run was still going on and was joined.      *)
DoneMeansDone == at = "report" /\ ok /\ cur \in Staged => (did \/ joined)

(* "Never leave credential material staged, even if the unit failed or     *)
(* systemctl raised" (heartbeat.py:376-377): only while the command runs,  *)
(* or after a kill or a failed staging.                                    *)
NoCredentialLeft ==
    file["reset_access"] # "none" =>
        cut \/ (cur = "reset_access" /\ at \in {"staged", "started", "clean"})
=============================================================================
