------------------------------ MODULE KioskBox -------------------------------
(***************************************************************************)
(* The fleet's commands on the box whose session they restart: modules     *)
(* RemoteCommands and SessionOwner.  restart_kiosk is an executor like the *)
(* others; the heartbeat also runs it for an assignment that changed.  A   *)
(* boot ends every process, the installer restarts the heartbeat.          *)
(***************************************************************************)
EXTENDS SessionOwner, RemoteCommands

boxVars == <<vars, commandVars>>

BoxTypeOK ==
    /\ TypeOK /\ CommandTypeOK
    /\ at = "session" => cur = "restart_kiosk" /\ cmd # Idle

BoxInit == Init /\ CommandInit

RestartCommand ==
    /\ Take("restart_kiosk") /\ CmdAsksKiosk
    /\ at' = "session"
    /\ UNCHANGED <<file, unit, cut>>

(* An assignment that changed: after the commands of the answer.           *)
RestartForAssignment ==
    /\ at = "idle" /\ batch = <<>> /\ CmdAsksKiosk
    /\ UNCHANGED commandVars

CmdStep ==
    CmdAsksGreetd \/ CmdDropsGreetd \/ CmdRestartsKiosk \/ CmdRestartsGreetd
    \/ CmdKioskFails \/ CmdFallsBack

RestartStep ==
    /\ CmdStep
    /\ at' = IF at = "session" /\ cmd' = Idle THEN "clean" ELSE at
    /\ UNCHANGED <<batch, cur, ok, did, file, unit, joined, cut>>

ExecuteStep ==
    /\ at # "session" /\ cmd = Idle
    /\ Execute
    /\ UNCHANGED vars

UnitStep ==
    /\ \E k \in Staged : UnitReads(k) \/ UnitActs(k) \/ UnitRefuses(k) \/ UnitKilled(k)
    /\ UNCHANGED vars

Booted ==
    /\ Reboot \/ WizardReboot \/ ResetReboots \/ WatchdogReboots
    /\ Rebooted

Updated == InstRestartsDaemons /\ HeartbeatKilled

Others ==
  /\ \/ Finalize \/ FinalizeCut \/ WizardGivesUp \/ ResetUnlinks \/ ResetClears \/ ResetFails
     \/ KioskDies \/ KioskRespawns \/ GreetdSwayDies \/ GestureRestarts \/ AdminRestarts
     \/ InstChecks \/ InstStopsGreetd \/ InstRestartsGesture \/ WatchdogSoftHeal
  /\ UNCHANGED commandVars

BoxNext ==
    \/ RestartCommand \/ RestartForAssignment \/ RestartStep
    \/ ExecuteStep \/ UnitStep \/ Booted \/ Updated \/ Others

BoxSpec == BoxInit /\ [][BoxNext]_boxVars

BoxFairSpec == BoxSpec /\ WF_vars(KioskRespawns) /\ WF_vars(WatchdogReboots)
=============================================================================
