--------------------------- MODULE KioskBoxProofs ---------------------------
(***************************************************************************)
(* Theorems about KioskBox, for all commands the fleet may send.  Every    *)
(* step of the box is one of SessionOwner or leaves the session alone, so  *)
(* the first half is about the session: the seat has one owner because     *)
(* whoever acts on an answer of systemd acts on one that is still true     *)
(* when the marker has not moved.  The second half is about the commands:  *)
(* whose request is in the file, and whose the root unit has read.         *)
(***************************************************************************)
EXTENDS KioskBox, TLAPS

(* install.sh stops greetd only on a box whose marker has moved.           *)
SeatInv ==
    /\ OneOwner
    /\ inst = "stop" => changed

(* During a factory reset the marker is gone.                              *)
ResetInv ==
    /\ ConfiguredHasPin
    /\ reset # "none" => ~marker

(* What restart_kiosk was told is still so: a unit that its marker keeps   *)
(* down did not answer "active", the other one did, and a command that     *)
(* tries greetd has left the kiosk unit to systemd's retry.                *)
AnswersInv ==
    ~changed =>
        IF marker
        THEN ~cmd.greetd /\ (cmd.at = "fallback" => fresh \/ kiosk = "respawn")
        ELSE ~cmd.kiosk /\ (cmd.at = "act" => cmd.greetd) /\ cmd.at \notin {"kick", "fallback"}

SessionInv == TypeOK /\ SeatInv /\ ResetInv /\ AnswersInv

-----------------------------------------------------------------------------
(* Types of the session                                                    *)

Place == {"idle", "ask", "act", "kick", "fallback"}

LEMMA IdleType == Idle \in [at : Place, kiosk : BOOLEAN, greetd : BOOLEAN]
                  /\ Idle.at = "idle" /\ ~Idle.kiosk /\ ~Idle.greetd
  BY DEF Idle, Place

(* A command in another place of its course, with its answers.             *)
LEMMA CmdType ==
    ASSUME TypeOK, NEW p \in Place
    PROVE  /\ [cmd EXCEPT !.at = p] \in [at : Place, kiosk : BOOLEAN, greetd : BOOLEAN]
           /\ [cmd EXCEPT !.at = p].at = p
           /\ [cmd EXCEPT !.at = p].kiosk = cmd.kiosk
           /\ [cmd EXCEPT !.at = p].greetd = cmd.greetd
  BY DEF TypeOK, Place

(* The two questions.                                                      *)
LEMMA AskedKiosk ==
    ASSUME CmdAsksKiosk
    PROVE  /\ cmd' \in [at : Place, kiosk : BOOLEAN, greetd : BOOLEAN]
           /\ cmd'.at = "ask" /\ cmd'.kiosk = (kiosk = "up") /\ cmd'.greetd = FALSE
  BY DEF CmdAsksKiosk, Idle, Place

LEMMA AskedGreetd ==
    ASSUME TypeOK, CmdAsksGreetd
    PROVE  /\ cmd' \in [at : Place, kiosk : BOOLEAN, greetd : BOOLEAN]
           /\ cmd'.at = "act" /\ cmd'.kiosk = cmd.kiosk /\ cmd'.greetd = (greetd = "up")
  BY DEF CmdAsksGreetd, TypeOK, Place

(* What the three commands of systemctl do to units, pages and observer.   *)
LEMMA RestartKioskType ==
    ASSUME TypeOK, RestartKiosk
    PROVE  /\ kiosk' = IF marker THEN "up" ELSE "down"
           /\ wizard' \in {"none", "kiosk", "greetd"}
           /\ fresh' \in BOOLEAN /\ (marker => fresh') /\ (fresh => fresh')
  BY DEF TypeOK, RestartKiosk, KioskStarts, PageLost

LEMMA RestartGreetdType ==
    ASSUME TypeOK, RestartGreetd
    PROVE  /\ greetd' = IF marker THEN "down" ELSE "up"
           /\ wizard' \in {"none", "kiosk", "greetd"}
           /\ fresh' \in BOOLEAN /\ (~marker => fresh') /\ (fresh => fresh')
  BY DEF TypeOK, RestartGreetd, GreetdStarts, PageLost

LEMMA WantKioskType ==
    ASSUME TypeOK, WantKiosk
    PROVE  /\ kiosk' = IF marker \/ kiosk = "up" THEN "up" ELSE "down"
           /\ wizard' \in {"none", "kiosk", "greetd"}
           /\ fresh' \in BOOLEAN /\ (fresh => fresh')
           /\ marker /\ kiosk = "respawn" => fresh'
  <1>1. CASE kiosk = "up"
    BY <1>1 DEF TypeOK, WantKiosk
  <1>2. CASE kiosk # "up"
    BY <1>2, RestartKioskType DEF WantKiosk
  <1> QED
    BY <1>1, <1>2

LEMMA PageType ==
    ASSUME TypeOK, NEW u, wizard' = PageLost(u) PROVE wizard' \in {"none", "kiosk", "greetd"}
  BY DEF TypeOK, PageLost

-----------------------------------------------------------------------------
(* The session keeps its invariant, step by step.                          *)

LEMMA SessionInitInv == Init => SessionInv
  <1> SUFFICES ASSUME Init PROVE SessionInv
    OBVIOUS
  <1>1. TypeOK
    BY IdleType DEF Init, TypeOK, Place, KioskStarts, GreetdStarts
  <1>2. SeatInv /\ ResetInv /\ AnswersInv
    BY IdleType DEF Init, SeatInv, OneOwner, ResetInv, ConfiguredHasPin, AnswersInv,
                    KioskStarts, GreetdStarts
  <1> QED
    BY <1>1, <1>2 DEF SessionInv

LEMMA BootInv == ASSUME SessionInv, Boot PROVE SessionInv'
  <1>1. TypeOK'
    BY IdleType DEF SessionInv, TypeOK, Boot, Place, KioskStarts, GreetdStarts
  <1>2. SeatInv' /\ ResetInv' /\ AnswersInv'
    BY IdleType DEF SessionInv, Boot, SeatInv, OneOwner, ResetInv, ConfiguredHasPin,
                    AnswersInv, KioskStarts, GreetdStarts
  <1> QED
    BY <1>1, <1>2 DEF SessionInv

(* A step that moves the marker, the PIN or the reset keeps the types.      *)
LEMMA MarkerTypes ==
    ASSUME TypeOK, marker' \in BOOLEAN, pin' \in BOOLEAN, changed' \in BOOLEAN,
           reset' \in {"none", "unlinked", "cleared"},
           UNCHANGED <<kiosk, greetd, wizard, cmd, inst, fresh>>
    PROVE  TypeOK'
  <1>1. /\ kiosk' = kiosk /\ greetd' = greetd /\ wizard' = wizard
        /\ cmd' = cmd /\ inst' = inst /\ fresh' = fresh
    OBVIOUS
  <1> QED
    BY <1>1, Zenon DEF TypeOK

(* The two removals of a factory reset: the marker is gone before the PIN. *)
LEMMA UnlinksInv == ASSUME SessionInv, ResetUnlinks PROVE SessionInv'
  <1>1. marker' = FALSE /\ changed' = TRUE /\ pin' = pin
    BY DEF ResetUnlinks, Unlink, Unlinking
  <1>2. reset' = "unlinked" /\ UNCHANGED <<kiosk, greetd, wizard, cmd, inst, fresh>>
    BY DEF ResetUnlinks
  <1>3. TypeOK /\ pin' \in BOOLEAN
    BY <1>1 DEF SessionInv, TypeOK
  <1>4. marker' \in BOOLEAN /\ changed' \in BOOLEAN
    BY <1>1
  <1>5. TypeOK'
    BY <1>2, <1>3, <1>4, MarkerTypes
  <1>6. SeatInv' /\ ResetInv' /\ AnswersInv'
    BY <1>1, <1>2 DEF SeatInv, OneOwner, ResetInv, ConfiguredHasPin, AnswersInv
  <1> QED
    BY <1>5, <1>6 DEF SessionInv

LEMMA ClearsInv == ASSUME SessionInv, ResetClears PROVE SessionInv'
  <1>1. pin' = FALSE /\ marker' = marker /\ changed' = changed
    BY DEF ResetClears, Unlink, Unlinking
  <1>2. /\ reset = "unlinked" /\ reset' = "cleared"
        /\ UNCHANGED <<kiosk, greetd, wizard, cmd, inst, fresh>>
    BY DEF ResetClears
  <1>3. TypeOK /\ marker' \in BOOLEAN /\ changed' \in BOOLEAN
    BY <1>1 DEF SessionInv, TypeOK
  <1>4. pin' \in BOOLEAN
    BY <1>1
  <1>5. TypeOK'
    BY <1>2, <1>3, <1>4, MarkerTypes
  <1>6. ~marker
    BY <1>2 DEF SessionInv, ResetInv
  <1>7. SeatInv'
    BY <1>1, <1>2 DEF SessionInv, SeatInv, OneOwner
  <1>8. ResetInv'
    BY <1>1, <1>6 DEF ResetInv, ConfiguredHasPin
  <1>9. AnswersInv'
    BY <1>1, <1>2 DEF SessionInv, AnswersInv
  <1> QED
    BY <1>5, <1>7, <1>8, <1>9 DEF SessionInv

(* The wizard and the factory reset: the marker moves, or nothing that     *)
(* matters to the units does.                                              *)
LEMMA SetupInv ==
    ASSUME SessionInv,
           Finalize \/ FinalizeCut \/ WizardGivesUp \/ ResetUnlinks \/ ResetClears \/ ResetFails
    PROVE  SessionInv'
  <1> USE DEF SessionInv, SeatInv, OneOwner, ResetInv, ConfiguredHasPin, AnswersInv
  <1>1. CASE Finalize
    BY <1>1 DEF Finalize, TypeOK
  <1>2. CASE FinalizeCut
    BY <1>2 DEF FinalizeCut, TypeOK
  <1>3. CASE WizardGivesUp
    BY <1>3 DEF WizardGivesUp, TypeOK
  <1>4. CASE ResetUnlinks
    BY <1>4, UnlinksInv
  <1>5. CASE ResetClears
    BY <1>5, ClearsInv
  <1>6. CASE ResetFails
    BY <1>6 DEF ResetFails, TypeOK
  <1> QED
    BY <1>1, <1>2, <1>3, <1>4, <1>5, <1>6

(* The units die, respawn and are restarted, each by its own condition.    *)
LEMMA UnitsInv ==
    ASSUME SessionInv,
           \/ KioskDies \/ KioskRespawns \/ GreetdSwayDies \/ GestureRestarts \/ AdminRestarts
           \/ WatchdogSoftHeal
    PROVE  SessionInv'
  <1> USE DEF SessionInv, SeatInv, OneOwner, ResetInv, ConfiguredHasPin, AnswersInv
  <1>1. CASE KioskDies
    BY <1>1, PageType DEF KioskDies, TypeOK
  <1>2. CASE KioskRespawns
    BY <1>2, RestartKioskType DEF KioskRespawns, TypeOK
  <1>3. CASE GreetdSwayDies
    BY <1>3, PageType DEF GreetdSwayDies, TypeOK
  <1>4. CASE GestureRestarts
    BY <1>4, WantKioskType DEF GestureRestarts, TypeOK
  <1>5. CASE AdminRestarts
    BY <1>5, RestartKioskType DEF AdminRestarts, TypeOK
  <1>6. CASE WatchdogSoftHeal
    BY <1>6, RestartGreetdType DEF WatchdogSoftHeal, TypeOK
  <1> QED
    BY <1>1, <1>2, <1>3, <1>4, <1>5, <1>6

(* The fleet's restart_kiosk.                                              *)
LEMMA CommandInv ==
    ASSUME SessionInv,
           \/ CmdAsksKiosk \/ CmdAsksGreetd \/ CmdDropsGreetd \/ CmdRestartsKiosk
           \/ CmdRestartsGreetd \/ CmdKioskFails \/ CmdFallsBack
    PROVE  SessionInv'
  <1> USE IdleType DEF SessionInv, SeatInv, OneOwner, ResetInv, ConfiguredHasPin, AnswersInv
  <1>1. CASE CmdAsksKiosk
    <2>1. TypeOK'
      BY <1>1, AskedKiosk DEF CmdAsksKiosk, TypeOK, Place
    <2>2. /\ UNCHANGED <<marker, pin, changed, kiosk, greetd, wizard, reset, inst>>
          /\ cmd'.at = "ask" /\ cmd'.kiosk = (kiosk = "up") /\ ~cmd'.greetd
      BY <1>1, AskedKiosk DEF CmdAsksKiosk
    <2> QED
      BY <2>1, <2>2
  <1>2. CASE CmdAsksGreetd
    <2>1. TypeOK'
      BY <1>2, AskedGreetd DEF CmdAsksGreetd, TypeOK, Place
    <2>2. /\ UNCHANGED <<marker, pin, changed, kiosk, greetd, wizard, reset, inst, fresh>>
          /\ cmd'.at = "act" /\ cmd'.kiosk = cmd.kiosk /\ cmd'.greetd = (greetd = "up")
      BY <1>2, AskedGreetd DEF CmdAsksGreetd
    <2>3. cmd.kiosk \in BOOLEAN
      BY DEF TypeOK
    <2> QED
      BY <2>1, <2>2, <2>3
  <1>3. CASE CmdDropsGreetd
    <2>1. /\ cmd' \in [at : Place, kiosk : BOOLEAN, greetd : BOOLEAN]
          /\ cmd'.at = "kick" /\ cmd'.kiosk = cmd.kiosk /\ cmd'.greetd = cmd.greetd
      BY <1>3, CmdType DEF CmdDropsGreetd, Place
    <2>2. greetd' = "down" /\ wizard' \in {"none", "kiosk", "greetd"}
      BY <1>3, PageType DEF CmdDropsGreetd, StopGreetd
    <2> QED
      BY <1>3, <2>1, <2>2 DEF CmdDropsGreetd, TypeOK, Place
  <1>4. CASE CmdRestartsKiosk
    BY <1>4, RestartKioskType DEF CmdRestartsKiosk, TypeOK, Place
  <1>5. CASE CmdRestartsGreetd
    BY <1>5, RestartGreetdType DEF CmdRestartsGreetd, TypeOK, Place
  <1>6. CASE CmdKioskFails
    <2>1. /\ cmd' \in [at : Place, kiosk : BOOLEAN, greetd : BOOLEAN]
          /\ cmd'.at \in {"idle", "fallback"}
          /\ cmd'.greetd => cmd.greetd
      BY <1>6, CmdType DEF CmdKioskFails, Place
    <2>2. kiosk' = "respawn" /\ wizard' \in {"none", "kiosk", "greetd"}
      BY <1>6, PageType DEF CmdKioskFails
    <2> QED
      BY <1>6, <2>1, <2>2 DEF CmdKioskFails, TypeOK, Place
  <1>7. CASE CmdFallsBack
    BY <1>7, RestartGreetdType DEF CmdFallsBack, TypeOK, Place
  <1> QED
    BY <1>1, <1>2, <1>3, <1>4, <1>5, <1>6, <1>7

(* install.sh.                                                             *)
LEMMA InstallInv ==
    ASSUME SessionInv,
           InstChecks \/ InstStopsGreetd \/ InstRestartsDaemons \/ InstRestartsGesture
    PROVE  SessionInv'
  <1> USE DEF SessionInv, SeatInv, OneOwner, ResetInv, ConfiguredHasPin, AnswersInv
  <1>1. CASE InstChecks
    BY <1>1 DEF InstChecks, Both, TypeOK
  <1>2. CASE InstStopsGreetd
    <2>1. greetd' = "down" /\ wizard' \in {"none", "kiosk", "greetd"}
      BY <1>2, PageType DEF InstStopsGreetd, StopGreetd
    <2> QED
      BY <1>2, <2>1 DEF InstStopsGreetd, TypeOK
  <1>3. CASE InstRestartsDaemons
    BY <1>3, IdleType DEF InstRestartsDaemons, TypeOK, Place
  <1>4. CASE InstRestartsGesture
    BY <1>4, WantKioskType DEF InstRestartsGesture, TypeOK
  <1> QED
    BY <1>1, <1>2, <1>3, <1>4

LEMMA SessionStepInv == ASSUME SessionInv, [Next]_vars PROVE SessionInv'
  <1>1. CASE UNCHANGED vars
    BY <1>1 DEF vars, SessionInv, TypeOK, SeatInv, OneOwner, ResetInv, ConfiguredHasPin, AnswersInv
  <1>2. CASE Reboot \/ WizardReboot \/ ResetReboots \/ WatchdogReboots
    BY <1>2, BootInv DEF Reboot, WizardReboot, ResetReboots, WatchdogReboots
  <1> QED
    BY <1>1, <1>2, SetupInv, UnitsInv, CommandInv, InstallInv DEF Next

LEMMA SessionInvHolds == Spec => []SessionInv
  BY SessionInitInv, SessionStepInv, PTL DEF Spec

-----------------------------------------------------------------------------
(* The box runs the session: every step of a command, of a root unit, of a *)
(* kill or of a boot is one of SessionOwner or none.                       *)
LEMMA BoxStepsSession == ASSUME [BoxNext]_boxVars PROVE [Next]_vars
  <1>1. CASE RestartCommand \/ RestartForAssignment
    BY <1>1 DEF RestartCommand, RestartForAssignment, Next
  <1>2. CASE RestartStep
    BY <1>2 DEF RestartStep, CmdStep, Next
  <1>3. CASE ExecuteStep \/ UnitStep
    BY <1>3 DEF ExecuteStep, UnitStep
  <1>4. CASE Booted \/ Updated
    BY <1>4 DEF Booted, Updated, Next
  <1>5. CASE Others
    BY <1>5 DEF Others, Next
  <1>6. CASE UNCHANGED boxVars
    BY <1>6 DEF boxVars
  <1> QED
    BY <1>1, <1>2, <1>3, <1>4, <1>5, <1>6 DEF BoxNext

(* The commands of the fleet, the root units they start and the kills of   *)
(* the heartbeat make no step that SessionOwner does not have.             *)
THEOREM BoxRunsTheSession == BoxSpec => Spec
  <1>1. BoxInit => Init
    BY DEF BoxInit
  <1>2. [BoxNext]_boxVars => [Next]_vars
    BY BoxStepsSession
  <1> QED
    BY <1>1, <1>2, PTL DEF BoxSpec, Spec

(* While the marker has not moved since the boot exactly one unit has the  *)
(* seat, the one the marker names, whoever restarts what in which order.   *)
THEOREM SeatHasOneOwner == BoxSpec => []OneOwner
  <1>1. SessionInv => OneOwner
    BY DEF SessionInv, SeatInv
  <1> QED
    BY <1>1, BoxRunsTheSession, SessionInvHolds, PTL

(* A box that is configured has a PIN, at every step of finalize and of a  *)
(* factory reset.                                                          *)
THEOREM PinBeforeMarker == BoxSpec => []ConfiguredHasPin
  <1>1. SessionInv => ConfiguredHasPin
    BY DEF SessionInv, ResetInv
  <1> QED
    BY <1>1, BoxRunsTheSession, SessionInvHolds, PTL

(* restart_kiosk does not end over an untouched session, unless the        *)
(* installer kills it or the marker moves.                                 *)
LEMMA EndsRestarted ==
    ASSUME SessionInv, [Next]_vars, cmd.at # "idle", cmd' = Idle, inst' = inst,
           ~changed, ~changed'
    PROVE  fresh' \/ kiosk' = "respawn"
  <1> USE DEF SessionInv
  <1>1. cmd' # cmd /\ cmd'.at = "idle"
    BY IdleType
  <1>2. CASE Reboot \/ WizardReboot \/ ResetReboots \/ WatchdogReboots
    BY <1>2 DEF Reboot, WizardReboot, ResetReboots, WatchdogReboots, Boot
  <1>3. CASE CmdAsksKiosk \/ CmdAsksGreetd
    BY <1>1, <1>3, AskedKiosk, AskedGreetd
  <1>4. CASE CmdDropsGreetd
    BY <1>1, <1>4, CmdType DEF CmdDropsGreetd, Place
  <1>5. CASE CmdRestartsKiosk
    BY <1>5, RestartKioskType DEF CmdRestartsKiosk, AnswersInv
  <1>6. CASE CmdRestartsGreetd
    BY <1>6, RestartGreetdType DEF CmdRestartsGreetd, AnswersInv
  <1>7. CASE CmdKioskFails
    BY <1>7 DEF CmdKioskFails
  <1>8. CASE CmdFallsBack
    BY <1>8, RestartGreetdType DEF CmdFallsBack, AnswersInv
  <1>9. CASE InstRestartsDaemons
    BY <1>9 DEF InstRestartsDaemons
  <1>10. CASE cmd' = cmd
    BY <1>1, <1>10
  <1> QED
    BY <1>2, <1>3, <1>4, <1>5, <1>6, <1>7, <1>8, <1>9, <1>10
    DEF Next, vars, Finalize, FinalizeCut, WizardGivesUp, ResetUnlinks, ResetClears, ResetFails,
        KioskDies, KioskRespawns, GreetdSwayDies, GestureRestarts, AdminRestarts,
        InstChecks, InstStopsGreetd, InstRestartsGesture, WatchdogSoftHeal

(* A restart_kiosk that ends has given the screen a new compositor or left *)
(* the unit to systemd's retry: what it was told is still true, so it      *)
(* never restarts a unit that its condition skips.                         *)
THEOREM RestartsAreReal == BoxSpec => RestartRestarts
  <1>1. SessionInv /\ [Next]_vars =>
          [cmd.at # "idle" /\ cmd' = Idle /\ inst' = inst /\ ~changed /\ ~changed'
             => fresh' \/ kiosk' = "respawn"]_vars
    BY EndsRestarted
  <1> QED
    BY <1>1, BoxRunsTheSession, SessionInvHolds, PTL DEF RestartRestarts, Spec

-----------------------------------------------------------------------------
(* The commands                                                            *)

Requesting == at \in {"staged", "started", "clean"}

(* Whose request is where: the one of the command that runs is in the file *)
(* from its staging to its removal and in the unit until that ends; a unit *)
(* with an older request is one the command has joined.                    *)
RequestInv ==
    /\ at = "idle" => cur = "none"
    /\ at \in {"staged", "started"} => cur \in Staged
    /\ \A k \in Staged :
          /\ file[k] = "mine" => cur = k /\ Requesting
          /\ unit[k] = "mine" => cur = k /\ at \in {"staged", "started"}
          /\ cur = k /\ Requesting => file[k] # "old"
          /\ cur = k /\ at = "started" /\ unit[k] = "old" => joined
          /\ cur = k /\ at = "clean" => unit[k] = "off"
    /\ at \in {"clean", "report"} /\ ok /\ cur \in Staged => did \/ joined

(* CommandTypeOK in two parts: what a command is doing, and its files.     *)
ExecutorOK ==
    /\ at \in {"idle", "staged", "started", "session", "clean", "report", "reboot"}
    /\ cur \in Kind \cup {"none"}
    /\ ok \in BOOLEAN /\ did \in BOOLEAN /\ joined \in BOOLEAN /\ cut \in BOOLEAN

FilesOK ==
    /\ file \in [Staged -> {"none", "mine", "old"}]
    /\ unit \in [Staged -> {"off", "on", "mine", "old"}]

CommandInvs ==
    /\ batch \in Seq(Kind) /\ ExecutorOK /\ FilesOK
    /\ RequestInv /\ NoCredentialLeft

LEMMA CommandTypes == CommandInvs => CommandTypeOK
  BY DEF CommandInvs, ExecutorOK, FilesOK, RequestInv, CommandTypeOK

LEMMA CommandInitInv == CommandInit => CommandInvs
  <1> SUFFICES ASSUME CommandInit PROVE CommandInvs
    OBVIOUS
  <1>0. batch \in Seq(Kind)
    BY DEF CommandInit
  <1>1. ExecutorOK /\ FilesOK
    BY DEF CommandInit, ExecutorOK, FilesOK
  <1>2. RequestInv /\ NoCredentialLeft
    BY DEF CommandInit, RequestInv, Requesting, NoCredentialLeft, Staged
  <1> QED
    BY <1>0, <1>1, <1>2 DEF CommandInvs

(* A command is taken: nothing of an earlier one is in its hands.          *)
LEMMA Taken ==
    ASSUME CommandInvs, NEW c \in Kind, Take(c)
    PROVE  /\ batch' \in Seq(Kind)
           /\ at = "idle" /\ cur = "none" /\ cur' = c
           /\ ok' = FALSE /\ did' = FALSE /\ joined' = FALSE
           /\ \A k \in Staged : file[k] # "mine" /\ unit[k] # "mine"
           /\ file["reset_access"] # "none" => cut
  <1>1. batch' \in Seq(Kind)
    BY DEF CommandInvs, Take
  <1>2. at = "idle" /\ cur = "none" /\ cur' = c /\ ok' = FALSE /\ did' = FALSE /\ joined' = FALSE
    BY DEF CommandInvs, RequestInv, Take
  <1>3. \A k \in Staged : file[k] # "mine" /\ unit[k] # "mine"
    BY <1>2 DEF CommandInvs, RequestInv, Requesting
  <1>4. file["reset_access"] # "none" => cut
    BY <1>2 DEF CommandInvs, NoCredentialLeft
  <1> QED
    BY <1>1, <1>2, <1>3, <1>4

(* The commands that stage nothing, and those that are refused.            *)
LEMMA PlainInv ==
    ASSUME CommandInvs, NEW c \in Kind, Take(c), UNCHANGED <<file, unit, cut>>,
           \/ at' = "clean" /\ c = "other"
           \/ at' = "report"
           \/ at' = "session" /\ c = "restart_kiosk"
           \/ at' = "reboot"
    PROVE  CommandInvs'
  <1>1. batch' \in Seq(Kind) /\ ExecutorOK' /\ FilesOK'
    BY Taken DEF CommandInvs, ExecutorOK, FilesOK
  <1>2. RequestInv' /\ NoCredentialLeft'
    BY Taken DEF RequestInv, Requesting, NoCredentialLeft, Staged
  <1> QED
    BY <1>1, <1>2 DEF CommandInvs

LEMMA StageInv ==
    ASSUME CommandInvs, NEW k \in Staged, Stage(k) \/ CannotStage(k) PROVE CommandInvs'
  <1>1. k \in Kind /\ Take(k)
    BY DEF Stage, CannotStage, Kind
  <1>2. PICK f \in {"mine", "old"} : file' = [file EXCEPT ![k] = f] /\ unit' = unit
    BY DEF Stage, CannotStage
  <1>3. FilesOK' /\ \A j \in Staged : file'[j] = IF j = k THEN f ELSE file[j]
    BY <1>2 DEF CommandInvs, FilesOK
  <1>4. batch' \in Seq(Kind)
    BY <1>1, Taken
  <1>5. CASE Stage(k)
    <2>1. at' = "staged" /\ f = "mine" /\ cut' = (cut /\ k # "reset_access")
      BY <1>2, <1>5 DEF Stage, CommandInvs, FilesOK
    <2>2. ExecutorOK'
      BY <1>1, <2>1, Taken DEF CommandInvs, ExecutorOK
    <2>3. RequestInv' /\ NoCredentialLeft'
      BY <1>1, <1>2, <1>3, <2>1, Taken DEF RequestInv, Requesting, NoCredentialLeft, Staged
    <2> QED
      BY <1>3, <1>4, <2>2, <2>3 DEF CommandInvs
  <1>6. CASE CannotStage(k)
    <2>1. at' = "report" /\ f = "old" /\ cut' = (cut \/ k = "reset_access")
      BY <1>2, <1>6 DEF CannotStage, CommandInvs, FilesOK
    <2>2. ExecutorOK'
      BY <1>1, <2>1, Taken DEF CommandInvs, ExecutorOK
    <2>3. RequestInv' /\ NoCredentialLeft'
      BY <1>1, <1>2, <1>3, <2>1, Taken DEF RequestInv, Requesting, NoCredentialLeft, Staged
    <2> QED
      BY <1>3, <1>4, <2>2, <2>3 DEF CommandInvs
  <1> QED
    BY <1>5, <1>6

LEMMA StartInv == ASSUME CommandInvs, StartUnit PROVE CommandInvs'
  <1> USE DEF CommandInvs
  <1>1. cur \in Staged /\ UNCHANGED <<batch, cur, ok, did, file, cut>> /\ at = "staged" /\ at' = "started"
    BY DEF StartUnit, RequestInv
  <1>2. /\ FilesOK'
        /\ \A j \in Staged : unit'[j] = IF j = cur /\ unit[j] = "off" THEN "on" ELSE unit[j]
    BY <1>1 DEF StartUnit, FilesOK
  <1>3. joined' = (unit[cur] = "old")
    BY DEF StartUnit
  <1>4. ExecutorOK'
    BY <1>1, <1>3 DEF ExecutorOK
  <1>5. RequestInv' /\ NoCredentialLeft'
    BY <1>1, <1>2, <1>3 DEF RequestInv, Requesting, NoCredentialLeft
  <1> QED
    BY <1>1, <1>2, <1>4, <1>5

LEMMA ReadsInv == ASSUME CommandInvs, NEW k \in Staged, UnitReads(k) PROVE CommandInvs'
  <1> USE DEF CommandInvs
  <1>1. UNCHANGED <<batch, at, cur, ok, did, file, joined, cut>> /\ unit[k] = "on" /\ file[k] # "none"
    BY DEF UnitReads
  <1>2. FilesOK' /\ \A j \in Staged : unit'[j] = IF j = k THEN file[k] ELSE unit[j]
    BY <1>1 DEF UnitReads, FilesOK
  <1>3. ExecutorOK'
    BY <1>1 DEF ExecutorOK
  <1>4. RequestInv' /\ NoCredentialLeft'
    BY <1>1, <1>2 DEF RequestInv, Requesting, NoCredentialLeft
  <1> QED
    BY <1>1, <1>2, <1>3, <1>4

(* A unit ends: a command that waits for it goes on, with what the unit    *)
(* has done; did, file and cut are as the unit leaves them.                *)
LEMMA UnitEndsInv ==
    ASSUME CommandInvs, NEW k \in Staged, NEW success \in BOOLEAN, UnitEnds(k, success),
           unit[k] # "off",
           did' \in BOOLEAN, did => did', success => unit[k] \in {"mine", "old"},
           success /\ unit[k] = "mine" => did',
           file' = file \/ file' = Removed(k),
           cut' \in BOOLEAN, file'["reset_access"] # "none" => cut' = cut
    PROVE  CommandInvs'
  <1> USE DEF CommandInvs
  <1>1. /\ file' \in [Staged -> {"none", "mine", "old"}]
        /\ \A j \in Staged : file'[j] = file[j] \/ (j = k /\ file'[j] = "none")
    BY DEF FilesOK, Removed
  <1>2. /\ unit' \in [Staged -> {"off", "on", "mine", "old"}]
        /\ \A j \in Staged : unit'[j] = IF j = k THEN "off" ELSE unit[j]
    BY DEF FilesOK, UnitEnds
  <1>3. UNCHANGED <<batch, cur, joined>>
    BY DEF UnitEnds
  <1>4. CASE at = "started" /\ cur = k
    <2>1. ok' = success /\ at' = "clean"
      BY <1>4 DEF UnitEnds
    <2>2. ExecutorOK'
      BY <1>3, <2>1 DEF ExecutorOK
    <2>3. ok' => did' \/ joined'
      BY <1>3, <1>4, <2>1 DEF RequestInv
    <2>4. RequestInv' /\ NoCredentialLeft'
      BY <1>1, <1>2, <1>3, <1>4, <2>1, <2>3 DEF RequestInv, Requesting, NoCredentialLeft, Staged
    <2> QED
      BY <1>1, <1>2, <1>3, <2>2, <2>4 DEF FilesOK
  <1>5. CASE ~(at = "started" /\ cur = k)
    <2>1. UNCHANGED <<ok, at>>
      BY <1>5 DEF UnitEnds
    <2>2. ExecutorOK'
      BY <1>3, <2>1 DEF ExecutorOK
    <2>3. RequestInv' /\ NoCredentialLeft'
      BY <1>1, <1>2, <1>3, <1>5, <2>1 DEF RequestInv, Requesting, NoCredentialLeft, Staged
    <2> QED
      BY <1>1, <1>2, <1>3, <2>2, <2>3 DEF FilesOK
  <1> QED
    BY <1>4, <1>5

LEMMA UnitInv ==
    ASSUME CommandInvs, NEW k \in Staged, UnitActs(k) \/ UnitRefuses(k) \/ UnitKilled(k)
    PROVE  CommandInvs'
  <1>1. did \in BOOLEAN /\ cut \in BOOLEAN /\ FilesOK
    BY DEF CommandInvs, ExecutorOK
  <1>2. Removed("reset_access")["reset_access"] = "none"
    BY <1>1 DEF Removed, FilesOK, Staged
  <1>3. CASE UnitActs(k)
    <2>1. UnitEnds(k, TRUE) /\ unit[k] \in {"mine", "old"} /\ file' = Removed(k)
          /\ did' = (did \/ unit[k] = "mine") /\ cut' = (cut /\ k # "reset_access")
      BY <1>3 DEF UnitActs
    <2>2. cut' \in BOOLEAN /\ (file'["reset_access"] # "none" => cut' = cut)
      BY <1>1, <1>2, <2>1
    <2>3. did' \in BOOLEAN /\ (did => did') /\ (unit[k] = "mine" => did')
      BY <1>1, <2>1
    <2> QED
      BY <2>1, <2>2, <2>3, UnitEndsInv
  <1>4. CASE UnitRefuses(k)
    <2>1. UnitEnds(k, FALSE) /\ unit[k] # "off" /\ file' = Removed(k)
          /\ did' = did /\ cut' = (cut /\ k # "reset_access")
      BY <1>4 DEF UnitRefuses
    <2>2. cut' \in BOOLEAN /\ (file'["reset_access"] # "none" => cut' = cut)
      BY <1>1, <1>2, <2>1
    <2> QED
      BY <1>1, <2>1, <2>2, UnitEndsInv
  <1>5. CASE UnitKilled(k)
    <2>1. UnitEnds(k, FALSE) /\ unit[k] # "off" /\ (file' = file \/ file' = Removed(k))
          /\ did' \in {did, did \/ unit[k] = "mine"}
          /\ cut' = (cut /\ file'["reset_access"] # "none")
      BY <1>5 DEF UnitKilled
    <2>2. cut' \in BOOLEAN /\ (file'["reset_access"] # "none" => cut' = cut)
      BY <1>1, <2>1
    <2>3. did' \in BOOLEAN /\ (did => did')
      BY <1>1, <2>1
    <2> QED
      BY <2>1, <2>2, <2>3, UnitEndsInv
  <1> QED
    BY <1>3, <1>4, <1>5

(* The request is removed, the result is known.                            *)
LEMMA CleanInv == ASSUME CommandInvs, CleanUp PROVE CommandInvs'
  <1> USE DEF CommandInvs
  <1>1. /\ at = "clean" /\ at' = "report" /\ UNCHANGED <<batch, cur, did, unit, joined>>
        /\ cut' = (cut /\ cur # "reset_access")
    BY DEF CleanUp
  <1>2. CASE cur \in Staged
    <2>1. file' = Removed(cur) /\ (ok' => ok) /\ ok' \in BOOLEAN
      BY <1>2 DEF CleanUp, CleanedUp, ExecutorOK
    <2>2. FilesOK' /\ \A j \in Staged : file'[j] = IF j = cur THEN "none" ELSE file[j]
      BY <1>1, <2>1 DEF FilesOK, Removed
    <2>3. ExecutorOK'
      BY <1>1, <2>1 DEF ExecutorOK
    <2>4. RequestInv' /\ NoCredentialLeft'
      BY <1>1, <1>2, <2>1, <2>2 DEF RequestInv, Requesting, NoCredentialLeft, Staged
    <2> QED
      BY <1>1, <2>2, <2>3, <2>4
  <1>3. CASE cur \notin Staged
    <2>1. file' = file /\ ok' \in BOOLEAN
      BY <1>3 DEF CleanUp
    <2>2. FilesOK' /\ ExecutorOK'
      BY <1>1, <2>1 DEF FilesOK, ExecutorOK
    <2>3. RequestInv' /\ NoCredentialLeft'
      BY <1>1, <1>3, <2>1 DEF RequestInv, Requesting, NoCredentialLeft, Staged
    <2> QED
      BY <1>1, <2>2, <2>3
  <1> QED
    BY <1>2, <1>3

(* The ends of a command and the arrival of an answer.                     *)
LEMMA TurnInv == ASSUME CommandInvs, Receive \/ Report \/ RebootFails PROVE CommandInvs'
  <1> USE DEF CommandInvs
  <1>1. CASE Receive
    <2>1. batch' \in Seq(Kind) /\ UNCHANGED <<at, cur, ok, did, file, unit, joined, cut>>
      BY <1>1, AnswersAssumption DEF Receive
    <2> QED
      BY <2>1 DEF ExecutorOK, FilesOK, RequestInv, Requesting, NoCredentialLeft
  <1>2. CASE Report
    <2>1. batch' \in Seq(Kind) /\ ExecutorOK' /\ FilesOK'
      BY <1>2 DEF Report, ExecutorOK, FilesOK
    <2>2. RequestInv' /\ NoCredentialLeft'
      BY <1>2 DEF Report, RequestInv, Requesting, NoCredentialLeft
    <2> QED
      BY <2>1, <2>2
  <1>3. CASE RebootFails
    <2>1. batch' \in Seq(Kind)
      BY <1>3 DEF RebootFails
    <2>2. ExecutorOK' /\ FilesOK'
      BY <1>3 DEF RebootFails, ExecutorOK, FilesOK
    <2>3. RequestInv' /\ NoCredentialLeft'
      BY <1>3 DEF RebootFails, RequestInv, Requesting, NoCredentialLeft
    <2> QED
      BY <2>1, <2>2, <2>3
  <1> QED
    BY <1>1, <1>2, <1>3

(* The heartbeat is killed or the box boots: what was the command's own is *)
(* an earlier heartbeat's now.                                             *)
LEMMA ForgetInv == ASSUME CommandInvs, HeartbeatKilled \/ Rebooted PROVE CommandInvs'
  <1> USE DEF CommandInvs
  <1>1. Forget
    BY DEF HeartbeatKilled, Rebooted
  <1>2. /\ file' \in [Staged -> {"none", "mine", "old"}]
        /\ \A k \in Staged : file'[k] # "mine" /\ (file'[k] = "none" <=> file[k] = "none")
    BY <1>1 DEF Forget, Forgotten, FilesOK
  <1>3. /\ unit' \in [Staged -> {"off", "on", "mine", "old"}]
        /\ \A k \in Staged : unit'[k] # "mine"
    BY DEF HeartbeatKilled, Rebooted, Forgotten, FilesOK
  <1>4. /\ batch' = <<>> /\ at' = "idle" /\ cur' = "none"
        /\ ok' = FALSE /\ did' = FALSE /\ joined' = FALSE
        /\ cut' = (file["reset_access"] # "none")
    BY <1>1 DEF Forget
  <1>5. batch' \in Seq(Kind)
    BY <1>4
  <1>6. ExecutorOK' /\ FilesOK'
    BY <1>2, <1>3, <1>4 DEF ExecutorOK, FilesOK
  <1>7. RequestInv' /\ NoCredentialLeft'
    BY <1>2, <1>3, <1>4 DEF RequestInv, Requesting, NoCredentialLeft, Staged
  <1> QED
    BY <1>5, <1>6, <1>7

LEMMA ExecuteInv == ASSUME CommandInvs, Execute PROVE CommandInvs'
  <1>1. CASE RunOther
    BY <1>1, PlainInv DEF RunOther, Kind
  <1>2. CASE Refuse
    <2>1. PICK k \in Staged : Take(k)
      BY <1>2 DEF Refuse
    <2>2. k \in Kind
      BY DEF Kind
    <2> QED
      BY <1>2, <2>1, <2>2, PlainInv DEF Refuse
  <1>3. CASE TakeReboot
    BY <1>3, PlainInv DEF TakeReboot, Kind
  <1> QED
    BY <1>1, <1>2, <1>3, StartInv, CleanInv, TurnInv, StageInv, ReadsInv, UnitInv DEF Execute

-----------------------------------------------------------------------------
(* The box: commands, units and session together.                          *)

(* A restart_kiosk under way is one that systemd is being asked for.       *)
RestartInv == at = "session" => cur = "restart_kiosk" /\ cmd # Idle

LEMMA BoxStepsCommands == ASSUME CommandInvs, RestartInv, [BoxNext]_boxVars PROVE CommandInvs'
  <1>1. CASE RestartCommand
    BY <1>1, PlainInv DEF RestartCommand, Kind
  <1>2. CASE RestartStep
    <2>1. at' = (IF at = "session" /\ cmd' = Idle THEN "clean" ELSE at)
          /\ UNCHANGED <<batch, cur, ok, did, file, unit, joined, cut>>
      BY <1>2 DEF RestartStep
    <2>2. CASE at' = at
      BY <2>1, <2>2 DEF CommandInvs, ExecutorOK, FilesOK, RequestInv, Requesting, NoCredentialLeft
    <2>3. CASE at = "session" /\ at' = "clean"
      <3>1. cur \notin Staged
        BY <2>3 DEF RestartInv, Staged
      <3>2. ExecutorOK' /\ FilesOK' /\ batch' = batch
        BY <2>1, <2>3 DEF CommandInvs, ExecutorOK, FilesOK
      <3>3. RequestInv' /\ NoCredentialLeft'
        BY <2>1, <2>3, <3>1 DEF CommandInvs, RequestInv, Requesting, NoCredentialLeft
      <3> QED
        BY <3>2, <3>3 DEF CommandInvs
    <2> QED
      BY <2>1, <2>2, <2>3
  <1>3. CASE ExecuteStep
    BY <1>3, ExecuteInv DEF ExecuteStep
  <1>4. CASE UnitStep
    BY <1>4, ReadsInv, UnitInv DEF UnitStep
  <1>5. CASE Booted \/ Updated
    BY <1>5, ForgetInv DEF Booted, Updated
  <1>6. CASE UNCHANGED commandVars
    BY <1>6 DEF commandVars, CommandInvs, ExecutorOK, FilesOK, RequestInv, Requesting, NoCredentialLeft
  <1> QED
    BY <1>1, <1>2, <1>3, <1>4, <1>5, <1>6 DEF BoxNext, RestartForAssignment, Others, boxVars

LEMMA RestartStepInv == ASSUME CommandInvs, RestartInv, [BoxNext]_boxVars PROVE RestartInv'
  <1>1. CASE RestartCommand
    <2>1. cur' = "restart_kiosk"
      BY <1>1 DEF RestartCommand, Take
    <2>2. cmd'.at = "ask"
      BY <1>1, AskedKiosk DEF RestartCommand
    <2> QED
      BY <2>1, <2>2, IdleType DEF RestartInv
  <1>2. CASE RestartStep
    BY <1>2 DEF RestartStep, RestartInv
  <1>3. CASE RestartForAssignment
    BY <1>3 DEF RestartForAssignment, commandVars, RestartInv
  <1>4. CASE ExecuteStep
    <2>1. at' # "session"
      BY <1>4 DEF ExecuteStep, Execute, Receive, RunOther, Refuse, StartUnit, CleanUp, Report,
                  TakeReboot, RebootFails, Stage, CannotStage, UnitReads, UnitActs, UnitRefuses,
                  UnitKilled, UnitEnds
    <2> QED
      BY <2>1 DEF RestartInv
  <1>5. CASE UnitStep
    BY <1>5 DEF UnitStep, UnitReads, UnitActs, UnitRefuses, UnitKilled, UnitEnds, vars, RestartInv
  <1>6. CASE Booted \/ Updated
    BY <1>6 DEF Booted, Updated, Rebooted, HeartbeatKilled, Forget, RestartInv
  <1>7. CASE Others
    BY <1>7 DEF Others, commandVars, RestartInv, Finalize, FinalizeCut, WizardGivesUp,
                ResetUnlinks, ResetClears, ResetFails, KioskDies, KioskRespawns, GreetdSwayDies,
                GestureRestarts, AdminRestarts, InstChecks, InstStopsGreetd,
                InstRestartsGesture, WatchdogSoftHeal
  <1>8. CASE UNCHANGED boxVars
    BY <1>8 DEF boxVars, vars, commandVars, RestartInv
  <1> QED
    BY <1>1, <1>2, <1>3, <1>4, <1>5, <1>6, <1>7, <1>8 DEF BoxNext

LEMMA CommandInvsHold == BoxSpec => [](CommandInvs /\ RestartInv)
  <1>1. BoxInit => CommandInvs /\ RestartInv
    BY CommandInitInv DEF BoxInit, CommandInit, RestartInv
  <1>2. CommandInvs /\ RestartInv /\ [BoxNext]_boxVars => CommandInvs' /\ RestartInv'
    BY BoxStepsCommands, RestartStepInv
  <1> QED
    BY <1>1, <1>2, PTL DEF BoxSpec

(* Session, commands, files and root units keep their types; a restart     *)
(* among the commands is one the session module is busy with.              *)
THEOREM BoxTypeCorrect == BoxSpec => []BoxTypeOK
  <1>1. SessionInv /\ CommandInvs /\ RestartInv => BoxTypeOK
    BY CommandTypes DEF SessionInv, RestartInv, BoxTypeOK
  <1> QED
    BY <1>1, BoxRunsTheSession, SessionInvHolds, CommandInvsHold, PTL

(* A staged command is reported done only if the root unit has acted on    *)
(* its request, or on the older one of a run that it joined; wherever      *)
(* heartbeat and unit are killed, and whatever an earlier heartbeat left.  *)
THEOREM DoneIsDone == BoxSpec => []DoneMeansDone
  <1>1. CommandInvs => DoneMeansDone
    BY DEF CommandInvs, RequestInv, DoneMeansDone
  <1> QED
    BY <1>1, CommandInvsHold, PTL

(* The staged credential is there only while its command runs, or after a  *)
(* kill or a staging that failed.                                          *)
THEOREM CredentialsRemoved == BoxSpec => []NoCredentialLeft
  <1>1. CommandInvs => NoCredentialLeft
    BY DEF CommandInvs
  <1> QED
    BY <1>1, CommandInvsHold, PTL
=============================================================================
