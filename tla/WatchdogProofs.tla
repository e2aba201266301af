--------------------------- MODULE WatchdogProofs ---------------------------
(***************************************************************************)
(* Theorems about Watchdog, for every value of the knobs.                  *)
(***************************************************************************)
EXTENDS Watchdog, TLAPS

(* The steps around the daemon.                                            *)
Surround ==
    \/ SessionStarts \/ ServerStarts
    \/ Breaks \/ Recovers \/ DaemonRestarts \/ OtherReboot \/ Finalize

(* Saturating at a limit stays within it and does not lose what matters.   *)
LEMMA AtMostFacts ==
  ASSUME NEW n \in Nat, NEW limit \in Nat
  PROVE  /\ AtMost(n, limit) \in 0..limit
         /\ AtMost(n, limit) <= n
         /\ n >= limit => AtMost(n, limit) = limit
         /\ n < limit => AtMost(n, limit) = n
BY DEF AtMost

(* The values of the clocks and counters after an interval.                *)
LEMMA NowType ==
  ASSUME TypeOK
  PROVE  /\ UptimeNow \in 0..EarliestReboot
         /\ RecordedNow \in 0..Cooldown /\ RestedNow \in 0..Cooldown
         /\ IdleNow \in 0..PageStale
         /\ BadNow \in 0..FullEscalation /\ Streak \in 0..FailThreshold
         /\ ProbesLeft \in 0..RecoveringProbes
BY KnobAssumption
   DEF TypeOK, UptimeNow, RecordedNow, RestedNow, IdleNow, BadNow, Streak,
       ProbesLeft, AtMost, EarliestReboot, FullEscalation

LEMMA ElapseType ==
  ASSUME TypeOK, Elapse
  PROVE  /\ uptime' \in 0..EarliestReboot /\ idle' \in 0..PageStale
         /\ recorded' \in 0..Cooldown /\ rested' \in 0..Cooldown
         /\ phase' \in 0..PowerEvery
BY NowType, EnvAssumption DEF TypeOK, Elapse

LEMMA BootType ==
  ASSUME TypeOK, Boot
  PROVE  /\ uptime' \in 0..EarliestReboot /\ idle' \in 0..PageStale
         /\ phase' \in 0..PowerEvery /\ bad' \in 0..FullEscalation
         /\ state' \in {"alive", "recovering"}
         /\ streak' \in 0..FailThreshold /\ probes' \in 0..RecoveringProbes
         /\ owner' \in {"greetd", "kiosk"} /\ configured' \in BOOLEAN
         /\ session' \in {"starting", "up", "wedged", "dead"}
         /\ server' \in {"starting", "up", "down"}
BY KnobAssumption, EnvAssumption DEF TypeOK, Boot, EarliestReboot, FullEscalation

LEMMA RecordType ==
  ASSUME TypeOK, Record PROVE recorded' \in 0..Cooldown /\ written' \in {"yes", "no"}
BY NowType, KnobAssumption DEF Record

LEMMA InitType == Init => TypeOK
BY KnobAssumption, EnvAssumption DEF Init, TypeOK, EarliestReboot, FullEscalation

LEMMA PollType == ASSUME TypeOK, Poll PROVE TypeOK'
<1> USE KnobAssumption, EnvAssumption
<1>1. CASE PollPass
  BY <1>1, ElapseType DEF TypeOK, PollPass, StreakAfterPass, stack, FullEscalation
<1>2. CASE PollObserve
  BY <1>2, ElapseType, NowType DEF TypeOK, PollObserve, Failing, stack
<1>3. CASE PollCount
  BY <1>3, ElapseType, NowType DEF TypeOK, PollCount, Failing, stack
<1>4. CASE PollSoftHeal
  BY <1>4, ElapseType, NowType DEF TypeOK, PollSoftHeal, Failing, SoftHealState
<1>5. CASE PollRecover
  BY <1>5, ElapseType, NowType DEF TypeOK, PollRecover, Failing, stack
<1>6. CASE PollBlocked
  BY <1>6, ElapseType, NowType DEF TypeOK, PollBlocked, Failing, stack
<1>7. CASE PollReboot
  BY <1>7, BootType, RecordType DEF TypeOK, PollReboot
<1>8. CASE PollRebootFails
  BY <1>8, NowType, RecordType DEF TypeOK, PollRebootFails, Failing, stack
<1> QED
  BY <1>1, <1>2, <1>3, <1>4, <1>5, <1>6, <1>7, <1>8 DEF Poll

LEMMA SurroundType == ASSUME TypeOK, Surround PROVE TypeOK'
<1> USE KnobAssumption, EnvAssumption
<1>1. CASE SessionStarts
  BY <1>1 DEF TypeOK, SessionStarts, daemon, clocks
<1>2. CASE ServerStarts
  BY <1>2 DEF TypeOK, ServerStarts, daemon
<1>3. CASE Breaks
  BY <1>3 DEF TypeOK, Breaks, daemon, clocks
<1>4. CASE Recovers
  BY <1>4 DEF TypeOK, Recovers, daemon
<1>5. CASE DaemonRestarts
  BY <1>5 DEF TypeOK, DaemonRestarts, stack, clocks
<1>6. CASE OtherReboot
  BY <1>6, BootType DEF TypeOK, OtherReboot
<1>7. CASE Finalize
  BY <1>7 DEF TypeOK, Finalize, daemon, clocks
<1> QED
  BY <1>1, <1>2, <1>3, <1>4, <1>5, <1>6, <1>7 DEF Surround

LEMMA StutterType == ASSUME TypeOK, UNCHANGED vars PROVE TypeOK'
BY DEF TypeOK, vars, daemon, stack, clocks

(* Type correctness, whatever the knobs and the faults.                    *)
THEOREM TypeCorrect == Spec => []TypeOK
<1>1. TypeOK /\ [Next]_vars => TypeOK'
  BY PollType, SurroundType, StutterType DEF Next, Surround
<1> QED
  BY InitType, <1>1, PTL DEF Spec

-----------------------------------------------------------------------------
(* The age on record never exceeds the time since the watchdog rebooted,   *)
(* so a cooldown that is over by the record is over indeed.                *)
RecordInv == TypeOK /\ (written = "yes" => recorded <= rested)

LEMMA RecordStep ==
  ASSUME RecordInv, [Next]_vars
  PROVE  RecordInv'
<1> USE KnobAssumption DEF RecordInv
<1>0. TypeOK'
  BY PollType, SurroundType, StutterType DEF Next, Surround
<1>1. written = "yes" => RecordedNow <= RestedNow
  BY DEF TypeOK, RecordedNow, RestedNow, AtMost
<1>2. ASSUME Elapse, written' = written PROVE written' = "yes" => recorded' <= rested'
  BY <1>1, <1>2 DEF Elapse
<1>3. ASSUME Record PROVE written' = "yes" => recorded' = 0
  BY <1>3 DEF Record
<1>4. CASE Poll
  <2>1. CASE PollReboot
    BY <2>1, <1>0, <1>3 DEF PollReboot
  <2>2. CASE PollRebootFails
    BY <2>2, <1>0, <1>3, NowType DEF PollRebootFails
  <2>3. CASE ~PollReboot /\ ~PollRebootFails
    BY <2>3, <1>4, <1>0, <1>2
       DEF Poll, PollPass, PollObserve, PollCount, PollSoftHeal, PollRecover, PollBlocked
  <2> QED
    BY <2>1, <2>2, <2>3
<1>5. CASE UNCHANGED <<recorded, rested, written>>
  BY <1>5, <1>0
<1> QED
  BY <1>4, <1>5
     DEF Next, SessionStarts, ServerStarts, Breaks, Recovers, DaemonRestarts,
         OtherReboot, Finalize, clocks, vars

(* "cap: at most 1 reboot per REBOOT_COOLDOWN_SEC", for every cooldown,    *)
(* over boots, other reboots and restarts of the daemon, as long as the    *)
(* record can be written.                                                  *)
THEOREM CooldownRespected == Spec => RebootCapped
<1>1. Init => RecordInv
  BY InitType, KnobAssumption DEF Init, RecordInv
<1>2. RecordInv /\ [Next]_vars => RecordInv'
  BY RecordStep
<1>3. RecordInv /\ [Next]_vars => [PollReboot /\ written = "yes" => RestedNow >= Cooldown]_vars
  <2> SUFFICES ASSUME RecordInv, PollReboot, written = "yes" PROVE RestedNow >= Cooldown
    OBVIOUS
  <2> QED
    BY KnobAssumption
       DEF RecordInv, TypeOK, PollReboot, RebootAllowed, RecordedNow, RestedNow, AtMost
<1> QED
  BY <1>1, <1>2, <1>3, PTL DEF Spec, RebootCapped

-----------------------------------------------------------------------------
(* How far the escalation is, told by what was observed: the failed polls  *)
(* in a row cover the streak, and from the soft heal on the threshold and  *)
(* the probes used up; the uptime covers the grace and the probes.         *)
EscalationInv ==
    /\ TypeOK
    /\ streak <= bad
    /\ state = "recovering" =>
          /\ bad + probes >= FullEscalation
          /\ uptime + probes >= EarliestReboot

LEMMA EscalationPoll ==
  ASSUME EscalationInv, Poll
  PROVE  EscalationInv'
<1> USE KnobAssumption DEF EscalationInv
<1>0. TypeOK'
  BY PollType
<1>1. CASE PollPass
  BY <1>1, <1>0 DEF PollPass, StreakAfterPass, TypeOK
<1>2. Streak <= BadNow
  BY DEF TypeOK, Streak, BadNow, AtMost, FullEscalation
<1>3. ASSUME Elapse, Failing, streak' = Streak, state' = state, probes' = probes
      PROVE  EscalationInv'
  BY <1>0, <1>2, <1>3
     DEF TypeOK, Elapse, Failing, BadNow, UptimeNow, AtMost, FullEscalation, EarliestReboot
<1>4. CASE PollObserve \/ PollCount
  BY <1>3, <1>4 DEF PollObserve, PollCount
<1>5. CASE PollSoftHeal
  <2>1. streak + 1 >= FailThreshold /\ UptimeNow >= BootGrace
    BY <1>5 DEF PollSoftHeal, Streak, AtMost, Observing, TypeOK, UptimeNow, EarliestReboot
  <2>2. bad' + probes' >= FullEscalation
    BY <1>5, <2>1 DEF PollSoftHeal, Failing, BadNow, AtMost, FullEscalation, TypeOK
  <2>3. uptime' + probes' >= EarliestReboot
    BY <1>5, <2>1, NowType DEF PollSoftHeal, Elapse, EarliestReboot
  <2> QED
    BY <1>0, <1>5, <2>2, <2>3 DEF PollSoftHeal, TypeOK
<1>6. CASE PollRecover
  <2>1. probes' = probes - 1 /\ probes > 0
    BY <1>6 DEF PollRecover, ProbesLeft, TypeOK
  <2> QED
    BY <1>0, <1>2, <1>6, <2>1
       DEF PollRecover, Recovering, Failing, BadNow, Elapse, UptimeNow, AtMost,
           TypeOK, FullEscalation, EarliestReboot
<1>7. CASE PollBlocked
  BY <1>0, <1>2, <1>7 DEF PollBlocked, Failing
<1>8. CASE PollReboot
  BY <1>0, <1>8 DEF PollReboot, Boot
<1>9. CASE PollRebootFails
  <2>1. probes <= 1 /\ state = "recovering"
    BY <1>9 DEF PollRebootFails, Recovering, ProbesLeft, TypeOK
  <2> QED
    BY <1>0, <1>2, <1>9, <2>1
       DEF PollRebootFails, Failing, BadNow, UptimeNow, AtMost, TypeOK,
           FullEscalation, EarliestReboot
<1> QED
  BY <1>1, <1>4, <1>5, <1>6, <1>7, <1>8, <1>9 DEF Poll

LEMMA EscalationStep ==
  ASSUME EscalationInv, [Next]_vars
  PROVE  EscalationInv'
<1> USE DEF EscalationInv
<1>0. TypeOK'
  BY PollType, SurroundType, StutterType DEF Next, Surround
<1>1. CASE Poll
  BY <1>1, EscalationPoll
<1>2. CASE UNCHANGED <<daemon, bad, uptime>>
  BY <1>2, <1>0 DEF daemon
<1>3. CASE DaemonRestarts
  BY <1>3, <1>0 DEF DaemonRestarts, TypeOK
<1>4. CASE OtherReboot
  BY <1>4, <1>0 DEF OtherReboot, Boot
<1> QED
  BY <1>1, <1>2, <1>3, <1>4
     DEF Next, SessionStarts, ServerStarts, Breaks, Recovers, Finalize,
         daemon, clocks, vars

LEMMA EscalationInvariant == Spec => []EscalationInv
<1>1. Init => EscalationInv
  BY InitType DEF Init, EscalationInv
<1>2. EscalationInv /\ [Next]_vars => EscalationInv'
  BY EscalationStep
<1> QED
  BY <1>1, <1>2, PTL DEF Spec

(* The watchdog reboots only after a full escalation of failed polls in a  *)
(* row in this boot, for every threshold and number of probes, even when   *)
(* recording fails, a reboot fails or the daemon restarts.                 *)
THEOREM OnlySustained == Spec => RebootIsSustained
<1>1. EscalationInv /\ [Next]_vars => [PollReboot => BadNow >= FullEscalation]_vars
  <2> SUFFICES ASSUME EscalationInv, PollReboot PROVE BadNow >= FullEscalation
    OBVIOUS
  <2>1. probes <= 1 /\ state = "recovering"
    BY DEF PollReboot, Recovering, ProbesLeft, EscalationInv, TypeOK
  <2> QED
    BY <2>1, KnobAssumption DEF EscalationInv, TypeOK, BadNow, AtMost, FullEscalation
<1> QED
  BY EscalationInvariant, <1>1, PTL DEF Spec, RebootIsSustained

(* No boot is ended by the watchdog before the grace and all the probes of *)
(* the soft heal have passed: a kiosk that stays broken cannot boot-loop   *)
(* faster than that.                                                       *)
THEOREM BootsLast == Spec => BootGetsItsTime
<1>1. EscalationInv /\ [Next]_vars => [PollReboot => UptimeNow >= EarliestReboot]_vars
  <2> SUFFICES ASSUME EscalationInv, PollReboot PROVE UptimeNow >= EarliestReboot
    OBVIOUS
  <2>1. probes <= 1 /\ state = "recovering"
    BY DEF PollReboot, Recovering, ProbesLeft, EscalationInv, TypeOK
  <2> QED
    BY <2>1, KnobAssumption DEF EscalationInv, TypeOK, UptimeNow, AtMost, EarliestReboot
<1> QED
  BY EscalationInvariant, <1>1, PTL DEF Spec, BootGetsItsTime
=============================================================================
