------------------------- MODULE IncidentPanelProofs -------------------------
(***************************************************************************)
(* An incident on its way from the cloud to the panel: theorems about the  *)
(* poller, which caches it, and the power scheduler, which lights the      *)
(* panel for it, for every interval, period and bound.  The poller comes   *)
(* first: how long it hides, keeps and delays an incident.  Then the       *)
(* scheduler: the record of the last call, on which the next run skips its *)
(* own, is true, and a panel that should be lit is dark for a minute at    *)
(* most, or for a reassert period when records are lost.                   *)
(***************************************************************************)
EXTENDS IncidentPoller, PowerScheduler, TLAPS

(* PollerTypeOK in two parts: Zenon takes the Booleans, SMT the numbers.         *)
BooleansOK ==
    /\ truth \in BOOLEAN /\ enrolled \in BOOLEAN /\ cached \in BOOLEAN
    /\ reply \in BOOLEAN /\ clean \in BOOLEAN /\ steady \in BOOLEAN

NumbersOK ==
    /\ age \in 0..Grace /\ seen \in 0..Grace
    /\ pc \in {"sleep", "ask", "receive"} /\ left \in 0..(Interval + Timeout)
    /\ since \in 0..(Horizon + 1) /\ excess \in 0..MaxExcess
    /\ flips \in 0..MaxFlips /\ restarts \in 0..MaxRestarts /\ enrols \in 0..MaxEnrols

LEMMA TypeParts == PollerTypeOK <=> BooleansOK /\ NumbersOK
BY Zenon DEF PollerTypeOK, BooleansOK, NumbersOK

LEMMA PollerInitType == PollerInit => PollerTypeOK
<1>1. PollerInit => BooleansOK
  BY Zenon DEF PollerInit, BooleansOK
<1>2. PollerInit => NumbersOK
  BY TimeAssumption, PollerBoundAssumption DEF PollerInit, NumbersOK, Horizon, ClearBound, PollGap
<1> QED
  BY <1>1, <1>2, TypeParts

LEMMA StepBooleans == ASSUME BooleansOK, [PollerNext]_pollerVars PROVE BooleansOK'
<1>1. CASE NotEnrolled
  BY <1>1, Zenon DEF BooleansOK, NotEnrolled, Sleep
<1>2. CASE Ask
  BY <1>2, Zenon DEF BooleansOK, Ask
<1>3. CASE Answer
  BY <1>3, Zenon DEF BooleansOK, Answer
<1>4. CASE ReceiveActive
  BY <1>4, Zenon DEF BooleansOK, ReceiveActive, ConfirmedAge, Sleep
<1>5. CASE ReceiveInactive
  BY <1>5, Zenon DEF BooleansOK, ReceiveInactive, Sleep
<1>6. CASE FailClosed
  BY <1>6, Zenon DEF BooleansOK, FailClosed, KeepActive, Sleep
<1>7. CASE Second \/ Overtime
  BY <1>7, Zenon DEF BooleansOK, Second, Overtime, Passes
<1>8. CASE Flip
  BY <1>8, Zenon DEF BooleansOK, Flip
<1>9. CASE Restart
  BY <1>9, Zenon DEF BooleansOK, Restart
<1>10. CASE Enrol
  BY <1>10, Zenon DEF BooleansOK, Enrol
<1>11. CASE PollRaises
  BY <1>11, Zenon DEF BooleansOK, PollRaises, Sleep
<1>12. CASE UNCHANGED pollerVars
  BY <1>12, Zenon DEF BooleansOK, pollerVars, counters
<1> QED
  BY <1>1, <1>2, <1>3, <1>4, <1>5, <1>6, <1>7, <1>8, <1>9, <1>10, <1>11, <1>12 DEF PollerNext, Poll

LEMMA StepNumbers == ASSUME NumbersOK, [PollerNext]_pollerVars PROVE NumbersOK'
<1> USE TimeAssumption, PollerBoundAssumption
<1>1. CASE NotEnrolled
  BY <1>1 DEF NumbersOK, NotEnrolled, Sleep, counters, Horizon, ClearBound, PollGap
<1>2. CASE Ask
  BY <1>2 DEF NumbersOK, Ask, counters, Horizon, ClearBound, PollGap
<1>3. CASE Answer
  BY <1>3 DEF NumbersOK, Answer, counters, Horizon, ClearBound, PollGap
<1>4. CASE ReceiveActive
  BY <1>4 DEF NumbersOK, ReceiveActive, ConfirmedAge, Sleep, counters, Horizon, ClearBound, PollGap
<1>5. CASE ReceiveInactive
  BY <1>5 DEF NumbersOK, ReceiveInactive, Sleep, counters, Horizon, ClearBound, PollGap
<1>6. CASE FailClosed
  BY <1>6 DEF NumbersOK, FailClosed, KeepActive, Sleep, counters, Horizon, ClearBound, PollGap
<1>7. CASE Second \/ Overtime
  BY <1>7 DEF NumbersOK, Second, Overtime, Passes, Older, counters, Horizon, ClearBound, PollGap
<1>8. CASE Flip
  BY <1>8 DEF NumbersOK, Flip, counters, Horizon, ClearBound, PollGap
<1>9. CASE Restart
  BY <1>9 DEF NumbersOK, Restart, counters, Horizon, ClearBound, PollGap
<1>10. CASE Enrol
  BY <1>10 DEF NumbersOK, Enrol, counters, Horizon, ClearBound, PollGap
<1>11. CASE PollRaises
  BY <1>11 DEF NumbersOK, PollRaises, Sleep, counters, Horizon, ClearBound, PollGap
<1>12. CASE UNCHANGED pollerVars
  BY <1>12 DEF NumbersOK, pollerVars, counters
<1> QED
  BY <1>1, <1>2, <1>3, <1>4, <1>5, <1>6, <1>7, <1>8, <1>9, <1>10, <1>11, <1>12 DEF PollerNext, Poll

LEMMA StepType == ASSUME PollerTypeOK, [PollerNext]_pollerVars PROVE PollerTypeOK'
BY StepBooleans, StepNumbers, TypeParts DEF PollerTypeOK, BooleansOK, NumbersOK

(* Type correctness.                                                       *)
THEOREM PollerTypeCorrect == PollerSpec => []PollerTypeOK
BY PollerInitType, StepType, PTL DEF PollerSpec

-----------------------------------------------------------------------------
(* What is steady is active, enrolled, not contradicted by an answer on    *)
(* its way, and as old in the poller's own books.                          *)
SteadyInv ==
    /\ PollerTypeOK
    /\ steady => truth /\ enrolled /\ age = seen /\ (pc = "receive" => reply)
    /\ KeepsThroughBlip

LEMMA SteadyStep == ASSUME SteadyInv, [PollerNext]_pollerVars PROVE SteadyInv'
<1> USE DEF SteadyInv, KeepsThroughBlip
<1>0. PollerTypeOK'
  BY StepType
<1>1. CASE NotEnrolled
  BY <1>0, <1>1 DEF NotEnrolled, Sleep
<1>2. CASE Ask \/ Answer
  BY <1>0, <1>2 DEF Ask, Answer
<1>3. CASE ReceiveActive
  BY <1>0, <1>3 DEF ReceiveActive, ConfirmedAge, Sleep
<1>4. CASE ReceiveInactive
  BY <1>0, <1>4 DEF ReceiveInactive, Sleep
<1>5. CASE FailClosed
  BY <1>0, <1>5 DEF FailClosed, KeepActive, Sleep
<1>6. CASE Second \/ Overtime
  BY <1>0, <1>6, TimeAssumption DEF Second, Overtime, Passes, Older, PollerTypeOK
<1>7. CASE Flip \/ Restart \/ Enrol
  BY <1>0, <1>7 DEF Flip, Restart, Enrol
<1>8. CASE PollRaises
  BY <1>0, <1>8 DEF PollRaises, Sleep
<1>9. CASE UNCHANGED pollerVars
  BY <1>0, <1>9 DEF pollerVars
<1> QED
  BY <1>1, <1>2, <1>3, <1>4, <1>5, <1>6, <1>7, <1>8, <1>9 DEF PollerNext, Poll

(* A blip never hides a live incident before the grace is over, for every  *)
(* interval, timeout and grace.                                            *)
THEOREM BlipsAreHidden == PollerSpec => []KeepsThroughBlip
<1>1. PollerInit => SteadyInv
  BY PollerInitType DEF PollerInit, SteadyInv, KeepsThroughBlip
<1>2. SteadyInv => KeepsThroughBlip
  BY DEF SteadyInv
<1> QED
  BY <1>1, SteadyStep, <1>2, PTL DEF PollerSpec

-----------------------------------------------------------------------------
(* Seconds since the last poll ended, at least.                            *)
Spent == IF pc = "sleep" THEN Interval - left ELSE PollGap - left

(* The time a cleared incident has been on the screen is covered by the    *)
(* lateness of its confirmation, the age of that, the poll under way, and  *)
(* what requests took beyond their timeout or polls that raised.           *)
ClearInv ==
    /\ PollerTypeOK
    /\ left <= IF pc = "sleep" THEN Interval ELSE Timeout
    /\ ~truth /\ pc = "receive" /\ reply => since + left <= Timeout + excess
    /\ ~truth /\ cached =>
          /\ age < Grace => since <= Timeout + age + excess
          /\ age = Grace => since < Timeout + Grace + Spent + excess

LEMMA ClearStep == ASSUME ClearInv, [PollerNext]_pollerVars PROVE ClearInv'
<1> USE TimeAssumption DEF ClearInv
<1>0. PollerTypeOK'
  BY StepType
<1>1. CASE NotEnrolled
  BY <1>0, <1>1 DEF NotEnrolled, Sleep, PollerTypeOK
<1>2. CASE Ask
  BY <1>0, <1>2 DEF Ask, PollerTypeOK, Spent, PollGap
<1>3. CASE Answer
  BY <1>0, <1>3 DEF Answer, PollerTypeOK, Spent
<1>4. CASE ReceiveActive
  BY <1>0, <1>4 DEF ReceiveActive, ConfirmedAge, Sleep, PollerTypeOK
<1>5. CASE ReceiveInactive
  BY <1>0, <1>5 DEF ReceiveInactive, Sleep, PollerTypeOK
<1>6. CASE FailClosed
  <2>1. ~truth' /\ cached' => age' < Grace /\ since' <= Timeout + age' + excess'
    BY <1>6 DEF FailClosed, KeepActive, PollerTypeOK
  <2> QED
    BY <1>0, <1>6, <2>1 DEF FailClosed, Sleep, PollerTypeOK
<1>7. CASE Second \/ Overtime
  <2>1. since \in Nat /\ excess \in Nat /\ since' = IF since <= Horizon THEN since + 1 ELSE since
    BY <1>7, PollerBoundAssumption DEF Second, Overtime, Passes, PollerTypeOK, Horizon, ClearBound, PollGap
  <2>2. CASE Second
    BY <1>0, <2>1, <2>2 DEF Second, Passes, Older, PollerTypeOK, Spent, PollGap
  <2>3. CASE Overtime
    <3>1. /\ pc' = pc /\ left' = left /\ (truth' <=> truth) /\ (cached' <=> cached)
          /\ (reply' <=> reply) /\ (clean' <=> clean) /\ (enrolled' <=> enrolled) /\ pc # "sleep"
          /\ excess' = excess + 1 /\ age' = Older(age)
      BY <2>3, Zenon DEF Overtime, Passes
    <3>2. age \in 0..Grace /\ left \in Nat /\ Spent \in Nat /\ Spent' = Spent
      BY <3>1 DEF PollerTypeOK, Spent, PollGap
    <3>3. CASE age < Grace
      <4>1. age' = age + 1 /\ age + 1 <= Grace
        BY <3>1, <3>2, <3>3 DEF Older
      <4>2. ~truth /\ cached => since <= Timeout + age + excess
        BY <3>3
      <4> QED
        BY <1>0, <2>1, <3>1, <3>2, <4>1, <4>2
    <3>4. CASE age = Grace
      <4>1. age' = Grace
        BY <3>1, <3>2, <3>4 DEF Older
      <4> QED
        BY <1>0, <2>1, <3>1, <3>2, <3>4, <4>1
    <3> QED
      BY <3>2, <3>3, <3>4
  <2> QED
    BY <1>7, <2>2, <2>3
<1>8. CASE Flip
  BY <1>0, <1>8 DEF Flip, PollerTypeOK, Spent, PollGap
<1>9. CASE Restart
  BY <1>0, <1>9 DEF Restart, PollerTypeOK
<1>10. CASE Enrol
  BY <1>0, <1>10 DEF Enrol, PollerTypeOK, Spent
<1>11. CASE PollRaises
  BY <1>0, <1>11 DEF PollRaises, Sleep, PollerTypeOK, Spent, PollGap
<1>12. CASE UNCHANGED pollerVars
  BY <1>0, <1>12 DEF pollerVars, PollerTypeOK, Spent
<1> QED
  BY <1>1, <1>2, <1>3, <1>4, <1>5, <1>6, <1>7, <1>8, <1>9, <1>10, <1>11, <1>12 DEF PollerNext, Poll

(* A cleared incident is off the screen in time, for every interval,       *)
(* timeout and grace, whatever fails and however often it flips, but for   *)
(* what requests take beyond their timeout and polls that raise.           *)
THEOREM OutagesEnd == PollerSpec => []ClearedInTime
<1>1. PollerInit => ClearInv
  BY PollerInitType, TimeAssumption DEF PollerInit, ClearInv
<1>2. ClearInv => ClearedInTime
  BY TimeAssumption, PollerBoundAssumption DEF ClearInv, PollerTypeOK, ClearedInTime, ClearBound, Spent, PollGap
<1> QED
  BY <1>1, ClearStep, <1>2, PTL DEF PollerSpec

-----------------------------------------------------------------------------
(* How late an incident that is not shown yet can be: a poll that asked    *)
(* too early, the sleep after it, the poll that will show it, and what     *)
(* their requests take beyond the timeout.                                 *)
ShowInv ==
    /\ PollerTypeOK
    /\ left <= IF pc = "sleep" THEN Interval ELSE Timeout
    /\ clean => enrolled
    /\ truth /\ clean /\ pc = "receive" /\ ~reply => since + left <= Timeout + excess
    /\ truth /\ clean /\ ~cached => since <= Timeout + Spent + excess

LEMMA ShowStep == ASSUME ShowInv, [PollerNext]_pollerVars PROVE ShowInv'
<1> USE TimeAssumption DEF ShowInv
<1>0. PollerTypeOK'
  BY StepType
<1>1. CASE NotEnrolled
  BY <1>0, <1>1 DEF NotEnrolled, Sleep, PollerTypeOK
<1>2. CASE Ask
  BY <1>0, <1>2 DEF Ask, PollerTypeOK, Spent, PollGap
<1>3. CASE Answer
  BY <1>0, <1>3 DEF Answer, PollerTypeOK, Spent
<1>4. CASE ReceiveActive
  BY <1>0, <1>4 DEF ReceiveActive, Sleep, PollerTypeOK
<1>5. CASE ReceiveInactive
  BY <1>0, <1>5 DEF ReceiveInactive, Sleep, PollerTypeOK, Spent
<1>6. CASE FailClosed
  BY <1>0, <1>6 DEF FailClosed, Sleep, PollerTypeOK
<1>7. CASE Second \/ Overtime
  <2>1. since \in Nat /\ excess \in Nat /\ since' = IF since <= Horizon THEN since + 1 ELSE since
    BY <1>7, PollerBoundAssumption DEF Second, Overtime, Passes, PollerTypeOK, Horizon, ClearBound, PollGap
  <2>2. CASE Second
    BY <1>0, <2>1, <2>2 DEF Second, Passes, PollerTypeOK, Spent, PollGap
  <2>3. CASE Overtime
    <3>1. /\ pc' = pc /\ left' = left /\ (truth' <=> truth) /\ (cached' <=> cached)
          /\ (reply' <=> reply) /\ (clean' <=> clean) /\ (enrolled' <=> enrolled) /\ pc # "sleep"
          /\ excess' = excess + 1
      BY <2>3, Zenon DEF Overtime, Passes
    <3>2. left \in Nat /\ Spent \in Nat /\ Spent' = Spent
      BY <3>1 DEF PollerTypeOK, Spent, PollGap
    <3> QED
      BY <1>0, <2>1, <3>1, <3>2
  <2> QED
    BY <1>7, <2>2, <2>3
<1>8. CASE Flip
  BY <1>0, <1>8 DEF Flip, PollerTypeOK, Spent, PollGap
<1>9. CASE Restart
  BY <1>0, <1>9 DEF Restart, PollerTypeOK
<1>10. CASE Enrol
  BY <1>0, <1>10 DEF Enrol, PollerTypeOK
<1>11. CASE PollRaises
  BY <1>0, <1>11 DEF PollRaises, Sleep, PollerTypeOK, Spent, PollGap
<1>12. CASE UNCHANGED pollerVars
  BY <1>0, <1>12 DEF pollerVars, PollerTypeOK, Spent
<1> QED
  BY <1>1, <1>2, <1>3, <1>4, <1>5, <1>6, <1>7, <1>8, <1>9, <1>10, <1>11, <1>12 DEF PollerNext, Poll

(* Without a failed or raising poll an incident is cached in time, for     *)
(* every interval, timeout and grace, but for what requests take beyond    *)
(* their timeout.                                                          *)
THEOREM IncidentsAppear == PollerSpec => []ShownInTime
<1>1. PollerInit => ShowInv
  BY PollerInitType, TimeAssumption DEF PollerInit, ShowInv, Spent, PollGap
<1>2. ShowInv => ShownInTime
  BY TimeAssumption, PollerBoundAssumption DEF ShowInv, PollerTypeOK, ShownInTime, ShowBound, Spent, PollGap
<1> QED
  BY <1>1, ShowStep, <1>2, PTL DEF PollerSpec

-----------------------------------------------------------------------------
(* The power scheduler                                                     *)

(* A record names no session that is still to come.                        *)
Past(r) ==
    r # NoRecord /\ r.boot = boot => IF up THEN r.sock <= sock ELSE r.sock < sock

(* In the session and the boot it names the panel is as it says.           *)
Truthful(r) ==
    up /\ r # NoRecord /\ r.sock = sock /\ r.boot = boot => panel = r.dpms

(* Between the call and the writing the true record is the run's own.      *)
Latest == IF run.pc = "write" THEN run.applied ELSE file.applied

RecordInv ==
    /\ file.applied # NoRecord => file.applied.boot <= boot
    /\ Past(file.applied)
    /\ run.pc = "write" => Past(run.applied)
    /\ run.pc = "write" /\ run.applied # NoRecord => run.applied.boot <= boot
    /\ Undisturbed => Truthful(Latest)

IInv == TypeOK /\ RecordInv

-----------------------------------------------------------------------------
(* Types                                                                   *)

LEMMA RunShape ==
  ASSUME TypeOK
  PROVE  /\ run.pc = "apply" => run \in Applying
         /\ run.pc = "write" => run \in Writing
         /\ run = IdleRun <=> run.pc = "idle"
         /\ run.pc \in {"idle", "schedule", "wake", "apply", "write"}
BY DEF TypeOK, Deciding, Applying, Writing, IdleRun

LEMMA ApplyType ==
  ASSUME NEW on \in BOOLEAN, NEW reason \in Reasons
  PROVE  Apply(on, reason) \in Applying /\ Apply(on, reason).pc = "apply"
BY DEF Apply, Applying

LEMMA StartType == ASSUME Start PROVE run' \in Deciding \cup Applying /\ run'.pc \in {"apply", "schedule"} /\ due' = FALSE
BY ApplyType DEF Start, Deciding, Reasons, Apply

LEMMA DecideType ==
  ASSUME TypeOK, ReadSchedule \/ CheckWake
  PROVE  run' \in Deciding \cup Applying /\ run'.pc \in {"apply", "wake"}
<1>1. CASE ReadSchedule
  BY <1>1, ApplyType DEF TypeOK, ReadSchedule, Deciding, Reasons, Apply
<1>2. CASE CheckWake
  BY <1>2, ApplyType DEF TypeOK, CheckWake, Deciding, Reasons, Apply
<1> QED
  BY <1>1, <1>2

LEMMA EndsType ==
  ASSUME TypeOK, run.pc = "apply", NEW r \in Result, Ends(r)
  PROVE  run' \in Writing /\ run'.pc = "write" /\ run'.applied = r
BY RunShape DEF Ends, Applying, Writing

LEMMA SentType ==
  ASSUME TypeOK, NEW on \in BOOLEAN
  PROVE  [dpms |-> Verb(on), sock |-> sock, boot |-> boot, age |-> 0] \in Record
BY PeriodAssumption DEF TypeOK, Record, Verb

LEMMA AgedType ==
  ASSUME NEW r \in Result
  PROVE  /\ Aged(r) \in Result
         /\ Aged(r) = NoRecord <=> r = NoRecord
         /\ r # NoRecord => /\ Aged(r).dpms = r.dpms /\ Aged(r).sock = r.sock
                            /\ Aged(r).boot = r.boot
BY PeriodAssumption DEF Aged, Result, Record, NoRecord

LEMMA InitType == Init => TypeOK
<1> SUFFICES ASSUME Init PROVE TypeOK
  OBVIOUS
<1>1. file \in [on : BOOLEAN, reason : Reasons, applied : Result]
  BY DEF Init, Reasons, Result
<1>2. run \in Deciding
  BY DEF Init, Deciding
<1>3. waiting \in [{"incident", "schedule", "tap"} -> Nat]
  BY DEF Init
<1>4. 1 \in 1..MaxSessions /\ 1 \in 1..MaxBoots /\ 0 \in 0..WakeMinutes
  BY BoundAssumption, PeriodAssumption
<1>5. /\ 0 \in 0..MaxChanges /\ 0 \in 0..MaxTaps /\ 0 \in 0..MaxFails
      /\ 0 \in 0..MaxWriteFails /\ 0 \in 0..MaxOutside
  BY BoundAssumption
<1> QED
  BY <1>1, <1>2, <1>3, <1>4, <1>5 DEF Init, TypeOK

LEMMA ObserveType == ASSUME TypeOK, Observe PROVE waiting' \in [{"incident", "schedule", "tap"} -> Nat]
<1>1. DOMAIN waiting = {"incident", "schedule", "tap"}
  BY DEF TypeOK
<1>2. \A w \in DOMAIN waiting : waiting[w] \in Nat /\ waiting[w] + 1 \in Nat
  BY DEF TypeOK
<1> QED
  BY <1>1, <1>2 DEF Observe

LEMMA RunStepType ==
  ASSUME TypeOK, RunStep, waiting' \in [{"incident", "schedule", "tap"} -> Nat]
  PROVE  TypeOK'
<1> USE DEF TypeOK, world, screen, counts
<1>1. CASE TimerStart
  BY <1>1, StartType DEF TimerStart
<1>2. CASE ReadSchedule
  BY <1>2, DecideType DEF ReadSchedule
<1>3. CASE CheckWake
  BY <1>3, DecideType DEF CheckWake
<1>4. CASE Skip
  <2>1. run' \in Writing
    BY <1>4, EndsType DEF Skip
  <2> QED
    BY <1>4, <2>1 DEF Skip
<1>5. CASE SendDpms
  <2>1. run.on \in BOOLEAN
    BY <1>5, RunShape DEF SendDpms, Applying
  <2>2. run' \in Writing
    BY <1>5, <2>1, EndsType, SentType DEF SendDpms, Result
  <2>3. panel' \in {"on", "off"}
    BY <1>5 DEF SendDpms, Verb
  <2> QED
    BY <1>5, <2>2, <2>3 DEF SendDpms
<1>6. CASE NoSession
  <2>1. run' \in Writing
    BY <1>6, EndsType DEF NoSession, Result
  <2> QED
    BY <1>6, <2>1 DEF NoSession
<1>7. CASE SendFails
  <2>1. run' \in Writing
    BY <1>7, EndsType DEF SendFails, FailedRecord, Result
  <2>2. panel' \in {"on", "off"}
    BY <1>7 DEF SendFails, Verb
  <2>3. fails' \in 0..MaxFails
    BY <1>7, BoundAssumption DEF SendFails
  <2> QED
    BY <1>7, <2>1, <2>2, <2>3 DEF SendFails
<1>8. CASE WriteState
  <2>1. file' \in [on : BOOLEAN, reason : Reasons, applied : Result]
    BY <1>8, RunShape DEF WriteState, Writing
  <2>2. run' \in Deciding
    BY <1>8 DEF WriteState, Deciding
  <2> QED
    BY <1>8, <2>1, <2>2 DEF WriteState
<1>9. CASE WriteFails
  <2>1. run' \in Deciding
    BY <1>9 DEF WriteFails, Deciding
  <2>2. writeFails' \in 0..MaxWriteFails
    BY <1>9, BoundAssumption DEF WriteFails
  <2> QED
    BY <1>9, <2>1, <2>2 DEF WriteFails
<1> QED
  BY <1>1, <1>2, <1>3, <1>4, <1>5, <1>6, <1>7, <1>8, <1>9 DEF RunStep

World ==
    \/ Tap \/ Kick \/ Minute
    \/ Change \/ SessionEnds \/ SessionStarts \/ Reboot \/ Outside

LEMMA WorldType ==
  ASSUME TypeOK, World, waiting' \in [{"incident", "schedule", "tap"} -> Nat]
  PROVE  TypeOK'
<1> USE DEF TypeOK, world, screen, counts
<1>1. CASE Tap
  <2>1. taps' \in 0..MaxTaps
    BY <1>1, BoundAssumption DEF Tap
  <2>2. wake' \in 0..WakeMinutes
    BY <1>1, PeriodAssumption DEF Tap
  <2>3. touch' \in {"idle", "kick"}
    BY <1>1 DEF Tap
  <2> QED
    BY <1>1, <2>1, <2>2, <2>3 DEF Tap
<1>2. CASE Kick
  BY <1>2, StartType DEF Kick
<1>3. CASE Minute
  <2>1. wake' \in 0..WakeMinutes
    BY <1>3, PeriodAssumption DEF Minute, Left
  <2>2. file' \in [on : BOOLEAN, reason : Reasons, applied : Result]
    BY <1>3, AgedType DEF Minute
  <2> QED
    BY <1>3, <2>1, <2>2 DEF Minute
<1>4. CASE Change
  <2>1. changes' \in 0..MaxChanges
    BY <1>4, BoundAssumption DEF Change
  <2>2. sched' \in {"none", "on", "off"}
    BY <1>4 DEF Change
  <2>3. incident' \in BOOLEAN /\ serving' \in BOOLEAN
    BY <1>4 DEF Change
  <2> QED
    BY <1>4, <2>1, <2>2, <2>3 DEF Change
<1>5. CASE SessionEnds
  <2>1. sock' \in 1..MaxSessions
    BY <1>5, BoundAssumption DEF SessionEnds
  <2> QED
    BY <1>5, <2>1 DEF SessionEnds
<1>6. CASE SessionStarts
  BY <1>6 DEF SessionStarts
<1>7. CASE Reboot
  <2>1. boot' \in 1..MaxBoots /\ sock' \in 1..MaxSessions
    BY <1>7, BoundAssumption DEF Reboot
  <2> QED
    BY <1>7, <2>1 DEF Reboot, Deciding
<1>8. CASE Outside
  <2>1. outside' \in 0..MaxOutside
    BY <1>8, BoundAssumption DEF Outside
  <2> QED
    BY <1>8, <2>1 DEF Outside
<1> QED
  BY <1>1, <1>2, <1>3, <1>4, <1>5, <1>6, <1>7, <1>8 DEF World

LEMMA NextType == ASSUME TypeOK, [Next]_vars PROVE TypeOK'
<1>1. CASE UNCHANGED vars
  BY <1>1 DEF TypeOK, vars, world, screen, counts
<1>2. CASE Next
  BY <1>2, RunStepType, WorldType, ObserveType DEF Next, Step, World
<1> QED
  BY <1>1, <1>2

(* Type correctness: a run is always one of its few shapes, and the file   *)
(* holds a whole record or none.                                           *)
THEOREM TypeCorrect == Spec => []TypeOK
<1>1. Init => TypeOK
  BY InitType
<1>2. TypeOK /\ [Next]_vars => TypeOK'
  BY NextType
<1> QED
  BY <1>1, <1>2, PTL DEF Spec

-----------------------------------------------------------------------------
(* The record is true                                                      *)

LEMMA SentTruthful ==
  ASSUME TypeOK, up, NEW on \in BOOLEAN, panel' = Verb(on), UNCHANGED <<sock, up, boot>>,
         NEW r, r = [dpms |-> Verb(on), sock |-> sock, boot |-> boot, age |-> 0]
  PROVE  Past(r)' /\ Truthful(r)' /\ r.boot <= boot'
BY DEF TypeOK, Past, Truthful

LEMMA InitInv == Init => IInv
<1> SUFFICES ASSUME Init PROVE IInv
  OBVIOUS
<1>1. file.applied = NoRecord /\ run.pc = "idle"
  BY DEF Init, IdleRun
<1> QED
  BY <1>1, InitType DEF IInv, RecordInv, Past, Truthful, Latest

LEMMA RunStepRecord == ASSUME TypeOK, RecordInv, RunStep PROVE RecordInv'
<1>1. ASSUME UNCHANGED <<screen, file, counts>>, run.pc # "write", run'.pc # "write"
      PROVE  RecordInv'
  BY <1>1 DEF RecordInv, Past, Truthful, Latest, Undisturbed, screen, counts
<1>2. CASE TimerStart
  BY <1>1, <1>2, StartType, RunShape DEF TimerStart, Start
<1>3. CASE ReadSchedule \/ CheckWake
  BY <1>1, <1>3, DecideType DEF ReadSchedule, CheckWake
<1>4. CASE Skip
  <2>1. run'.pc = "write" /\ run'.applied = file.applied
    BY <1>4, EndsType DEF Skip, TypeOK
  <2> QED
    BY <1>4, <2>1 DEF Skip, RecordInv, Past, Truthful, Latest, Undisturbed, screen, counts
<1>5. CASE SendDpms
  <2>1. run.on \in BOOLEAN
    BY <1>5, RunShape DEF SendDpms, Applying
  <2>2. PICK r : r = [dpms |-> Verb(run.on), sock |-> sock, boot |-> boot, age |-> 0]
    OBVIOUS
  <2>3. run'.pc = "write" /\ run'.applied = r
    BY <1>5, <2>1, <2>2, EndsType, SentType DEF SendDpms, Result
  <2>4. Past(r)' /\ Truthful(r)' /\ r.boot <= boot'
    BY <1>5, <2>1, <2>2, SentTruthful DEF SendDpms
  <2>5. Past(file.applied)'
    BY <1>5 DEF SendDpms, RecordInv, Past
  <2>6. UNCHANGED <<file, boot>>
    BY <1>5 DEF SendDpms
  <2> QED
    BY <2>3, <2>4, <2>5, <2>6 DEF RecordInv, Past, Truthful, Latest
<1>6. CASE NoSession
  <2>1. run'.pc = "write" /\ run'.applied \in {NoRecord, file.applied}
    BY <1>6, EndsType DEF NoSession, TypeOK, Result
  <2>2. UNCHANGED <<sock, up, boot, file>> /\ ~up
    BY <1>6 DEF NoSession, screen
  <2>3. \/ run'.applied = NoRecord
        \/ run'.applied = file.applied
    BY <2>1
  <2> QED
    BY <2>1, <2>2, <2>3 DEF RecordInv, Past, Truthful, Latest
<1>7. CASE SendFails
  <2>1. run'.pc = "write" /\ run'.applied = NoRecord
    BY <1>7, EndsType DEF SendFails, FailedRecord, Result
  <2> QED
    BY <1>7, <2>1 DEF SendFails, RecordInv, Past, Truthful, Latest
<1>8. CASE WriteState
  <2>1. file'.applied = run.applied /\ run'.pc = "idle" /\ run.pc = "write"
    BY <1>8 DEF WriteState, IdleRun
  <2> QED
    BY <1>8, <2>1 DEF WriteState, RecordInv, Past, Truthful, Latest, Undisturbed, screen, counts
<1>9. CASE WriteFails
  <2>1. ~Undisturbed'
    BY <1>9 DEF WriteFails, Undisturbed, TypeOK
  <2>2. run'.pc = "idle"
    BY <1>9 DEF WriteFails, IdleRun
  <2> QED
    BY <1>9, <2>1, <2>2 DEF WriteFails, RecordInv, Past, screen
<1> QED
  BY <1>2, <1>3, <1>4, <1>5, <1>6, <1>7, <1>8, <1>9 DEF RunStep

(* A record in hand keeps to its past when a session ends, starts, or the  *)
(* machine boots, and says nothing yet of the session that comes.          *)
LEMMA NewSessionPast ==
  ASSUME TypeOK, NEW r \in Result, Past(r), r # NoRecord => r.boot <= boot,
         SessionEnds \/ SessionStarts \/ Reboot
  PROVE  /\ Past(r)' /\ Truthful(r)'
         /\ r # NoRecord => r.boot <= boot'
<1>1. CASE r = NoRecord
  BY <1>1 DEF Past, Truthful
<1>2. CASE r # NoRecord
  <2>1. r.sock \in Nat /\ r.boot \in Nat /\ sock \in Nat /\ boot \in Nat
    BY <1>2 DEF Result, Record, TypeOK
  <2>2. CASE SessionEnds
    <3>1. UNCHANGED boot /\ sock' = sock + 1 /\ ~up' /\ up
      BY <2>2 DEF SessionEnds, TypeOK
    <3> QED
      BY <1>2, <2>1, <3>1 DEF Past, Truthful
  <2>3. CASE SessionStarts
    <3>1. UNCHANGED <<boot, sock>> /\ up' /\ ~up
      BY <2>3 DEF SessionStarts
    <3> QED
      BY <1>2, <2>1, <3>1 DEF Past, Truthful
  <2>4. CASE Reboot
    <3>1. boot' = boot + 1
      BY <2>4 DEF Reboot
    <3> QED
      BY <1>2, <2>1, <3>1 DEF Past, Truthful
  <2> QED
    BY <2>2, <2>3, <2>4
<1> QED
  BY <1>1, <1>2

LEMMA WorldRecord == ASSUME TypeOK, RecordInv, World PROVE RecordInv'
<1>1. ASSUME UNCHANGED <<screen, file, run, writeFails, outside>> PROVE RecordInv'
  BY <1>1 DEF RecordInv, Past, Truthful, Latest, Undisturbed, screen
<1>2. CASE Tap
  BY <1>1, <1>2 DEF Tap
<1>3. CASE Kick
  <2>1. CASE run = IdleRun
    <3>1. run.pc # "write" /\ run'.pc # "write"
      BY <1>3, <2>1, StartType DEF Kick, IdleRun
    <3> QED
      BY <1>3, <3>1 DEF Kick, RecordInv, Past, Truthful, Latest, Undisturbed, screen, counts
  <2>2. CASE run # IdleRun
    BY <1>1, <1>3, <2>2 DEF Kick, counts
  <2> QED
    BY <2>1, <2>2
<1>4. CASE Minute
  <2>1. run.pc = "idle"
    BY <1>4, RunShape DEF Minute
  <2>2. file.applied \in Result /\ file'.applied = Aged(file.applied)
    BY <1>4 DEF Minute, TypeOK
  <2>3. /\ file'.applied = NoRecord <=> file.applied = NoRecord
        /\ file.applied # NoRecord =>
               /\ file'.applied.dpms = file.applied.dpms
               /\ file'.applied.sock = file.applied.sock
               /\ file'.applied.boot = file.applied.boot
    BY <2>2, AgedType
  <2>4. UNCHANGED <<sock, up, boot, panel, run, writeFails, outside>>
    BY <1>4 DEF Minute, screen, counts
  <2> QED
    BY <2>1, <2>3, <2>4 DEF RecordInv, Past, Truthful, Latest, Undisturbed
<1>5. CASE Change
  BY <1>1, <1>5 DEF Change
<1>6. CASE SessionEnds \/ SessionStarts \/ Reboot
  <2>1. file' = file /\ (run' = run \/ run'.pc = "idle")
    BY <1>6 DEF SessionEnds, SessionStarts, Reboot, IdleRun
  <2>2. file.applied \in Result /\ (run.pc = "write" => run.applied \in Result)
    BY RunShape DEF TypeOK, Writing
  <2>3. /\ Past(file.applied)' /\ Truthful(file.applied)'
        /\ file.applied # NoRecord => file.applied.boot <= boot'
    BY <1>6, <2>1, <2>2, NewSessionPast DEF RecordInv, Past, Truthful
  <2>4. run.pc = "write" /\ run' = run =>
            /\ Past(run.applied)' /\ Truthful(run.applied)'
            /\ run.applied # NoRecord => run.applied.boot <= boot'
    BY <1>6, <2>2, NewSessionPast DEF RecordInv, Past, Truthful
  <2> QED
    BY <2>1, <2>3, <2>4 DEF RecordInv, Past, Truthful, Latest
<1>7. CASE Outside
  <2>1. ~Undisturbed'
    BY <1>7 DEF Outside, Undisturbed, TypeOK
  <2> QED
    BY <1>7, <2>1 DEF Outside, RecordInv, Past
<1> QED
  BY <1>2, <1>3, <1>4, <1>5, <1>6, <1>7 DEF World

LEMMA NextRecord == ASSUME TypeOK, RecordInv, [Next]_vars PROVE RecordInv'
<1>1. CASE UNCHANGED vars
  BY <1>1 DEF vars, screen, counts, RecordInv, Past, Truthful, Latest, Undisturbed
<1> QED
  BY <1>1, RunStepRecord, WorldRecord DEF Next, Step, World

(* The record a run skips its call on is true whenever a run reads it:     *)
(* neither a failed or doubtful call nor a session or boot between call    *)
(* and record leaves a record of what is not so.                           *)
THEOREM RecordTrusted == Spec => []RecordTruthful
<1>1. Init => IInv
  BY InitInv
<1>2. IInv /\ [Next]_vars => IInv'
  BY NextType, NextRecord DEF IInv
<1>3. IInv => RecordTruthful
  BY DEF IInv, RecordInv, Truthful, Latest, RecordTruthful, IdleRun
<1> QED
  BY <1>1, <1>2, <1>3, PTL DEF Spec

-----------------------------------------------------------------------------
(* How long the panel can be dark                                          *)

Wish == {"incident", "schedule", "tap"}

(* Minutes are counted only while a wish and the darkness last.            *)
WaitsInDark == \A w \in Wish : waiting[w] > 0 => Dark /\ w \in Wishes

(* The run under way has seen the wish, or the next one is about to start. *)
WillLight(w) ==
    \/ due
    \/ run.pc = "schedule" /\ w # "incident"
    \/ run.pc = "wake" /\ w = "tap"
    \/ run.pc = "apply" /\ run.on

LEMMA WaitingStep ==
  ASSUME TypeOK, Observe, NEW w \in Wish
  PROVE  /\ waiting[w] \in Nat /\ waiting'[w] \in Nat
         /\ waiting'[w] > 0 => (Dark /\ w \in Wishes)'
         /\ waiting'[w] > 0 => waiting'[w] = IF due' /\ ~due THEN waiting[w] + 1 ELSE waiting[w]
<1>1. waiting[w] \in Nat /\ w \in DOMAIN waiting
  BY DEF TypeOK, Wish
<1>2. waiting'[w] = IF ~(Dark /\ w \in Wishes)' THEN 0
                    ELSE IF due' /\ ~due THEN waiting[w] + 1 ELSE waiting[w]
  BY <1>1 DEF Observe
<1> QED
  BY <1>1, <1>2

LEMMA DarkStep ==
  ASSUME TypeOK, WaitsInDark, [Next]_vars
  PROVE  WaitsInDark'
<1>1. CASE UNCHANGED vars
  BY <1>1 DEF WaitsInDark, Dark, Wishes, Emergency, vars, world, screen
<1>2. CASE Next
  BY <1>2, WaitingStep DEF Next, WaitsInDark
<1> QED
  BY <1>1, <1>2

(* Only a minute that passes makes a run due.                              *)
LEMMA MinuteMakesDue == ASSUME Step, due', ~due PROVE Minute
BY DEF Step, RunStep, TimerStart, Start, ReadSchedule, CheckWake, Skip, SendDpms, NoSession,
   SendFails, WriteState, WriteFails, Tap, Kick, Change, SessionEnds, SessionStarts, Reboot, Outside

LEMMA CallsFail == ASSUME TypeOK, Step PROVE fails \in Nat /\ (fails' = fails \/ (SendFails /\ fails' = fails + 1))
<1>1. fails \in Nat
  BY BoundAssumption DEF TypeOK
<1> QED
  BY <1>1 DEF Step, RunStep, TimerStart, ReadSchedule, CheckWake, Skip, SendDpms, NoSession,
     SendFails, WriteState, WriteFails, Tap, Kick, Minute, Change, SessionEnds, SessionStarts,
     Reboot, Outside, counts

LEMMA StartLights ==
  ASSUME Start, NEW w \in Wish, w \in Wishes
  PROVE  WillLight(w)'
<1>1. CASE Emergency
  BY <1>1 DEF Start, Apply, WillLight
<1>2. CASE ~Emergency
  BY <1>2 DEF Start, WillLight, Wishes, Wish
<1> QED
  BY <1>1, <1>2

(* A run that has seen a wish lights the panel, unless its call fails or   *)
(* it trusts the record.                                                   *)
LEMMA RunLights ==
  ASSUME TypeOK, RunStep, NEW w \in Wish, Dark, w \in Wishes, WillLight(w), Dark'
  PROVE  WillLight(w)' \/ SendFails \/ (Skip /\ run.on)
<1>1. CASE TimerStart
  BY <1>1, StartLights DEF TimerStart
<1>2. CASE ReadSchedule
  <2>1. CASE due
    BY <1>2, <2>1 DEF ReadSchedule, WillLight
  <2>2. CASE w = "schedule"
    BY <1>2, <2>2 DEF ReadSchedule, WillLight, Wishes, TypeOK, Apply
  <2>3. CASE w = "tap"
    BY <1>2, <2>3 DEF ReadSchedule, WillLight, TypeOK, Apply
  <2> QED
    BY <1>2, <2>1, <2>2, <2>3 DEF ReadSchedule, WillLight, Wish
<1>3. CASE CheckWake
  BY <1>3 DEF CheckWake, WillLight, Wishes, Apply
<1>4. CASE Skip
  BY <1>4 DEF Skip, WillLight
<1>5. CASE SendDpms
  BY <1>5 DEF SendDpms, WillLight, Dark, Verb
<1>6. CASE NoSession
  BY <1>6 DEF NoSession, Dark
<1>7. CASE WriteState \/ WriteFails
  BY <1>7 DEF WriteState, WriteFails, WillLight
<1> QED
  BY <1>1, <1>2, <1>3, <1>4, <1>5, <1>6, <1>7 DEF RunStep

LEMMA StepLights ==
  ASSUME TypeOK, Step, NEW w \in Wish, Dark, w \in Wishes, WillLight(w), Dark'
  PROVE  WillLight(w)' \/ SendFails \/ (Skip /\ run.on)
<1>1. CASE Kick
  <2>1. CASE run = IdleRun
    BY <1>1, <2>1, StartLights DEF Kick
  <2>2. CASE run # IdleRun
    BY <1>1, <2>2 DEF Kick, WillLight
  <2> QED
    BY <2>1, <2>2
<1>2. CASE Minute
  BY <1>2 DEF Minute, WillLight
<1>3. CASE Tap \/ Change \/ Outside
  BY <1>3 DEF Tap, Change, Outside, WillLight
<1>4. CASE SessionEnds \/ SessionStarts \/ Reboot
  BY <1>4 DEF SessionEnds, SessionStarts, Reboot, Dark
<1> QED
  BY <1>1, <1>2, <1>3, <1>4, RunLights DEF Step

(* With true records a wish is a minute late at most before a run has seen *)
(* it, and not at all after, but for the calls that failed.                *)
MinuteInv ==
    Undisturbed =>
        \A w \in Wish :
            \/ waiting[w] <= fails
            \/ waiting[w] <= 1 + fails /\ WillLight(w)

LEMMA DisturbedStays == ASSUME TypeOK, Step, Undisturbed' PROVE Undisturbed
<1>1. writeFails \in Nat /\ outside \in Nat
  BY BoundAssumption DEF TypeOK
<1>2. CASE UNCHANGED <<writeFails, outside>>
  BY <1>2 DEF Undisturbed
<1>3. CASE WriteFails \/ Outside
  BY <1>1, <1>3 DEF Undisturbed, WriteFails, Outside
<1>4. WriteFails \/ Outside \/ UNCHANGED <<writeFails, outside>>
  BY DEF Step, RunStep, TimerStart, ReadSchedule, CheckWake, Skip, SendDpms, NoSession,
     SendFails, WriteState, Tap, Kick, Minute, Change, SessionEnds, SessionStarts, Reboot, counts
<1> QED
  BY <1>2, <1>3, <1>4

(* In the dark a true record does not say "on".                            *)
LEMMA NoSkipInTheDark == ASSUME RecordInv, Undisturbed, Dark, Skip PROVE ~run.on
BY DEF RecordInv, Latest, Truthful, Skip, Recorded, Verb, Dark

LEMMA MinuteStep ==
  ASSUME IInv, WaitsInDark, MinuteInv, Next
  PROVE  MinuteInv'
<1> SUFFICES ASSUME Undisturbed', NEW w \in Wish, waiting'[w] > 0
             PROVE  (waiting[w] <= fails \/ (waiting[w] <= 1 + fails /\ WillLight(w)))'
  BY CallsFail, WaitingStep DEF MinuteInv, IInv, Next
<1> USE DEF IInv, Next
<1>1. Undisturbed /\ (waiting[w] <= fails \/ (waiting[w] <= 1 + fails /\ WillLight(w)))
  BY DisturbedStays DEF MinuteInv
<1>2. waiting[w] \in Nat /\ waiting'[w] \in Nat /\ fails \in Nat
  BY WaitingStep, CallsFail
<1>3. CASE Minute
  <2>1. ~WillLight(w)
    BY <1>3 DEF Minute, WillLight, IdleRun
  <2>2. waiting'[w] <= waiting[w] + 1 /\ fails' = fails
    BY <1>2, <1>3, WaitingStep DEF Minute, counts
  <2>3. WillLight(w)'
    BY <1>3 DEF Minute, WillLight
  <2> QED
    BY <1>1, <1>2, <2>1, <2>2, <2>3
<1>4. CASE ~Minute
  <2>1. waiting'[w] = waiting[w] /\ Dark'
    BY <1>4, MinuteMakesDue, WaitingStep
  <2>2. Dark /\ w \in Wishes
    BY <2>1 DEF WaitsInDark
  <2>3. CASE waiting[w] <= fails
    BY <1>2, <2>1, <2>3, CallsFail
  <2>4. CASE waiting[w] <= 1 + fails /\ WillLight(w)
    <3>1. ~(Skip /\ run.on)
      BY <1>1, <2>2, NoSkipInTheDark
    <3>2. WillLight(w)' \/ SendFails
      BY <2>1, <2>2, <2>4, <3>1, StepLights
    <3>3. CASE SendFails
      <4>1. fails' = fails + 1
        BY <3>3 DEF SendFails
      <4> QED
        BY <1>2, <2>1, <2>4, <4>1
    <3>4. CASE WillLight(w)'
      <4>1. waiting'[w] <= 1 + fails'
        BY <1>2, <2>1, <2>4, CallsFail
      <4> QED
        BY <3>4, <4>1
    <3> QED
      BY <3>2, <3>3, <3>4
  <2> QED
    BY <1>1, <2>3, <2>4
<1> QED
  BY <1>3, <1>4

LEMMA InitWaits == Init => WaitsInDark /\ \A w \in Wish : waiting[w] = 0
<1>1. Init => waiting = [w \in Wish |-> 0]
  BY Zenon DEF Init, Wish
<1>2. waiting = [w \in Wish |-> 0] => \A w \in Wish : waiting[w] = 0
  OBVIOUS
<1> QED
  BY <1>1, <1>2 DEF WaitsInDark

LEMMA WaitsHold == Spec => [](IInv /\ WaitsInDark)
<1>1. Init => IInv /\ WaitsInDark
  BY InitInv, InitWaits
<1>2. IInv /\ WaitsInDark /\ [Next]_vars => (IInv /\ WaitsInDark)'
  BY NextType, NextRecord, DarkStep DEF IInv
<1> QED
  BY <1>1, <1>2, PTL DEF Spec

(* A panel that is wanted on is dark for a minute at most, plus one for    *)
(* each call that failed, as long as records are written and nothing else  *)
(* switches it.                                                            *)
THEOREM DarkForAMinute == Spec => []LitWithinMinute
<1>1. Init => MinuteInv
  <2>1. Init => fails = 0
    BY Zenon DEF Init
  <2> QED
    BY <2>1, InitWaits DEF MinuteInv
<1>2. IInv /\ WaitsInDark /\ MinuteInv /\ [Next]_vars => MinuteInv'
  <2>1. CASE UNCHANGED vars
    BY <2>1 DEF vars, counts, MinuteInv, WillLight, Undisturbed
  <2> QED
    BY <2>1, MinuteStep
<1>3. IInv /\ MinuteInv => LitWithinMinute
  BY BoundAssumption DEF IInv, TypeOK, MinuteInv, LitWithinMinute, Wish
<1> QED
  BY <1>1, <1>2, <1>3, WaitsHold, PTL DEF Spec

-----------------------------------------------------------------------------
(* What REASSERT_SECS is worth when records are lost or false              *)

(* How old the record that the panel is on has become, if a run would      *)
(* trust it now.                                                           *)
Trusted(r) ==
    IF r # NoRecord /\ r.dpms = "on" /\ r.sock = sock /\ r.boot = boot THEN r.age ELSE Reassert

(* A wish waits no longer than the record is old; when the record has run  *)
(* out, for the minute until a run has seen the wish.                      *)
Covered(w, r, lights) ==
    \/ waiting[w] <= Trusted(r) + fails
    \/ waiting[w] <= Reassert + 1 + fails /\ Trusted(r) = Reassert /\ lights

ReassertInv ==
    \A w \in Wish :
        /\ Covered(w, file.applied, WillLight(w))
        /\ run.pc = "write" => Covered(w, run.applied, due)

LEMMA TrustedType == ASSUME NEW r \in Result PROVE Trusted(r) \in 0..Reassert
BY PeriodAssumption DEF Trusted, Result, Record

LEMMA TrustedAged ==
  ASSUME NEW r \in Result
  PROVE  Trusted(Aged(r)) = IF Trusted(r) = Reassert THEN Reassert ELSE Trusted(r) + 1
<1>1. CASE r = NoRecord
  BY <1>1 DEF Trusted, Aged
<1>2. CASE r # NoRecord
  <2>1. r \in Record
    BY <1>2 DEF Result
  <2>2. CASE r.age = Reassert
    BY <2>1, <2>2 DEF Trusted, Aged
  <2>3. CASE r.age # Reassert
    <3>1. Aged(r) = [r EXCEPT !.age = r.age + 1]
      BY <1>2, <2>3 DEF Aged
    <3>2. /\ Aged(r).age = r.age + 1 /\ Aged(r) # NoRecord
          /\ Aged(r).dpms = r.dpms /\ Aged(r).sock = r.sock /\ Aged(r).boot = r.boot
      BY <2>1, <3>1 DEF Record, NoRecord
    <3> QED
      BY <1>2, <2>1, <2>3, <3>2 DEF Trusted
  <2> QED
    BY <2>2, <2>3
<1> QED
  BY <1>1, <1>2

LEMMA ResultsType == ASSUME TypeOK PROVE file.applied \in Result /\ (run.pc = "write" => run.applied \in Result)
BY RunShape DEF TypeOK, Writing

(* While the panel stays dark the session does not change.                 *)
LEMMA SameSession == ASSUME TypeOK, Step, Dark, Dark' PROVE UNCHANGED <<sock, boot>>
BY DEF Step, RunStep, TimerStart, ReadSchedule, CheckWake, Skip, SendDpms, NoSession,
   SendFails, WriteState, WriteFails, Tap, Kick, Minute, Change, SessionEnds, SessionStarts,
   Reboot, Outside, screen, Dark

LEMMA ReassertStep ==
  ASSUME TypeOK, TypeOK', WaitsInDark, ReassertInv, Next
  PROVE  ReassertInv'
<1> SUFFICES ASSUME NEW w \in Wish
             PROVE  /\ Covered(w, file.applied, WillLight(w))'
                    /\ run'.pc = "write" => Covered(w, run.applied, due)'
  BY DEF ReassertInv
<1> USE DEF Next
<1>1. /\ Covered(w, file.applied, WillLight(w))
      /\ run.pc = "write" => Covered(w, run.applied, due)
  BY DEF ReassertInv
<1>2. waiting[w] \in Nat /\ waiting'[w] \in Nat /\ fails \in Nat /\ fails' \in Nat
  BY WaitingStep, CallsFail, BoundAssumption DEF TypeOK
<1>3. file.applied \in Result /\ (run.pc = "write" => run.applied \in Result)
  BY ResultsType
<1>4. file'.applied \in Result /\ (run'.pc = "write" => run'.applied \in Result)
  BY DEF TypeOK, Deciding, Applying, Writing, IdleRun
<1>5. CASE waiting'[w] = 0
  <2>1. ASSUME NEW r \in Result PROVE Trusted(r)' \in 0..Reassert
    BY PeriodAssumption DEF Trusted, Result, Record
  <2>2. Trusted(file.applied)' \in Nat /\ (run'.pc = "write" => Trusted(run.applied)' \in Nat)
    BY <1>4, <2>1, PeriodAssumption
  <2> QED
    BY <1>2, <1>5, <2>2 DEF Covered
<1>6. CASE waiting'[w] > 0 /\ Minute
  <2>1. ~WillLight(w) /\ run'.pc # "write" /\ WillLight(w)'
    BY <1>6 DEF Minute, WillLight, IdleRun
  <2>2. waiting'[w] <= waiting[w] + 1 /\ UNCHANGED <<fails, sock, boot>>
    BY <1>2, <1>6, WaitingStep DEF Minute, counts, screen
  <2>3. waiting[w] <= Trusted(file.applied) + fails /\ Trusted(file.applied) \in 0..Reassert
    BY <1>1, <1>3, <2>1, TrustedType DEF Covered
  <2>4. file'.applied = Aged(file.applied)
    BY <1>6 DEF Minute, TypeOK
  <2>5. Trusted(file.applied)' = Trusted(Aged(file.applied))
    BY <2>2, <2>4 DEF Trusted
  <2>6. Trusted(file.applied)' = IF Trusted(file.applied) = Reassert THEN Reassert ELSE Trusted(file.applied) + 1
    BY <1>3, <2>5, TrustedAged
  <2>7. \/ waiting'[w] <= Trusted(file.applied)' + fails'
        \/ waiting'[w] <= Reassert + 1 + fails' /\ Trusted(file.applied)' = Reassert
    BY <1>2, <2>2, <2>3, <2>6, PeriodAssumption
  <2> QED
    BY <2>1, <2>7 DEF Covered
<1>7. CASE waiting'[w] > 0 /\ ~Minute
  <2>1. waiting'[w] = waiting[w] /\ Dark'
    BY <1>7, MinuteMakesDue, WaitingStep
  <2>2. Dark /\ w \in Wishes
    BY <1>7, <2>1 DEF WaitsInDark
  <2>3. UNCHANGED <<sock, boot>>
    BY <2>1, <2>2, SameSession
  <2>4. \A r : Trusted(r)' = Trusted(r)
    BY <2>3 DEF Trusted
  <2>5. Trusted(file.applied) \in 0..Reassert /\ Reassert \in Nat
    BY <1>3, TrustedType, PeriodAssumption
  <2>6. CASE SendFails
    <3>1. fails' = fails + 1 /\ file' = file /\ run'.pc = "write" /\ run'.applied = NoRecord
      BY <2>6, EndsType DEF SendFails, FailedRecord, Result
    <3>2. Trusted(run.applied)' = Reassert
      BY <3>1 DEF Trusted
    <3>3. Trusted(file.applied)' = Trusted(file.applied)
      BY <2>3, <3>1 DEF Trusted
    <3>4. waiting'[w] <= Trusted(file.applied)' + fails' /\ waiting'[w] <= Reassert + fails'
      BY <1>1, <1>2, <2>1, <2>5, <3>1, <3>3 DEF Covered
    <3> QED
      BY <3>2, <3>4 DEF Covered
  <2>7. CASE WriteState
    <3>1. /\ file'.applied = run.applied /\ run.pc = "write" /\ run'.pc = "idle"
          /\ UNCHANGED <<fails, due>>
      BY <2>7 DEF WriteState, IdleRun, counts
    <3>2. Trusted(file.applied)' = Trusted(run.applied)
      BY <2>3, <3>1 DEF Trusted
    <3>3. due => WillLight(w)'
      BY <3>1 DEF WillLight
    <3> QED
      BY <1>1, <2>1, <3>1, <3>2, <3>3 DEF Covered
  <2>8. CASE Skip
    <3>1. /\ run'.pc = "write" /\ run'.applied = file.applied /\ file' = file
          /\ UNCHANGED <<fails, due>>
      BY <1>3, <2>8, EndsType DEF Skip, counts
    <3>2. Trusted(file.applied)' = Trusted(file.applied) /\ Trusted(run.applied)' = Trusted(file.applied)
      BY <2>3, <3>1 DEF Trusted
    <3>3. run.on => Trusted(file.applied) # Reassert
      BY <1>3, <2>8, PeriodAssumption DEF Skip, Recorded, Verb, Trusted, Result, Record
    <3>4. ~run.on /\ WillLight(w) => due
      BY <2>8 DEF Skip, WillLight
    <3>5. due => WillLight(w)'
      BY <3>1 DEF WillLight
    <3> QED
      BY <1>1, <2>1, <3>1, <3>2, <3>3, <3>4, <3>5 DEF Covered
  <2>9. CASE SendDpms
    <3>1. ~run.on
      BY <2>1, <2>9 DEF SendDpms, Verb, Dark
    <3>2. /\ run'.applied.dpms = "off" /\ file' = file /\ UNCHANGED <<fails, due>>
      BY <2>9, <3>1 DEF SendDpms, Ends, Verb, counts
    <3>3. Trusted(file.applied)' = Trusted(file.applied) /\ Trusted(run.applied)' = Reassert
      BY <2>3, <3>2 DEF Trusted
    <3>4. WillLight(w) => due
      BY <2>9, <3>1 DEF SendDpms, WillLight
    <3>5. due => WillLight(w)'
      BY <3>2 DEF WillLight
    <3>6. waiting[w] <= Reassert + fails \/ (waiting[w] <= Reassert + 1 + fails /\ due)
      BY <1>1, <1>2, <2>5, <3>4 DEF Covered
    <3> QED
      BY <1>1, <2>1, <3>2, <3>3, <3>4, <3>5, <3>6 DEF Covered
  <2>10. CASE ~(SendFails \/ WriteState \/ Skip \/ SendDpms)
    <3>1. UNCHANGED <<file, fails>>
      BY <1>7, <2>10 DEF Step, RunStep, TimerStart, ReadSchedule, CheckWake, NoSession, WriteFails,
         Tap, Kick, Change, SessionEnds, SessionStarts, Reboot, Outside, counts
    <3>2. WillLight(w) => WillLight(w)'
      BY <2>1, <2>2, <2>10, StepLights
    <3>3. run'.pc = "write" => UNCHANGED <<run, due>>
      <4>1. CASE TimerStart \/ (Kick /\ run = IdleRun)
        BY <4>1, StartType DEF TimerStart, Kick
      <4>2. CASE ReadSchedule \/ CheckWake
        BY <4>2, DecideType
      <4>3. CASE NoSession \/ SessionEnds \/ SessionStarts \/ Reboot
        BY <2>1, <2>2, <4>3 DEF NoSession, SessionEnds, SessionStarts, Reboot, Dark
      <4>4. CASE WriteFails
        BY <4>4 DEF WriteFails, IdleRun
      <4>5. CASE Tap \/ Change \/ Outside \/ (Kick /\ run # IdleRun)
        BY <4>5 DEF Tap, Change, Outside, Kick
      <4> QED
        BY <1>7, <2>10, <4>1, <4>2, <4>3, <4>4, <4>5 DEF Step, RunStep
    <3>4. Trusted(file.applied)' = Trusted(file.applied)
      BY <2>3, <3>1 DEF Trusted
    <3>5. run'.pc = "write" => Trusted(run.applied)' = Trusted(run.applied) /\ run.pc = "write"
      BY <2>3, <3>3 DEF Trusted
    <3> QED
      BY <1>1, <2>1, <3>1, <3>2, <3>3, <3>4, <3>5 DEF Covered
  <2> QED
    BY <2>6, <2>7, <2>8, <2>9, <2>10
<1> QED
  BY <1>2, <1>5, <1>6, <1>7

(* Whatever is lost, and whoever else switches the panel, a panel that is  *)
(* wanted on is not dark for longer than REASSERT_SECS and one minute,     *)
(* plus a minute for each call that failed.                                *)
THEOREM DarkForAReassert == Spec => []LitWithinReassert
<1>1. Init => ReassertInv
  <2> SUFFICES ASSUME Init PROVE ReassertInv
    OBVIOUS
  <2>1. file.applied = NoRecord /\ run.pc = "idle" /\ fails = 0
    BY DEF Init, IdleRun
  <2>2. Trusted(file.applied) = Reassert
    BY <2>1 DEF Trusted
  <2>3. \A w \in Wish : waiting[w] <= Trusted(file.applied) + fails
    BY <2>1, <2>2, InitWaits, PeriodAssumption
  <2> QED
    BY <2>1, <2>3 DEF ReassertInv, Covered
<1>2. IInv /\ WaitsInDark /\ ReassertInv /\ [Next]_vars => ReassertInv'
  <2>1. CASE UNCHANGED vars
    BY <2>1 DEF vars, screen, counts, ReassertInv, Covered, Trusted, WillLight
  <2> QED
    BY <2>1, ReassertStep, NextType DEF IInv
<1>3. IInv /\ ReassertInv => LitWithinReassert
  <2> SUFFICES ASSUME TypeOK, ReassertInv, NEW w \in Wish PROVE waiting[w] <= Reassert + 1 + fails
    BY DEF IInv, TypeOK, LitWithinReassert, Wish
  <2>1. Trusted(file.applied) \in 0..Reassert /\ Reassert \in Nat /\ fails \in Nat /\ waiting[w] \in Nat
    BY ResultsType, TrustedType, PeriodAssumption, BoundAssumption DEF TypeOK, Wish
  <2> QED
    BY <2>1 DEF ReassertInv, Covered
<1> QED
  BY <1>1, <1>2, <1>3, WaitsHold, PTL DEF Spec
=============================================================================
