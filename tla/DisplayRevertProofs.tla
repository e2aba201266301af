------------------------- MODULE DisplayRevertProofs -------------------------
(***************************************************************************)
(* The bookkeeping of the auto-revert, for every number of outputs and     *)
(* settings and with every overlap and failure allowed: the timers wait in *)
(* the order of their tokens, and the pending change owns the last one.    *)
(* So a pending change always has its timer, and only that timer undoes    *)
(* it, when no other one is left.  And on a calm course: screens and       *)
(* settings file hold what was accepted.                                   *)
(***************************************************************************)
EXTENDS DisplayRevert, TLAPS

(* Tokens are handed out in order and timers started in that order.        *)
TimersOrdered ==
    /\ \A i \in DOMAIN timers : timers[i].token \in 1..applies
    /\ \A i, j \in DOMAIN timers : i < j => timers[i].token < timers[j].token

(* The pending change is the one whose timer was started last.             *)
PendingIsLast ==
    pending # NoRevert =>
        timers # <<>> /\ pending = timers[Len(timers)]

IInv == TypeOK /\ TimersOrdered /\ PendingIsLast

-----------------------------------------------------------------------------
LEMMA WithSetting == ASSUME NEW s \in Setting, NEW e \in Entry PROVE With(s, e) \in Setting
  BY DEF Setting, Entry, With, Same

LEMMA RestoredSetting == ASSUME NEW e \in Entry PROVE Restored(e) \in Setting
  <1>1. [t |-> Same, m |-> Better] \in Entry
    BY SettingAssumption DEF Entry
  <1> QED
    BY <1>1, WithSetting, SettingAssumption DEF Restored, Wanted

LEMMA SettingEntry == NoEntry \in Entry /\ \A s \in Setting : s \in Entry
  BY DEF Setting, Entry, NoEntry

LEMMA SentEntry == ASSUME NEW e \in Entry, NEW lost PROVE Sent(e, lost) \in Entry
  BY DEF Entry, Sent

LEMMA WantedEntry == ASSUME NEW e \in Entry PROVE Wanted(e) \in Entry
  BY SettingAssumption DEF Entry, Wanted, NoEntry

LEMMA RandrLive ==
    ASSUME TypeOK, NEW o \in Outputs, NEW e \in Entry PROVE Randr(o, e) \in [Outputs -> Setting]
  <1>1. live \in [Outputs -> Setting]
    BY DEF TypeOK
  <1>2. With(live[o], e) \in Setting
    BY <1>1, WithSetting
  <1> QED
    BY <1>1, <1>2 DEF Randr

LEMMA PreviousEntry == ASSUME TypeOK, NEW o \in Outputs PROVE Previous(o) \in Entry
  BY SettingEntry DEF TypeOK, Previous

LEMMA SnapshotSaved ==
    ASSUME TypeOK PROVE Snapshot \in [Outputs -> Entry] /\ NoneListed \in [Outputs -> Entry]
  BY SettingEntry DEF TypeOK, Snapshot, NoneListed

LEMMA SetUpType ==
    ASSUME TypeOK, NEW P \in SUBSET Outputs, NEW waiting, SetUp(P, waiting)
    PROVE  live' \in [Outputs -> Setting] /\ strays' \subseteq Outputs /\ mishaps' \in Nat
  <1>1. PICK lost \in [P -> SUBSET Field] :
           /\ live' = [o \in Outputs |->
                         IF o \in P THEN With(Boot, Sent(Wanted(saved[o]), lost[o])) ELSE live[o]]
           /\ strays' = (strays \ (P \ waiting)) \cup {o \in P : lost[o] # {}}
           /\ MishapUnless(\A o \in P : lost[o] = {})
    BY DEF SetUp
  <1>2. ASSUME NEW o \in Outputs PROVE With(Boot, Sent(Wanted(saved[o]), lost[o])) \in Setting
    <2>1. saved[o] \in Entry
      BY DEF TypeOK
    <2>2. Wanted(saved[o]) \in Entry
      BY <2>1, WantedEntry
    <2>3. Sent(Wanted(saved[o]), lost[o]) \in Entry
      BY <2>2, SentEntry
    <2> QED
      BY <2>3, WithSetting, SettingAssumption
  <1>3. live' \in [Outputs -> Setting]
    BY <1>1, <1>2 DEF TypeOK
  <1>4. strays' \subseteq Outputs
    BY <1>1 DEF TypeOK
  <1>5. mishaps' \in Nat
    BY <1>1 DEF TypeOK, Mishap, MishapUnless
  <1> QED
    BY <1>3, <1>4, <1>5

-----------------------------------------------------------------------------
(* Type correctness, action by action.                                     *)

LEMMA InitType == Init => TypeOK
  <1> SUFFICES ASSUME Init PROVE TypeOK
    OBVIOUS
  <1>1. saved \in [Outputs -> Entry]
    BY SettingEntry DEF Init
  <1>2. live \in [Outputs -> Setting]
    BY SettingEntry, RestoredSetting DEF Init
  <1>3. timers \in Seq(Revert)
    BY DEF Init
  <1> QED
    BY <1>1, <1>2, <1>3 DEF Init, TypeOK

LEMMA ApplyType ==
    ASSUME TypeOK, NEW o \in Outputs, NEW t \in Transforms \cup {Same},
           NEW m \in UiModes \cup {Same}, ApplyChange(o, t, m) \/ ApplyPartly(o, t, m)
    PROVE  TypeOK'
  <1>1. [t |-> t, m |-> m] \in Entry
    BY SettingAssumption DEF Entry
  <1>2. live' \in [Outputs -> Setting]
    BY <1>1, RandrLive DEF ApplyChange, ApplyPartly
  <1>3. /\ pending' \in Revert \cup {NoRevert} /\ timers' \in Seq(Revert)
        /\ mishaps' \in Nat
    <2>1. CASE ApplyPartly(o, t, m)
      BY <2>1 DEF ApplyPartly, admin, TypeOK
    <2>2. CASE ApplyChange(o, t, m)
      <3>1. PICK listed \in {Previous(o), NoEntry} :
               LET r == [token |-> applies + 1, o |-> o, prev |-> listed]
               IN  /\ pending' = r /\ timers' = TimersWith(r)
                   /\ MishapUnless(listed = Previous(o))
        BY <2>2 DEF ApplyChange
      <3> DEFINE r == [token |-> applies + 1, o |-> o, prev |-> listed]
      <3>2. listed \in Entry
        BY PreviousEntry, SettingEntry
      <3>3. r \in Revert
        BY <3>2 DEF TypeOK, Revert
      <3>4. pending' = r /\ timers' = Append(timers, r)
        BY <3>1 DEF TimersWith
      <3>5. timers \in Seq(Revert)
        BY DEF TypeOK
      <3>6. mishaps' \in Nat
        BY <3>1 DEF TypeOK, Mishap, MishapUnless
      <3> HIDE DEF r
      <3> QED
        BY <3>3, <3>4, <3>5, <3>6
    <2> QED
      BY <2>1, <2>2
  <1>4. strays' \subseteq Outputs
    BY DEF TypeOK, ApplyChange, ApplyPartly
  <1>5. applies' \in Nat /\ course' \in {"calm", "rough"}
    BY DEF TypeOK, ApplyChange, ApplyPartly, RoughUnless
  <1>6. UNCHANGED <<plugged, restored, event, saved, cloud, kept, clouds>>
    BY DEF ApplyChange, ApplyPartly
  <1> QED
    BY <1>2, <1>3, <1>4, <1>5, <1>6 DEF TypeOK

LEMMA SavingType ==
    ASSUME TypeOK, ApplyBrightness \/ Confirm PROVE TypeOK'
  <1>1. saved' \in [Outputs -> Entry]
    BY SnapshotSaved DEF ApplyBrightness, Confirm, Persist, TypeOK
  <1>2. kept' \in [Outputs -> Setting] /\ strays' \subseteq Outputs
    BY DEF ApplyBrightness, Confirm, TypeOK, Revert, NoRevert
  <1>3. pending' \in Revert \cup {NoRevert}
    BY DEF ApplyBrightness, Confirm, TypeOK, admin
  <1>4. course' \in {"calm", "rough"}
    BY DEF ApplyBrightness, Confirm, RoughUnless, TypeOK
  <1>5. mishaps' \in Nat /\ applies' \in Nat
    BY DEF ApplyBrightness, Confirm, Persist, MishapUnless, Mishap, TypeOK
  <1> QED
    BY <1>1, <1>2, <1>3, <1>4, <1>5 DEF TypeOK, ApplyBrightness, Confirm, admin, screen

LEMMA UndoType ==
    ASSUME TypeOK, NEW r \in Revert, Undo(r)
    PROVE  /\ live' \in [Outputs -> Setting] /\ strays' \subseteq Outputs
           /\ mishaps' \in Nat /\ pending' = NoRevert
  <1>1. PICK lost \in SUBSET Field :
           /\ live' = Randr(r.o, Sent(r.prev, lost))
           /\ strays' = IF lost = {} /\ r.prev # NoEntry THEN strays ELSE strays \cup {r.o}
           /\ MishapUnless(lost = {})
    BY DEF Undo
  <1>2. r.o \in Outputs /\ r.prev \in Entry
    BY DEF Revert
  <1>3. Sent(r.prev, lost) \in Entry
    BY <1>2, SentEntry
  <1>4. live' \in [Outputs -> Setting]
    BY <1>1, <1>2, <1>3, RandrLive
  <1>5. strays' \subseteq Outputs
    BY <1>1, <1>2 DEF TypeOK
  <1>6. mishaps' \in Nat
    BY <1>1 DEF TypeOK, Mishap, MishapUnless
  <1> QED
    BY <1>4, <1>5, <1>6 DEF Undo

LEMMA RevertType ==
    ASSUME TypeOK, RevertNow \/ AutoRevert PROVE TypeOK'
  <1>1. timers' \in Seq(Revert)
    <2>1. timers \in Seq(Revert)
      BY DEF TypeOK
    <2>2. timers' = timers \/ (timers # <<>> /\ timers' = Tail(timers))
      BY DEF RevertNow, AutoRevert
    <2> QED
      BY <2>1, <2>2
  <1>2. /\ live' \in [Outputs -> Setting] /\ strays' \subseteq Outputs
        /\ mishaps' \in Nat /\ pending' \in Revert \cup {NoRevert}
    <2>1. CASE RevertNow
      <3>1. pending \in Revert /\ Undo(pending)
        BY <2>1 DEF RevertNow, TypeOK
      <3> QED
        BY <3>1, UndoType
    <2>2. CASE AutoRevert /\ StillPending(Head(timers))
      <3>1. Head(timers) \in Revert /\ Undo(Head(timers))
        BY <2>2 DEF AutoRevert, TypeOK
      <3>2. PICK r \in Revert : r = Head(timers)
        BY <3>1
      <3> QED
        BY <3>1, <3>2, UndoType
    <2>3. CASE AutoRevert /\ ~StillPending(Head(timers))
      BY <2>3 DEF AutoRevert, TypeOK
    <2> QED
      BY <2>1, <2>2, <2>3
  <1>3. UNCHANGED <<plugged, restored, event, saved, cloud, kept, course, applies, clouds>>
    BY DEF RevertNow, AutoRevert
  <1> QED
    BY <1>1, <1>2, <1>3 DEF TypeOK

LEMMA CloudType ==
    ASSUME TypeOK,
           (\E o \in Outputs, m \in Modes : CloudSet(o, m)) \/ CloudRead \/ CloudWrite \/ CloudDies
    PROVE  TypeOK'
  <1> DEFINE Helper == [pc : {"set", "read"}, o : Outputs, m : Modes, data : [Outputs -> Entry]]
  <1>1. CASE \E o \in Outputs, m \in Modes : CloudSet(o, m)
    <2>1. PICK o \in Outputs, m \in Modes : CloudSet(o, m)
      BY <1>1
    <2>2. [t |-> Same, m |-> m] \in Entry
      BY DEF Entry
    <2>3. live' \in [Outputs -> Setting]
      BY <2>1, <2>2, RandrLive DEF CloudSet
    <2>4. NoneListed \in [Outputs -> Entry]
      BY SnapshotSaved
    <2>5. cloud' \in Helper
      BY <2>1, <2>4 DEF CloudSet
    <2> QED
      BY <2>1, <2>3, <2>5 DEF TypeOK, CloudSet, RoughUnless, admin
  <1>2. CASE CloudRead
    <2>1. cloud \in Helper /\ saved \in [Outputs -> Entry]
      BY <1>2 DEF CloudRead, TypeOK, Idle
    <2>2. cloud' \in Helper
      BY <1>2, <2>1 DEF CloudRead
    <2> QED
      BY <1>2, <2>2 DEF TypeOK, CloudRead, admin, screen, observers, counters
  <1>3. CASE CloudWrite
    <2>1. cloud \in Helper
      BY <1>3 DEF CloudWrite, TypeOK, Idle
    <2>2. saved' \in [Outputs -> Entry]
      BY <1>3, <2>1 DEF CloudWrite, CloudEntry, Entry
    <2>3. kept' \in [Outputs -> Setting]
      BY <1>3, <2>1 DEF CloudWrite, TypeOK, Setting
    <2> QED
      BY <1>3, <2>2, <2>3 DEF TypeOK, CloudWrite, admin, screen, counters
  <1>4. CASE CloudDies
    <2>1. cloud.o \in Outputs
      BY <1>4 DEF CloudDies, TypeOK
    <2>2. strays' \subseteq Outputs /\ mishaps' \in Nat
      BY <1>4, <2>1 DEF CloudDies, TypeOK, Mishap
    <2> QED
      BY <1>4, <2>2 DEF TypeOK, CloudDies, admin, screen
  <1> QED
    BY <1>1, <1>2, <1>3, <1>4

LEMMA PlugType ==
    ASSUME TypeOK, (\E o \in Outputs : Unplug(o) \/ Plug(o)) \/ Reconcile \/ ReconcileBlind
    PROVE  TypeOK'
  <1>1. CASE \E o \in Outputs : Unplug(o)
    BY <1>1 DEF Unplug, Mishap, RoughUnless, TypeOK, admin
  <1>2. CASE \E o \in Outputs : Plug(o)
    BY <1>2, SettingAssumption DEF Plug, TypeOK, admin, observers, counters
  <1>3. CASE Reconcile
    <2>1. plugged \ restored \in SUBSET Outputs
      BY DEF TypeOK
    <2>2. live' \in [Outputs -> Setting] /\ strays' \subseteq Outputs /\ mishaps' \in Nat
      BY <1>3, <2>1, SetUpType DEF Reconcile
    <2>3. restored' = plugged /\ plugged' = plugged /\ event' = FALSE
      BY <1>3 DEF Reconcile, StillThere
    <2>4. UNCHANGED <<saved, pending, timers, cloud, kept, course, applies, clouds>>
      BY <1>3 DEF Reconcile, admin
    <2> QED
      BY <2>2, <2>3, <2>4 DEF TypeOK
  <1>4. CASE ReconcileBlind
    <2>1. mishaps' \in Nat /\ course' \in {"calm", "rough"}
      BY <1>4 DEF ReconcileBlind, Mishap, RoughUnless, TypeOK
    <2>2. restored' = {} /\ event' = FALSE
      BY <1>4 DEF ReconcileBlind
    <2>3. UNCHANGED <<live, plugged, saved, pending, timers, cloud, kept, strays, applies, clouds>>
      BY <1>4 DEF ReconcileBlind, admin
    <2> QED
      BY <2>1, <2>2, <2>3 DEF TypeOK
  <1> QED
    BY <1>1, <1>2, <1>3, <1>4

LEMMA RestartType ==
    ASSUME TypeOK, SessionRestart \/ ServerRestart \/ Reboot PROVE TypeOK'
  <1>0. plugged \in SUBSET Outputs
    BY DEF TypeOK
  <1>1. CASE SessionRestart
    <2>1. live' \in [Outputs -> Setting] /\ strays' \subseteq Outputs /\ mishaps' \in Nat
      BY <1>0, <1>1, SetUpType DEF SessionRestart
    <2> QED
      BY <1>1, <2>1 DEF SessionRestart, RoughUnless, TypeOK, admin
  <1>2. CASE ServerRestart
    <2>1. strays' \subseteq Outputs /\ mishaps' \in Nat
      BY <1>2 DEF ServerRestart, Mishap, TypeOK, Revert
    <2>2. timers' \in Seq(Revert) /\ pending' = NoRevert
      BY <1>2 DEF ServerRestart
    <2> QED
      BY <1>2, <2>1, <2>2 DEF ServerRestart, TypeOK, screen
  <1>3. CASE Reboot
    <2>1. live' \in [Outputs -> Setting] /\ strays' \subseteq Outputs /\ mishaps' \in Nat
      BY <1>0, <1>3, SetUpType DEF Reboot
    <2>2. timers' \in Seq(Revert) /\ pending' = NoRevert /\ cloud' = Idle
      BY <1>3 DEF Reboot
    <2> QED
      BY <1>3, <2>1, <2>2 DEF Reboot, TypeOK
  <1> QED
    BY <1>1, <1>2, <1>3

LEMMA NextType == TypeOK /\ [Next]_vars => TypeOK'
  <1>1. ASSUME TypeOK, UNCHANGED vars PROVE TypeOK'
    BY <1>1 DEF TypeOK, vars, admin, screen, observers, counters
  <1> QED
    BY <1>1, ApplyType, SavingType, RevertType, CloudType, PlugType, RestartType DEF Next

-----------------------------------------------------------------------------
(* Order and ownership of the timers.                                      *)

LEMMA ApplyTimers ==
    ASSUME IInv, NEW o \in Outputs, NEW t, NEW m, ApplyChange(o, t, m)
    PROVE  TimersOrdered' /\ PendingIsLast'
  <1>0. PICK listed \in {Previous(o), NoEntry} :
           LET r == [token |-> applies + 1, o |-> o, prev |-> listed]
           IN  pending' = r /\ timers' = TimersWith(r)
    BY DEF ApplyChange
  <1> DEFINE r == [token |-> applies + 1, o |-> o, prev |-> listed]
  <1>1. timers \in Seq(Revert) /\ applies \in Nat
    BY DEF IInv, TypeOK
  <1>2. r \in Revert /\ r.token = applies + 1
    BY PreviousEntry, SettingEntry DEF IInv, TypeOK, Revert
  <1>3. pending' = r /\ timers' = Append(timers, r) /\ applies' = applies + 1
    BY <1>0 DEF ApplyChange, TimersWith
  <1> HIDE DEF r
  <1>4. DOMAIN timers' = 1..(Len(timers) + 1) /\ Len(timers') = Len(timers) + 1
    BY <1>1, <1>2, <1>3
  <1>5. /\ timers'[Len(timers) + 1] = r
        /\ \A i \in DOMAIN timers : timers'[i] = timers[i]
    BY <1>1, <1>2, <1>3
  <1>6. \A i \in DOMAIN timers' : i \in DOMAIN timers \/ i = Len(timers) + 1
    BY <1>1, <1>4
  <1>7. TimersOrdered
    BY DEF IInv
  <1>8. TimersOrdered'
    BY <1>1, <1>2, <1>3, <1>4, <1>5, <1>6, <1>7 DEF TimersOrdered
  <1>9. PendingIsLast'
    BY <1>1, <1>2, <1>3, <1>4, <1>5 DEF PendingIsLast
  <1> QED
    BY <1>8, <1>9

(* The oldest timer leaves; the others keep their order.                   *)
LEMMA TimerLeaves ==
    ASSUME IInv, AutoRevert PROVE TimersOrdered' /\ PendingIsLast'
  <1>1. timers \in Seq(Revert) /\ timers # <<>> /\ timers' = Tail(timers) /\ applies' = applies
    BY DEF IInv, TypeOK, AutoRevert
  <1>2. /\ Len(timers') = Len(timers) - 1 /\ Len(timers) \in Nat \ {0}
        /\ DOMAIN timers' = 1..(Len(timers) - 1)
        /\ \A i \in DOMAIN timers' : timers'[i] = timers[i + 1] /\ i + 1 \in DOMAIN timers
    BY <1>1
  <1>3. TimersOrdered'
    <2>1. ASSUME NEW i \in DOMAIN timers' PROVE timers'[i].token \in 1..applies'
      BY <1>1, <1>2 DEF IInv, TimersOrdered
    <2>2. ASSUME NEW i \in DOMAIN timers', NEW j \in DOMAIN timers', i < j
          PROVE  timers'[i].token < timers'[j].token
      <3>1. i \in Nat /\ j \in Nat /\ i + 1 < j + 1
        BY <1>2, <2>2
      <3>2. timers[i + 1].token < timers[j + 1].token
        BY <1>2, <3>1 DEF IInv, TimersOrdered
      <3> QED
        BY <1>2, <3>2
    <2> QED
      BY <2>1, <2>2 DEF TimersOrdered
  <1>4. ASSUME pending' # NoRevert PROVE timers' # <<>> /\ pending' = timers'[Len(timers')]
    <2>1. pending' = pending /\ pending # NoRevert
      BY <1>4 DEF AutoRevert, Undo
    <2>2. pending.token # Head(timers).token
      BY <1>4, <2>1 DEF AutoRevert, StillPending, Undo
    <2>3. pending = timers[Len(timers)]
      BY <2>1 DEF IInv, PendingIsLast
    <2>4. Len(timers) # 1
      BY <1>1, <2>2, <2>3
    <2>5. Len(timers') \in DOMAIN timers' /\ timers'[Len(timers')] = timers[Len(timers)]
      BY <1>2, <2>4
    <2>6. timers' # <<>>
      BY <2>5
    <2> QED
      BY <2>1, <2>3, <2>5, <2>6
  <1> QED
    BY <1>3, <1>4 DEF PendingIsLast

LEMMA NextInv == IInv /\ [Next]_vars => IInv'
  <1> SUFFICES ASSUME IInv, [Next]_vars PROVE TimersOrdered' /\ PendingIsLast'
    BY NextType DEF IInv
  <1>1. CASE \E o \in Outputs, t \in Transforms \cup {Same}, m \in UiModes \cup {Same} : ApplyChange(o, t, m)
    BY <1>1, ApplyTimers
  <1>2. CASE AutoRevert
    BY <1>2, TimerLeaves
  <1>3. ASSUME timers' = timers, applies' \in {applies, applies + 1}, pending' \in {pending, NoRevert}
        PROVE  TimersOrdered' /\ PendingIsLast'
    BY <1>3 DEF IInv, TypeOK, TimersOrdered, PendingIsLast
  <1>4. CASE \E o \in Outputs, t \in Transforms \cup {Same}, m \in UiModes \cup {Same} : ApplyPartly(o, t, m)
    BY <1>3, <1>4 DEF ApplyPartly, admin
  <1>5. CASE ApplyBrightness \/ Confirm \/ RevertNow
    BY <1>3, <1>5 DEF ApplyBrightness, Confirm, RevertNow, Undo, admin
  <1>6. CASE (\E o \in Outputs, m \in Modes : CloudSet(o, m)) \/ CloudRead \/ CloudWrite \/ CloudDies
    BY <1>3, <1>6 DEF CloudSet, CloudRead, CloudWrite, CloudDies, admin, counters
  <1>7. CASE (\E o \in Outputs : Unplug(o) \/ Plug(o)) \/ Reconcile \/ ReconcileBlind
    BY <1>3, <1>7 DEF Unplug, Plug, Reconcile, ReconcileBlind, admin, counters
  <1>8. ASSUME timers' = <<>>, pending' = NoRevert PROVE TimersOrdered' /\ PendingIsLast'
    BY <1>8 DEF TimersOrdered, PendingIsLast
  <1>9. CASE ServerRestart \/ Reboot
    BY <1>8, <1>9 DEF ServerRestart, Reboot
  <1>10. CASE SessionRestart \/ UNCHANGED vars
    BY <1>3, <1>10 DEF SessionRestart, vars, admin, counters
  <1> QED
    BY <1>1, <1>2, <1>4, <1>5, <1>6, <1>7, <1>9, <1>10 DEF Next

LEMMA InvHolds == Spec => []IInv
  <1>1. Init => IInv
    BY InitType DEF IInv, Init, TimersOrdered, PendingIsLast
  <1> QED
    BY <1>1, NextInv, PTL DEF Spec

-----------------------------------------------------------------------------
(* Screens, settings file, pending change and timers keep their types.     *)
THEOREM TypeCorrect == Spec => []TypeOK
  BY InvHolds, PTL DEF IInv

(* Whatever is applied, restarted, unplugged or changed from the console,  *)
(* a pending change has its own timer running (admin_display_apply).       *)
THEOREM PendingTimed == Spec => []PendingHasTimer
  <1>1. IInv => PendingHasTimer
    BY DEF IInv, TypeOK, PendingIsLast, PendingHasTimer
  <1> QED
    BY <1>1, InvHolds, PTL

(* A timer that reverts anything is the last one left: the token check of  *)
(* _auto_revert_display never lets an older timer cut the window short.    *)
THEOREM WindowIsFull == Spec => FullWindow
  <1>1. IInv /\ [Next]_vars => [AutoRevert /\ pending' # pending => timers' = <<>>]_vars
    <2> SUFFICES ASSUME IInv, AutoRevert, pending' # pending PROVE timers' = <<>>
      OBVIOUS
    <2>1. timers \in Seq(Revert) /\ timers # <<>> /\ timers' = Tail(timers)
      BY DEF IInv, TypeOK, AutoRevert
    <2>2. pending # NoRevert /\ pending.token = Head(timers).token
      BY DEF AutoRevert, StillPending
    <2>3. timers[1].token = timers[Len(timers)].token
      BY <2>1, <2>2 DEF IInv, PendingIsLast
    <2>4. timers[1].token \in 1..applies /\ timers[Len(timers)].token \in 1..applies /\ applies \in Nat
      BY <2>1 DEF IInv, TimersOrdered, TypeOK
    <2>5. Len(timers) = 1
      <3>1. Len(timers) \in Nat \ {0} /\ DOMAIN timers = 1..Len(timers)
        BY <2>1
      <3>2. 1 \in DOMAIN timers /\ Len(timers) \in DOMAIN timers
        BY <3>1
      <3>3. 1 < Len(timers) => timers[1].token < timers[Len(timers)].token
        BY <3>2 DEF IInv, TimersOrdered
      <3> QED
        BY <2>3, <2>4, <3>1, <3>3
    <2> QED
      BY <2>1, <2>5
  <1> QED
    BY <1>1, InvHolds, PTL DEF Spec, FullWindow

-----------------------------------------------------------------------------
(* The calm course                                                         *)

(* But for the strays, the pending change, or the one the fleet helper has *)
(* in hand, every screen shows what was accepted; the file brings all of   *)
(* it back; and what a revert captured of an output that was no stray is   *)
(* what was accepted, or nothing.                                          *)
Shows(o) ==
    IF cloud = Idle
    THEN live[o] = kept[o] \/ (pending # NoRevert /\ pending.o = o)
    ELSE live[o] = IF o = cloud.o THEN [t |-> kept[o].t, m |-> cloud.m] ELSE kept[o]

Accepted ==
    /\ plugged = Outputs /\ restored = Outputs /\ ~event
    /\ \A o \in Outputs : Restored(saved[o]) = kept[o]
    /\ pending # NoRevert =>
           /\ cloud = Idle /\ pending.o \in Outputs
           /\ pending.o \in strays \/ pending.prev \in {kept[pending.o], NoEntry}
    /\ \A o \in Outputs \ strays : Shows(o)
    /\ cloud.pc = "read" => cloud.data = saved

CalmInv == course = "calm" => Accepted

LEMMA WithFull == ASSUME NEW s \in Setting, NEW e \in Setting PROVE With(s, e) = e
  BY SettingAssumption DEF Setting, With

LEMMA RestoredFull == ASSUME NEW s \in Setting PROVE Restored(s) = s
  <1>1. s # NoEntry
    BY SettingAssumption DEF Setting, NoEntry
  <1> QED
    BY <1>1, WithFull, SettingAssumption DEF Restored, Wanted

LEMMA RestoredFields ==
    ASSUME NEW e \in Entry PROVE e.t \in {Same, Restored(e).t} /\ e.m \in {Same, Restored(e).m}
  BY DEF Entry, Restored, Wanted, With, NoEntry

LEMMA RestoredMode ==
    ASSUME NEW e \in Entry, NEW m \in Modes
    PROVE  Restored(CloudEntry(e, m)) = [t |-> Restored(e).t, m |-> m]
  <1>1. CloudEntry(e, m) = [t |-> e.t, m |-> m] /\ m # Same
    BY SettingAssumption DEF CloudEntry, Entry
  <1>2. CloudEntry(e, m) # NoEntry
    BY <1>1 DEF NoEntry
  <1>3. Restored(CloudEntry(e, m)) = [t |-> IF e.t = Same THEN Boot.t ELSE e.t, m |-> m]
    BY <1>1, <1>2 DEF Restored, Wanted, With
  <1>4. Restored(e).t = IF e.t = Same THEN Boot.t ELSE e.t
    BY DEF Restored, Wanted, With, NoEntry, Entry
  <1> QED
    BY <1>3, <1>4

(* A file that holds what the screens show brings that back.               *)
LEMMA SnapshotRestores ==
    ASSUME TypeOK, plugged = Outputs PROVE \A o \in Outputs : Restored(Snapshot[o]) = live[o]
  BY RestoredFull DEF TypeOK, Snapshot

LEMMA ApplyCalm ==
    ASSUME TypeOK, CalmInv, NEW o \in Outputs, NEW t, NEW m,
           ApplyChange(o, t, m) \/ ApplyPartly(o, t, m)
    PROVE  CalmInv'
  <1> SUFFICES ASSUME course' = "calm" PROVE Accepted'
    BY DEF CalmInv
  <1>1. Free /\ course = "calm"
    BY DEF ApplyChange, ApplyPartly, RoughUnless
  <1>2. Accepted /\ cloud = Idle /\ cloud' = Idle /\ pending = NoRevert
    BY <1>1 DEF CalmInv, Free, Quiet, ApplyChange, ApplyPartly
  <1>3. \A q \in Outputs : q # o => live'[q] = live[q]
    BY <1>2 DEF ApplyChange, ApplyPartly, Randr, TypeOK
  <1>4. \A q \in Outputs \ strays : live[q] = kept[q]
    BY <1>2 DEF Accepted, Shows
  <1>5. UNCHANGED <<plugged, restored, event, saved, kept>> /\ cloud.pc # "read"
    BY <1>2 DEF ApplyChange, ApplyPartly, Idle
  <1>6. CASE ApplyPartly(o, t, m)
    <2>1. strays' = strays \cup {o} /\ pending' = NoRevert
      BY <1>2, <1>6 DEF ApplyPartly, admin
    <2>2. \A q \in Outputs \ strays' : Shows(q)'
      BY <1>2, <1>3, <1>4, <1>5, <2>1 DEF Shows
    <2> QED
      BY <1>2, <1>5, <2>1, <2>2 DEF Accepted
  <1>7. CASE ApplyChange(o, t, m)
    <2>1. PICK listed \in {Previous(o), NoEntry} :
             pending' = [token |-> applies + 1, o |-> o, prev |-> listed]
      BY <1>7 DEF ApplyChange
    <2>2. pending'.o = o /\ pending'.prev = listed /\ pending' # NoRevert /\ strays' = strays
      BY <1>7, <2>1 DEF ApplyChange, NoRevert
    <2>3. o \in strays \/ listed \in {kept[o], NoEntry}
      BY <1>2, <1>4, <2>1 DEF Previous, Accepted
    <2>4. \A q \in Outputs \ strays' : Shows(q)'
      BY <1>2, <1>3, <1>4, <1>5, <2>2 DEF Shows
    <2> QED
      BY <1>2, <1>5, <2>2, <2>3, <2>4 DEF Accepted
  <1> QED
    BY <1>6, <1>7

(* A calm snapshot is taken of what was accepted.                          *)
LEMMA SavingCalm == ASSUME TypeOK, CalmInv, ApplyBrightness \/ Confirm PROVE CalmInv'
  <1> SUFFICES ASSUME course' = "calm" PROVE Accepted'
    BY DEF CalmInv
  <1>1. Quiet /\ course = "calm" /\ saved' = Snapshot /\ strays' = {}
    BY DEF ApplyBrightness, Confirm, RoughUnless, Free
  <1>2. /\ Accepted /\ cloud = Idle /\ cloud' = Idle
        /\ UNCHANGED <<plugged, restored, event, live>>
    BY <1>1 DEF CalmInv, Quiet, ApplyBrightness, Confirm, screen
  <1>3. \A o \in Outputs : Restored(saved'[o]) = live[o]
    BY <1>1, <1>2, SnapshotRestores DEF Accepted
  <1>4. \A o \in Outputs : kept'[o] = live[o]
    <2>1. CASE ApplyBrightness
      <3>1. pending = NoRevert /\ strays = {} /\ kept' = kept
        BY <1>1, <2>1 DEF ApplyBrightness, RoughUnless, Free
      <3> QED
        BY <1>2, <3>1 DEF Accepted, Shows
    <2>2. CASE Confirm
      <3>1. pending # NoRevert /\ pending.o \in Outputs /\ strays \subseteq {pending.o}
        BY <1>1, <1>2, <2>2 DEF Confirm, Accepted
      <3>2. kept' = [kept EXCEPT ![pending.o] = live[pending.o]]
        BY <2>2 DEF Confirm
      <3>3. ASSUME NEW o \in Outputs, o # pending.o PROVE live[o] = kept[o]
        BY <1>2, <3>1, <3>3 DEF Accepted, Shows
      <3> QED
        BY <3>1, <3>2, <3>3 DEF TypeOK
    <2> QED
      BY <2>1, <2>2
  <1>5. pending' = NoRevert
    BY <1>1 DEF ApplyBrightness, Confirm, RoughUnless, Free, admin
  <1>6. \A o \in Outputs : Shows(o)'
    BY <1>2, <1>4 DEF Shows
  <1>7. cloud'.pc # "read"
    BY <1>2 DEF Idle
  <1> QED
    BY <1>2, <1>3, <1>4, <1>5, <1>6, <1>7 DEF Accepted

(* An undone change is what was accepted before, or a stray.               *)
LEMMA UndoCalm ==
    ASSUME TypeOK, CalmInv, pending # NoRevert, Undo(pending),
           UNCHANGED <<plugged, restored, event, saved, cloud, kept, course>>
    PROVE  CalmInv'
  <1> SUFFICES ASSUME course = "calm" PROVE Accepted'
    BY DEF CalmInv
  <1>1. /\ Accepted /\ cloud = Idle /\ pending.o \in Outputs
        /\ pending.o \in strays \/ pending.prev \in {kept[pending.o], NoEntry}
    BY DEF CalmInv, Accepted
  <1>2. PICK lost \in SUBSET Field :
           /\ live' = Randr(pending.o, Sent(pending.prev, lost))
           /\ strays' = IF lost = {} /\ pending.prev # NoEntry
                        THEN strays ELSE strays \cup {pending.o}
    BY DEF Undo
  <1>3. pending' = NoRevert
    BY DEF Undo
  <1>4. \A q \in Outputs : q # pending.o => live'[q] = live[q]
    BY <1>1, <1>2 DEF Randr, TypeOK
  <1>5. ASSUME NEW o \in Outputs, o \notin strays' PROVE live'[o] = kept[o]
    <2>1. CASE o # pending.o
      BY <1>1, <1>2, <1>4, <1>5, <2>1 DEF Accepted, Shows
    <2>2. CASE o = pending.o
      <3>1. lost = {} /\ pending.prev # NoEntry /\ o \notin strays
        BY <1>2, <1>5, <2>2
      <3>2. pending.prev = kept[o]
        BY <1>1, <2>2, <3>1
      <3>3. Sent(pending.prev, lost) = kept[o]
        BY <3>1, <3>2 DEF Sent, TypeOK, Setting
      <3>4. With(live[o], kept[o]) = kept[o]
        BY WithFull DEF TypeOK
      <3>5. live'[o] = With(live[o], Sent(pending.prev, lost))
        BY <1>1, <1>2, <2>2 DEF Accepted, Randr, TypeOK
      <3> QED
        BY <3>3, <3>4, <3>5
    <2> QED
      BY <2>1, <2>2
  <1>6. \A o \in Outputs \ strays' : Shows(o)'
    BY <1>1, <1>5 DEF Shows
  <1> QED
    BY <1>1, <1>3, <1>6 DEF Accepted

LEMMA HeadIsPending ==
    ASSUME IInv, timers # <<>>, StillPending(Head(timers))
    PROVE  Head(timers) = pending
  <1>1. timers \in Seq(Revert) /\ pending # NoRevert /\ pending.token = timers[1].token
    BY DEF IInv, TypeOK, StillPending
  <1>2. Len(timers) \in Nat \ {0} /\ 1 \in DOMAIN timers /\ Len(timers) \in DOMAIN timers
    BY <1>1
  <1>3. pending = timers[Len(timers)]
    BY <1>1 DEF IInv, PendingIsLast
  <1>4. timers[1].token \in Nat
    BY <1>2 DEF IInv, TypeOK, TimersOrdered
  <1>5. ~(1 < Len(timers))
    BY <1>1, <1>2, <1>3, <1>4 DEF IInv, TimersOrdered
  <1> QED
    BY <1>1, <1>2, <1>3, <1>5

LEMMA RevertCalm == ASSUME IInv, CalmInv, RevertNow \/ AutoRevert PROVE CalmInv'
  <1>0. TypeOK
    BY DEF IInv
  <1>1. CASE RevertNow
    BY <1>0, <1>1, UndoCalm DEF RevertNow
  <1>2. CASE AutoRevert
    <2>1. CASE StillPending(Head(timers))
      <3>1. Head(timers) = pending /\ pending # NoRevert
        BY <1>2, <2>1, HeadIsPending DEF AutoRevert, StillPending
      <3> QED
        BY <1>0, <1>2, <2>1, <3>1, UndoCalm DEF AutoRevert
    <2>2. CASE ~StillPending(Head(timers))
      BY <1>2, <2>2 DEF AutoRevert, CalmInv, Accepted, Shows
    <2> QED
      BY <2>1, <2>2
  <1> QED
    BY <1>1, <1>2

LEMMA CloudCalm ==
    ASSUME TypeOK, CalmInv,
           (\E o \in Outputs, m \in Modes : CloudSet(o, m)) \/ CloudRead \/ CloudWrite \/ CloudDies
    PROVE  CalmInv'
  <1> SUFFICES ASSUME course' = "calm" PROVE Accepted'
    BY DEF CalmInv
  <1>1. ASSUME NEW o \in Outputs, NEW m \in Modes, CloudSet(o, m) PROVE Accepted'
    <2>1. Free /\ course = "calm"
      BY <1>1 DEF CloudSet, RoughUnless
    <2>2. Accepted /\ pending = NoRevert /\ pending' = NoRevert /\ cloud = Idle
      BY <1>1, <2>1 DEF CalmInv, Free, Quiet, CloudSet, admin
    <2>3. cloud'.pc = "set" /\ cloud'.o = o /\ cloud'.m = m
      BY <1>1 DEF CloudSet
    <2>4. cloud' # Idle
      BY <2>3 DEF Idle
    <2>5. UNCHANGED <<plugged, restored, event, saved, kept, strays>>
      BY <1>1 DEF CloudSet
    <2>6. m # Same /\ live' = [live EXCEPT ![o] = With(live[o], [t |-> Same, m |-> m])]
      BY <1>1, SettingAssumption DEF CloudSet, Randr
    <2>7. With(live[o], [t |-> Same, m |-> m]) = [t |-> live[o].t, m |-> m]
      BY <2>6 DEF With
    <2>8. ASSUME NEW q \in Outputs \ strays
          PROVE  live'[q] = IF q = o THEN [t |-> kept[q].t, m |-> m] ELSE kept[q]
      <3>1. live[q] = kept[q]
        BY <2>2 DEF Accepted, Shows
      <3> QED
        BY <2>6, <2>7, <3>1 DEF TypeOK
    <2>9. \A q \in Outputs \ strays' : Shows(q)'
      BY <2>3, <2>4, <2>5, <2>8 DEF Shows
    <2> QED
      BY <2>2, <2>3, <2>5, <2>9 DEF Accepted
  <1>2. CASE CloudRead
    <2>1. cloud # Idle /\ Accepted
      BY <1>2 DEF CloudRead, Idle, CalmInv, observers
    <2>2. cloud \in [pc : {"set", "read"}, o : Outputs, m : Modes, data : [Outputs -> Entry]]
      BY <2>1 DEF TypeOK
    <2>3. cloud'.o = cloud.o /\ cloud'.m = cloud.m /\ cloud'.data = saved /\ cloud'.pc = "read"
      BY <1>2, <2>2 DEF CloudRead
    <2>4. UNCHANGED <<plugged, restored, event, live, saved, kept, strays, pending>> /\ cloud' # Idle
      BY <1>2, <2>3 DEF CloudRead, screen, admin, observers, Idle
    <2>5. \A o \in Outputs \ strays' : Shows(o)'
      BY <2>1, <2>3, <2>4 DEF Accepted, Shows
    <2> QED
      BY <2>1, <2>3, <2>4, <2>5 DEF Accepted
  <1>3. CASE CloudWrite
    <2>1. cloud # Idle /\ Accepted /\ cloud.data = saved /\ pending = NoRevert
      BY <1>3 DEF CloudWrite, Idle, CalmInv, Accepted
    <2>2. cloud.o \in Outputs /\ cloud.m \in Modes
      BY <2>1 DEF TypeOK
    <2>3. \A o \in Outputs : kept'[o] = IF o = cloud.o THEN [t |-> kept[o].t, m |-> cloud.m] ELSE kept[o]
      BY <1>3, <2>2 DEF CloudWrite, TypeOK, Setting
    <2>4. \A o \in Outputs : saved'[o] = IF o = cloud.o THEN CloudEntry(saved[o], cloud.m) ELSE saved[o]
      BY <1>3, <2>1, <2>2 DEF CloudWrite, TypeOK
    <2>5. \A o \in Outputs : Restored(saved'[o]) = kept'[o]
      <3>1. \A o \in Outputs : saved[o] \in Entry /\ Restored(saved[o]) = kept[o]
        BY <2>1 DEF TypeOK, Accepted
      <3> QED
        BY <2>2, <2>3, <2>4, <3>1, RestoredMode
    <2>6. UNCHANGED <<plugged, restored, event, live, strays, pending>> /\ cloud' = Idle
      BY <1>3 DEF CloudWrite, screen, admin
    <2>7. \A o \in Outputs \ strays' : live'[o] = kept'[o]
      BY <2>1, <2>3, <2>6 DEF Accepted, Shows
    <2>8. \A o \in Outputs \ strays' : Shows(o)'
      BY <2>6, <2>7 DEF Shows
    <2>9. cloud'.pc # "read"
      BY <2>6 DEF Idle
    <2> QED
      BY <2>1, <2>5, <2>6, <2>8, <2>9 DEF Accepted
  <1>4. CASE CloudDies
    <2>1. cloud # Idle /\ Accepted /\ pending = NoRevert
      BY <1>4 DEF CloudDies, CalmInv, Accepted
    <2>2. /\ UNCHANGED <<plugged, restored, event, live, saved, kept, pending>> /\ cloud' = Idle
          /\ strays' = strays \cup {cloud.o}
      BY <1>4 DEF CloudDies, screen, admin
    <2>3. \A o \in Outputs \ strays' : Shows(o)'
      BY <2>1, <2>2 DEF Accepted, Shows
    <2>4. cloud'.pc # "read"
      BY <2>2 DEF Idle
    <2> QED
      BY <2>1, <2>2, <2>3, <2>4 DEF Accepted
  <1> QED
    BY <1>1, <1>2, <1>3, <1>4

(* After a restart of the session, or a boot, the file is on the screens,  *)
(* but for the outputs whose commands failed.                              *)
LEMMA SetUpShows ==
    ASSUME TypeOK, Accepted, NEW waiting, SetUp(Outputs, waiting)
    PROVE  /\ \A o \in Outputs \ strays' : live'[o] = kept[o]
           /\ strays \cap waiting \subseteq strays'
  <1>1. PICK lost \in [Outputs -> SUBSET Field] :
           /\ live' = [o \in Outputs |->
                         IF o \in Outputs
                         THEN With(Boot, Sent(Wanted(saved[o]), lost[o])) ELSE live[o]]
           /\ strays' = (strays \ (Outputs \ waiting)) \cup {o \in Outputs : lost[o] # {}}
    BY DEF SetUp
  <1>2. ASSUME NEW o \in Outputs, o \notin strays' PROVE live'[o] = kept[o]
    <2>1. lost[o] = {}
      BY <1>1, <1>2
    <2>2. Wanted(saved[o]) \in Entry
      BY WantedEntry DEF TypeOK
    <2>3. Sent(Wanted(saved[o]), {}) = Wanted(saved[o])
      BY <2>2 DEF Sent, Entry
    <2>4. live'[o] = Restored(saved[o])
      BY <1>1, <2>1, <2>3 DEF Restored
    <2> QED
      BY <2>4 DEF Accepted
  <1>3. strays \cap waiting \subseteq strays'
    BY <1>1
  <1> QED
    BY <1>2, <1>3

LEMMA RestartCalm == ASSUME TypeOK, CalmInv, SessionRestart \/ Reboot PROVE CalmInv'
  <1> SUFFICES ASSUME course' = "calm" PROVE Accepted'
    BY DEF CalmInv
  <1>1. course = "calm" /\ cloud' = Idle
    BY DEF SessionRestart, Reboot, RoughUnless, Quiet
  <1>2. /\ Accepted /\ UNCHANGED <<plugged, saved, kept>> /\ ~event'
        /\ restored' = Outputs /\ plugged = Outputs
    BY <1>1 DEF CalmInv, SessionRestart, Reboot, Accepted
  <1>3. CASE Reboot
    <2>1. \A o \in Outputs \ strays' : live'[o] = kept[o]
      BY <1>2, <1>3, SetUpShows DEF Reboot
    <2>2. pending' = NoRevert /\ cloud'.pc # "read"
      BY <1>3 DEF Reboot, Idle
    <2>3. \A o \in Outputs \ strays' : Shows(o)'
      BY <1>1, <1>2, <2>1 DEF Shows
    <2> QED
      BY <1>1, <1>2, <2>2, <2>3 DEF Accepted
  <1>4. CASE SessionRestart
    <2>1. /\ \A o \in Outputs \ strays' : live'[o] = kept[o]
          /\ strays \cap Waiting \subseteq strays'
      BY <1>2, <1>4, SetUpShows DEF SessionRestart
    <2>2. pending' = pending /\ cloud' = cloud
      BY <1>4 DEF SessionRestart, admin
    <2>3. \A o \in Outputs \ strays' : Shows(o)'
      BY <1>1, <1>2, <2>1 DEF Shows
    <2>4. pending # NoRevert /\ pending.o \in strays => pending.o \in strays'
      BY <2>1 DEF Waiting
    <2> QED
      BY <1>1, <1>2, <2>2, <2>3, <2>4 DEF Accepted
  <1> QED
    BY <1>3, <1>4

LEMMA ServerCalm == ASSUME TypeOK, CalmInv, ServerRestart PROVE CalmInv'
  <1> SUFFICES ASSUME course = "calm" PROVE Accepted'
    BY DEF CalmInv, ServerRestart
  <1>1. Accepted
    BY DEF CalmInv
  <1>2. /\ UNCHANGED <<plugged, restored, event, live, saved, kept, cloud>>
        /\ pending' = NoRevert
        /\ strays' = IF pending = NoRevert THEN strays ELSE strays \cup {pending.o}
    BY DEF ServerRestart, screen
  <1>3. \A o \in Outputs \ strays' : Shows(o)'
    BY <1>1, <1>2 DEF Accepted, Shows
  <1> QED
    BY <1>1, <1>2, <1>3 DEF Accepted

(* With every output set up, an event of sway changes nothing.             *)
LEMMA ReconcileCalm == ASSUME TypeOK, CalmInv, Reconcile PROVE CalmInv'
  <1> SUFFICES ASSUME course = "calm" PROVE Accepted'
    BY DEF CalmInv, Reconcile
  <1>1. Accepted
    BY DEF CalmInv
  <1>2. plugged \ restored = {}
    BY <1>1 DEF Accepted
  <1>3. PICK lost \in [{} -> SUBSET Field] :
           /\ live' = [o \in Outputs |->
                         IF o \in {} THEN With(Boot, Sent(Wanted(saved[o]), lost[o])) ELSE live[o]]
           /\ strays' = (strays \ ({} \ Waiting)) \cup {o \in {} : lost[o] # {}}
    BY <1>2 DEF Reconcile, SetUp
  <1>4. live' = live /\ strays' = strays
    BY <1>3 DEF TypeOK
  <1>5. /\ UNCHANGED <<plugged, saved, kept, cloud, pending>> /\ ~event'
        /\ restored' = Outputs
    BY <1>1 DEF Reconcile, StillThere, Accepted, admin
  <1>6. \A o \in Outputs \ strays' : Shows(o)'
    BY <1>1, <1>4, <1>5 DEF Accepted, Shows
  <1> QED
    BY <1>1, <1>4, <1>5, <1>6 DEF Accepted

LEMMA NextCalm == ASSUME IInv, CalmInv, [Next]_vars PROVE CalmInv'
  <1>0. TypeOK
    BY DEF IInv
  <1>1. CASE ReconcileBlind \/ \E o \in Outputs : Unplug(o)
    BY <1>1 DEF ReconcileBlind, Unplug, RoughUnless, CalmInv
  <1>2. CASE \E o \in Outputs : Plug(o)
    BY <1>2 DEF Plug, CalmInv, Accepted, observers
  <1>3. CASE UNCHANGED vars
    BY <1>3 DEF vars, screen, admin, observers, CalmInv, Accepted, Shows
  <1>4. CASE \E o \in Outputs, t \in Transforms \cup {Same}, m \in UiModes \cup {Same} :
                ApplyChange(o, t, m) \/ ApplyPartly(o, t, m)
    BY <1>0, <1>4, ApplyCalm
  <1>5. CASE ApplyBrightness \/ Confirm \/ RevertNow \/ AutoRevert
    BY <1>0, <1>5, SavingCalm, RevertCalm
  <1>6. CASE (\E o \in Outputs, m \in Modes : CloudSet(o, m)) \/ CloudRead \/ CloudWrite \/ CloudDies
    BY <1>0, <1>6, CloudCalm
  <1>7. CASE Reconcile \/ SessionRestart \/ ServerRestart \/ Reboot
    BY <1>0, <1>7, ReconcileCalm, RestartCalm, ServerCalm
  <1> QED
    BY <1>1, <1>2, <1>3, <1>4, <1>5, <1>6, <1>7 DEF Next

LEMMA CalmHolds == Spec => []CalmInv
  <1>1. Init => CalmInv
    <2> SUFFICES ASSUME Init PROVE Accepted
      BY DEF CalmInv
    <2>1. \A o \in Outputs : live[o] = Restored(NoEntry) /\ kept[o] = live[o] /\ saved[o] = NoEntry
      BY DEF Init
    <2> QED
      BY <2>1 DEF Init, Accepted, Shows, Idle
  <1> QED
    BY <1>1, NextCalm, InvHolds, PTL DEF Spec

(* On a calm course every screen but the strays shows what was last        *)
(* accepted for it, once nothing is pending: however often the session or  *)
(* the box restarts, nothing unconfirmed stays and nothing accepted is     *)
(* lost, and an output left astray by a failed command is back after the   *)
(* next restart that sets it up.                                           *)
THEOREM AcceptedStays == Spec => []SettledOnAccepted
  <1>1. CalmInv => SettledOnAccepted
    BY DEF CalmInv, Accepted, Shows, SettledOnAccepted, Settled
  <1> QED
    BY <1>1, CalmHolds, PTL

(* On a calm course the file holds nothing that was not accepted, during   *)
(* the countdown and after a failed revert too, as long as no snapshot is  *)
(* taken of the stray.                                                     *)
THEOREM UnconfirmedNotSaved == Spec => []OnlyAcceptedSaved
  <1>1. TypeOK /\ CalmInv => OnlyAcceptedSaved
    BY RestoredFields DEF TypeOK, CalmInv, Accepted, OnlyAcceptedSaved
  <1>2. Spec => []TypeOK
    BY TypeCorrect
  <1> QED
    BY <1>1, <1>2, CalmHolds, PTL

=============================================================================
