---------------------------- MODULE HeartbeatProofs ----------------------------
(***************************************************************************)
(* Theorems about KioskConf and Heartbeat, for every set of pages and      *)
(* output maps and any number of faults: what the two writers of           *)
(* kiosk.conf, without a lock, do to it one at a time.                     *)
(***************************************************************************)
EXTENDS Heartbeat, TLAPS

(* What a caller may pass to write_config.                                 *)
Changes(changes) ==
    /\ DOMAIN changes \subseteq Key
    /\ "slug" \in DOMAIN changes => changes["slug"] \in BOOLEAN
    /\ "id" \in DOMAIN changes => changes["id"] \in BOOLEAN
    /\ "name" \in DOMAIN changes => changes["name"] \in Names
    /\ "display" \in DOMAIN changes => changes["display"] \in Display
    /\ "layout" \in DOMAIN changes => changes["layout"] \in {"mirror", "independent"}

-----------------------------------------------------------------------------
(* Types                                                                   *)

LEMMA RereadType ==
  ASSUME NEW value \in 0..MaxQuotes
  PROVE  Reread("name", value) \in 0..MaxQuotes
BY ServerOpsAssumption DEF Reread

LEMMA NameType == \A name \in Names \cup {0} : name \in 0..MaxQuotes
BY NamesAssumption, ServerOpsAssumption

(* Only the name is read as something else than it was written.            *)
LEMMA RereadOthers == \A k, value : k # "name" => Reread(k, value) = value
BY DEF Reread

LEMMA MergedType ==
  ASSUME conf \in Content, NEW changes, Changes(changes)
  PROVE  Merged(changes) \in Content
<1> DEFINE m == Merged(changes)
<1> DEFINE before == [k \in Key |-> IF k \in DOMAIN changes THEN changes[k] ELSE conf[k]]
<1>1. /\ before["slug"] \in BOOLEAN /\ before["id"] \in BOOLEAN
      /\ before["display"] \in Display /\ before["layout"] \in {"mirror", "independent"}
  BY DEF Key, Changes, Content
<1>2. before["name"] \in 0..MaxQuotes
  BY NameType DEF Key, Changes, Content
<1>3. m = [k \in Key |-> Reread(k, before[k])]
  BY DEF Merged
<1> HIDE DEF m, before
<1>4. /\ m["slug"] = before["slug"] /\ m["id"] = before["id"]
      /\ m["display"] = before["display"] /\ m["layout"] = before["layout"]
  BY <1>3, RereadOthers DEF Key
<1>5. m["name"] = Reread("name", before["name"])
  BY <1>3 DEF Key
<1>6. m["name"] \in 0..MaxQuotes
  BY <1>2, <1>5, RereadType
<1>7. m = [slug |-> m["slug"], id |-> m["id"], name |-> m["name"], display |-> m["display"],
           layout |-> m["layout"]]
  BY <1>3 DEF Key
<1>8. m \in Content
  BY <1>1, <1>4, <1>6, <1>7 DEF Content
<1> QED
  BY <1>8 DEF m

LEMMA CallersChanges ==
  /\ Changes([id |-> TRUE]) /\ Changes([slug |-> TRUE])
  /\ \A name \in Names : Changes([slug |-> TRUE, name |-> name])
  /\ Changes([slug |-> FALSE, id |-> FALSE])
  /\ \A d \in Display : Changes([display |-> d])
  /\ \A l \in {"mirror", "independent"} : Changes([layout |-> l])
BY DEF Changes, Key

LEMMA DefaultsType == Defaults \in Content /\ Quiet \in Writer
BY WallAssumption, ServerOpsAssumption DEF Defaults, Content, Quiet, Writer

LEMMA BeginWriteType ==
  ASSUME ConfTypeOK, NEW p \in Process, NEW changes, Changes(changes), BeginWrite(p, changes)
  PROVE  /\ writer' \in [Process -> Writer] /\ overlap' \in BOOLEAN
         /\ writer'[p] = [at |-> "merged", text |-> Merged(changes),
                          keys |-> DOMAIN changes, fd |-> "none"]
         /\ \A q \in Process : q # p => writer'[q] = writer[q]
         /\ \A q \in Process : writer'[q].fd = "tmp" => writer[q].fd = "tmp"
<1>1. [at |-> "merged", text |-> Merged(changes), keys |-> DOMAIN changes, fd |-> "none"] \in Writer
  BY MergedType DEF ConfTypeOK, Writer, Changes
<1>2. overlap' \in BOOLEAN
  BY DEF BeginWrite
<1> QED
  BY <1>1, <1>2 DEF ConfTypeOK, BeginWrite

LEMMA OverwrittenType ==
  ASSUME NEW old \in Content, NEW new \in Content
  PROVE  Overwritten(old, new) \subseteq Content
BY DEF Overwritten, Content

LEMMA FilledType ==
  ASSUME ConfTypeOK, NEW p \in Process, OpenTmp(p) \/ FillTmp(p)
  PROVE  ConfTypeOK'
<1>1. CASE OpenTmp(p)
  <2>1. writer' \in [Process -> Writer]
    BY <1>1 DEF ConfTypeOK, OpenTmp, Writer
  <2>2. tmp' # Absent
    BY <1>1 DEF OpenTmp, Defaults, Absent
  <2> QED
    BY <1>1, <2>1, <2>2, DefaultsType DEF ConfTypeOK, OpenTmp
<1>2. CASE FillTmp(p)
  <2>1. writer' \in [Process -> Writer]
    BY <1>2 DEF ConfTypeOK, FillTmp, Writer
  <2>2. writer[p].text \in Content
    BY DEF ConfTypeOK, Writer
  <2>3. tmp' \in Content \cup {Absent}
    BY <1>2, <2>2, OverwrittenType DEF ConfTypeOK, FillTmp
  <2>4. \A q \in Process : writer'[q].fd = writer[q].fd
    BY <1>2 DEF FillTmp, ConfTypeOK, Writer
  <2>5. tmp # Absent => tmp' # Absent
    BY <1>2, <2>2, OverwrittenType DEF ConfTypeOK, FillTmp, Content, Absent
  <2>6. conf' \in Content
    BY <1>2, <2>2, OverwrittenType DEF ConfTypeOK, FillTmp
  <2> QED
    BY <1>2, <2>1, <2>3, <2>4, <2>5, <2>6 DEF ConfTypeOK, FillTmp
<1> QED
  BY <1>1, <1>2

LEMMA EndedType ==
  ASSUME ConfTypeOK, NEW p \in Process, Ended(p)
  PROVE  /\ writer' \in [Process -> Writer] /\ overlap' \in BOOLEAN
         /\ \A q \in Process : writer'[q].at = IF q = p THEN "idle" ELSE writer[q].at
         /\ \A q \in Process : writer'[q].fd = "tmp" => tmp = Absent /\ writer[q].fd = "tmp"
<1>1. ASSUME NEW q \in Process
      PROVE  /\ writer'[q] \in Writer
             /\ writer'[q].at = IF q = p THEN "idle" ELSE writer[q].at
             /\ writer'[q].fd = "tmp" => tmp = Absent /\ writer[q].fd = "tmp"
  <2>1. CASE q = p
    BY <2>1, DefaultsType DEF Ended, Quiet
  <2>2. CASE q # p
    <3>1. writer[q] \in Writer
      BY DEF ConfTypeOK
    <3>2. [writer[q] EXCEPT !.fd = Renamed(@)] \in Writer
      BY <3>1 DEF Writer, Renamed
    <3>3. Renamed(writer[q].fd) # "tmp"
      BY <3>1 DEF Writer, Renamed
    <3> QED
      BY <2>2, <3>1, <3>2, <3>3 DEF Ended, Writer
  <2> QED
    BY <2>1, <2>2
<1>2. overlap' \in BOOLEAN
  BY DEF Ended, ConfTypeOK
<1>3. writer' = [q \in Process |-> writer'[q]]
  BY DEF Ended
<1> QED
  BY <1>1, <1>2, <1>3

LEMMA ReplacedType ==
  ASSUME ConfTypeOK, NEW p \in Process, Replaces(p) \/ ReplaceRaises(p), op' \in Op,
         UNCHANGED <<licensed, configured, serverOps>>
  PROVE  ConfTypeOK'
<1>1. conf' \in Content /\ tmp' \in Content \cup {Absent}
  BY DEF ConfTypeOK, Replaces, ReplaceRaises
<1>2. writer' \in [Process -> Writer] /\ overlap' \in BOOLEAN
  BY EndedType DEF Replaces, ReplaceRaises
<1>3. \A q \in Process : writer'[q].fd = "tmp" => tmp' # Absent
  BY EndedType DEF Replaces, ReplaceRaises, ConfTypeOK
<1> QED
  BY <1>1, <1>2, <1>3 DEF ConfTypeOK

LEMMA ServerType == ASSUME ConfTypeOK, ServerStep PROVE ConfTypeOK'
<1> USE DEF ConfTypeOK, Op
<1>0. "server" \in Process
  BY DEF Process
<1>1. Request => serverOps' \in 0..MaxServerOps
  BY ServerOpsAssumption DEF Request
<1>2. CASE RedeemNew
  BY <1>0, <1>1, <1>2, BeginWriteType, CallersChanges DEF RedeemNew
<1>3. CASE RedeemAgain
  BY <1>1, <1>3 DEF RedeemAgain
<1>4. CASE CodeRefused
  BY <1>4 DEF CodeRefused
<1>5. CASE CodeAccepted
  BY <1>0, <1>5, BeginWriteType, CallersChanges DEF CodeAccepted
<1>6. CASE Finalize
  BY <1>6 DEF Finalize
<1>7. CASE ChangeSlug
  BY <1>0, <1>1, <1>7, BeginWriteType, CallersChanges DEF ChangeSlug
<1>8. CASE FactoryReset
  BY <1>0, <1>1, <1>8, BeginWriteType, CallersChanges DEF FactoryReset
<1>9. CASE ServerWrites
  <2>1. AfterServerWrite \in Op
    BY DEF AfterServerWrite
  <2> QED
    BY <1>0, <1>9, <2>1, FilledType, ReplacedType DEF ServerWrites
<1> QED
  BY <1>2, <1>3, <1>4, <1>5, <1>6, <1>7, <1>8, <1>9 DEF ServerStep

LEMMA LaunchedType ==
  ASSUME TypeOK
  PROVE  Launched \in {Wizard} \cup {Single(d) : d \in Display}
                       \cup {PerOutput(c) : c \in Outputs \cup {None}}
<1>1. conf.display \in Display
  BY DEF TypeOK, ConfTypeOK, Content
<1> QED
  BY <1>1 DEF TypeOK, Launched

LEMMA InitType == Init => TypeOK
<1> SUFFICES ASSUME Init PROVE TypeOK
  OBVIOUS
<1>1. conf \in Content
  <2>1. PICK name \in Names \cup {0} :
            conf = [Defaults EXCEPT !.slug = licensed, !.id = licensed, !.name = Reread("name", name)]
    BY DEF Init, ConfInit
  <2>2. Reread("name", name) \in 0..MaxQuotes
    BY <2>1, NameType, RereadType
  <2>3. licensed \in BOOLEAN
    BY DEF Init, ConfInit
  <2> QED
    BY <2>1, <2>2, <2>3, WallAssumption DEF Content, Defaults
<1>2. writer \in [Process -> Writer] /\ \A p \in Process : writer[p] = Quiet
  BY DefaultsType DEF Init, ConfInit
<1>3. ConfTypeOK
  <2>1. overlap \in BOOLEAN /\ licensed \in BOOLEAN
    BY DEF Init, ConfInit
  <2>2. configured \in BOOLEAN
    BY <2>1 DEF Init, ConfInit
  <2>3. op \in Op /\ tmp = Absent
    BY DEF Init, ConfInit, Op
  <2>4. serverOps \in 0..MaxServerOps
    BY ServerOpsAssumption DEF Init, ConfInit
  <2>5. \A p \in Process : writer[p].fd # "tmp"
    BY <1>2 DEF Quiet
  <2> QED
    BY <1>1, <1>2, <2>1, <2>2, <2>3, <2>4, <2>5 DEF ConfTypeOK
<1>4. answer \in Assignment
  BY WallAssumption DEF Init, Assignment
<1>5. ~Writing("heartbeat")
  BY <1>2 DEF Writing, Process, Quiet
<1>6. shown \in {Wizard} \cup {Single(d) : d \in Display}
              \cup {PerOutput(c) : c \in Outputs \cup {None}}
  <2>1. conf.display \in Display
    BY <1>1 DEF Content
  <2> QED
    BY <2>1 DEF Init, Launched
<1>7. assigns \in 0..MaxAssigns /\ faults \in 0..MaxFaults
  BY BoundsAssumption DEF Init
<1>8. /\ assigned \in Assignment /\ content \in Outputs \cup {None} /\ owed \in BOOLEAN
      /\ hpc = "sleep"
  BY DEF Init
<1> QED
  BY <1>3, <1>4, <1>5, <1>6, <1>7, <1>8 DEF TypeOK

LEMMA WritesType ==
  ASSUME TypeOK, NEW changes, Changes(changes), Writes(changes)
  PROVE  ConfTypeOK' /\ owed' \in BOOLEAN
<1>1. "heartbeat" \in Process
  BY DEF Process
<1>2. owed' \in BOOLEAN
  BY <1>1, BeginWriteType DEF TypeOK, Writes
<1> QED
  BY <1>1, <1>2, BeginWriteType DEF TypeOK, ConfTypeOK, Writes

(* What only the heartbeat may write with.                                 *)
LEMMA QuietHeartbeat ==
  ASSUME TypeOK, UNCHANGED writer, hpc \notin {"writeDisplay", "writeLayout"}
  PROVE  ~Writing("heartbeat")'
BY DEF TypeOK, Writing

LEMMA SendOnceType == ASSUME TypeOK, SendOnce PROVE TypeOK'
<1> USE DEF TypeOK
<1>1. CASE Beat
  BY <1>1, QuietHeartbeat DEF Beat, confVars, ConfTypeOK
<1>2. CASE DisplayUnchanged
  BY <1>2, QuietHeartbeat DEF DisplayUnchanged, confVars, ConfTypeOK
<1>3. CASE ApplyDisplay
  <2>1. Changes([display |-> answer.display])
    BY CallersChanges DEF Assignment
  <2> QED
    BY <1>3, <2>1, WritesType DEF ApplyDisplay
<1>4. CASE OutputsUnchanged
  BY <1>4, QuietHeartbeat DEF OutputsUnchanged, confVars, ConfTypeOK
<1>5. CASE ApplyOutputs
  BY <1>5, QuietHeartbeat DEF ApplyOutputs, confVars, ConfTypeOK, Assignment
<1>6. CASE ClearOutputs
  BY <1>6, QuietHeartbeat DEF ClearOutputs, confVars, ConfTypeOK
<1>7. CASE SetLayout
  <2>1. Changes([layout |-> IF answer.outputs = None THEN "mirror" ELSE "independent"])
    BY CallersChanges
  <2> QED
    BY <1>7, <2>1, WritesType DEF SetLayout
<1>8. CASE HeartbeatWrites
  <2>1. "heartbeat" \in Process /\ op \in Op
    BY DEF Process, ConfTypeOK
  <2>2. ConfTypeOK'
    BY <1>8, <2>1, FilledType, ReplacedType DEF HeartbeatWrites
  <2>3. Replaces("heartbeat") \/ ReplaceRaises("heartbeat") => ~Writing("heartbeat")'
    BY <2>1, EndedType DEF Replaces, ReplaceRaises, Writing
  <2>4. owed' \in BOOLEAN
    BY <1>8 DEF HeartbeatWrites
  <2> QED
    BY <1>8, <2>2, <2>3, <2>4 DEF HeartbeatWrites, AfterWrite, AfterRestart
<1>9. CASE RestartKiosk
  <2>1. shown' \in {Wizard} \cup {Single(d) : d \in Display}
                 \cup {PerOutput(c) : c \in Outputs \cup {None}}
    BY <1>9, LaunchedType DEF RestartKiosk, SessionStarts
  <2>2. owed' \in BOOLEAN
    BY <1>9 DEF RestartKiosk, SessionStarts
  <2> QED
    BY <1>9, <2>1, <2>2, QuietHeartbeat DEF RestartKiosk, AfterRestart, confVars, ConfTypeOK
<1>10. CASE RestartFails
  <2>1. faults' \in 0..MaxFaults
    BY <1>10, BoundsAssumption DEF RestartFails
  <2> QED
    BY <1>10, <2>1, QuietHeartbeat DEF RestartFails, AfterRestart, confVars, ConfTypeOK
<1> QED
  BY <1>1, <1>2, <1>3, <1>4, <1>5, <1>6, <1>7, <1>8, <1>9, <1>10 DEF SendOnce

(* The processes and the cloud around the heartbeat.                       *)
Around ==
    \/ Reconcile \/ Server \/ HeartbeatDies \/ SessionRestarts
    \/ ResetReboots \/ PowerCut \/ Assign

LEMMA ServerLeavesHeartbeat ==
  ASSUME ConfTypeOK, ServerStep
  PROVE  writer'["heartbeat"].at = writer["heartbeat"].at
<1> DEFINE s == "server"
           h == "heartbeat"
<1>1. s \in Process /\ h \in Process /\ s # h
  BY DEF Process
<1>2. \A changes : BeginWrite("server", changes) => writer'["heartbeat"].at = writer["heartbeat"].at
  BY <1>1 DEF BeginWrite, ConfTypeOK
<1>3. OpenTmp("server") \/ FillTmp("server") => writer'["heartbeat"].at = writer["heartbeat"].at
  BY <1>1 DEF OpenTmp, FillTmp, ConfTypeOK
<1>4. Ended("server") => writer'["heartbeat"].at = writer["heartbeat"].at
  BY <1>1, EndedType
<1> QED
  BY <1>2, <1>3, <1>4 DEF ServerStep, RedeemNew, RedeemAgain, CodeRefused, CodeAccepted,
     Finalize, ChangeSlug, FactoryReset, ServerWrites, Replaces, ReplaceRaises

LEMMA BootsType == ASSUME TypeOK, Boots, faults' \in 0..MaxFaults PROVE TypeOK'
<1>1. writer' \in [Process -> Writer] /\ \A p \in Process : writer'[p] = Quiet
  BY DefaultsType DEF Boots
<1>2. ConfTypeOK'
  BY <1>1 DEF TypeOK, ConfTypeOK, Boots, Op, Quiet
<1>3. shown' \in {Wizard} \cup {Single(d) : d \in Display}
               \cup {PerOutput(c) : c \in Outputs \cup {None}}
  BY LaunchedType DEF Boots
<1>4. ~Writing("heartbeat")'
  BY <1>1 DEF Writing, Quiet, Process
<1> QED
  BY <1>2, <1>3, <1>4 DEF TypeOK, Boots

LEMMA AroundType == ASSUME TypeOK, Around PROVE TypeOK'
<1> USE DEF TypeOK
<1>1. CASE Reconcile
  BY <1>1 DEF Reconcile, confVars, ConfTypeOK, Writing
<1>2. CASE Server
  <2>1. ConfTypeOK'
    BY <1>2, ServerType DEF Server
  <2>2. owed' \in BOOLEAN
    BY <1>2, <2>1 DEF Server, ConfTypeOK
  <2>3. Writing("heartbeat")' => Writing("heartbeat")
    BY <1>2, ServerLeavesHeartbeat DEF Server, Writing
  <2> QED
    BY <1>2, <2>1, <2>2, <2>3 DEF Server
<1>3. CASE HeartbeatDies
  <2>1. writer' \in [Process -> Writer] /\ writer'["heartbeat"] = Quiet
    BY <1>3, DefaultsType DEF HeartbeatDies, Killed, ConfTypeOK, Process
  <2>2. \A p \in Process : writer'[p].fd = "tmp" => writer[p].fd = "tmp"
    BY <1>3 DEF HeartbeatDies, Killed, ConfTypeOK, Quiet
  <2>3. faults' \in 0..MaxFaults
    BY <1>3, BoundsAssumption DEF HeartbeatDies
  <2>4. owed' \in BOOLEAN /\ overlap' \in BOOLEAN
    BY <1>3 DEF HeartbeatDies, ConfTypeOK
  <2>5. ConfTypeOK'
    BY <1>3, <2>1, <2>2, <2>4 DEF HeartbeatDies, ConfTypeOK
  <2>6. ~Writing("heartbeat")'
    BY <2>1 DEF Writing, Quiet
  <2> QED
    BY <1>3, <2>3, <2>4, <2>5, <2>6 DEF HeartbeatDies
<1>4. CASE SessionRestarts
  <2>1. shown' \in {Wizard} \cup {Single(d) : d \in Display}
                 \cup {PerOutput(c) : c \in Outputs \cup {None}}
    BY <1>4, LaunchedType DEF SessionRestarts, SessionStarts
  <2>2. owed' \in BOOLEAN
    BY <1>4 DEF SessionRestarts, SessionStarts
  <2> QED
    BY <1>4, <2>1, <2>2 DEF SessionRestarts, confVars, ConfTypeOK, Writing
<1>5. CASE ResetReboots
  BY <1>5, BootsType DEF ResetReboots
<1>6. CASE PowerCut
  <2>1. faults' \in 0..MaxFaults
    BY <1>6, BoundsAssumption DEF PowerCut
  <2> QED
    BY <1>6, <2>1, BootsType DEF PowerCut
<1>7. CASE Assign
  <2>1. assigns' \in 0..MaxAssigns
    BY <1>7, BoundsAssumption DEF Assign
  <2> QED
    BY <1>7, <2>1 DEF Assign, confVars, ConfTypeOK, Writing
<1> QED
  BY <1>1, <1>2, <1>3, <1>4, <1>5, <1>6, <1>7 DEF Around

LEMMA NextType == ASSUME TypeOK, [Next]_vars PROVE TypeOK'
<1>1. CASE UNCHANGED vars
  BY <1>1 DEF TypeOK, ConfTypeOK, vars, confVars, heartbeatVars, Writing
<1> QED
  BY <1>1, SendOnceType, AroundType DEF Next, Around

(* Type correctness: whatever is torn or lost, the file reads as a whole   *)
(* set of keys, and the heartbeat writes only where its code does.         *)
THEOREM TypeCorrect == Spec => []TypeOK
<1>1. Init => TypeOK
  BY InitType
<1>2. TypeOK /\ [Next]_vars => TypeOK'
  BY NextType
<1> QED
  BY <1>1, <1>2, PTL DEF Spec

-----------------------------------------------------------------------------
(* One writer at a time                                                    *)

(* While no second process writes, a writer's text is the file, read once  *)
(* more, but for the keys it was called with, and kiosk.tmp is its own.    *)
Alone ==
    ~overlap =>
        /\ \A p, q \in Process : Writing(p) /\ Writing(q) => p = q
        /\ \A p \in Process :
               /\ Writing(p) =>
                      \A k \in Key \ writer[p].keys : writer[p].text[k] = Reread(k, conf[k])
               /\ writer[p].at \in {"open", "filled"} => writer[p].fd = "tmp"
               /\ writer[p].at = "filled" => tmp = writer[p].text

IInv == TypeOK /\ Alone

LEMMA NobodyWrites == ASSUME \A p \in Process : ~Writing(p)' PROVE Alone'
BY DEF Alone, Writing

LEMMA Untouched == ASSUME Alone, UNCHANGED <<conf, tmp, writer, overlap>> PROVE Alone'
BY DEF Alone, Writing

LEMMA BeginAlone ==
  ASSUME ConfTypeOK, Alone, NEW p \in Process, NEW changes, Changes(changes),
         BeginWrite(p, changes), UNCHANGED <<conf, tmp>>
  PROVE  Alone'
<1> SUFFICES ASSUME ~overlap' PROVE Alone'
  BY DEF Alone
<1>1. \A q \in Process : q # p => ~Writing(q) /\ writer'[q] = writer[q]
  BY BeginWriteType DEF BeginWrite
<1>2. writer'[p].at = "merged" /\ writer'[p].keys = DOMAIN changes
      /\ writer'[p].text = Merged(changes)
  <2> DEFINE keys == DOMAIN changes
             text == Merged(changes)
  <2>1. writer'[p] = [at |-> "merged", text |-> text, keys |-> keys, fd |-> "none"]
    BY BeginWriteType
  <2> HIDE DEF keys, text
  <2>2. writer'[p].at = "merged" /\ writer'[p].keys = keys /\ writer'[p].text = text
    BY <2>1
  <2> QED
    BY <2>2 DEF keys, text
<1>3. \A k \in Key \ DOMAIN changes : Merged(changes)[k] = Reread(k, conf[k])
  BY DEF Merged
<1>4. \A q \in Process : Writing(q)' => q = p
  BY <1>1 DEF Writing
<1>5. ~(writer'[p].at \in {"open", "filled"})
  BY <1>2
<1> QED
  BY <1>2, <1>3, <1>4, <1>5 DEF Alone, Writing

LEMMA WriteAlone ==
  ASSUME ConfTypeOK, Alone, NEW p \in Process, OpenTmp(p) \/ FillTmp(p)
  PROVE  Alone'
<1> SUFFICES ASSUME ~overlap' PROVE Alone'
  BY DEF Alone
<1>0. ~overlap
  BY DEF OpenTmp, FillTmp
<1>1. \A q \in Process : q # p => ~Writing(q) /\ writer'[q] = writer[q]
  BY <1>0 DEF Alone, OpenTmp, FillTmp, Writing, ConfTypeOK
<1>2. /\ writer'[p].keys = writer[p].keys /\ writer'[p].text = writer[p].text
      /\ Writing(p)
  BY DEF OpenTmp, FillTmp, Writing, ConfTypeOK, Writer
<1>3. \A q \in Process : Writing(q)' => q = p
  BY <1>1 DEF Writing
<1>4. CASE OpenTmp(p)
  <2>1. writer'[p].at = "open" /\ writer'[p].fd = "tmp" /\ conf' = conf
    BY <1>4 DEF OpenTmp, ConfTypeOK, Writer
  <2> QED
    BY <1>0, <1>2, <1>3, <2>1 DEF Alone, Writing
<1>5. CASE FillTmp(p)
  <2>1. writer[p].fd = "tmp"
    BY <1>0, <1>5 DEF Alone, FillTmp
  <2>2. writer'[p].at = "filled" /\ writer'[p].fd = "tmp"
    BY <1>5, <2>1 DEF FillTmp, ConfTypeOK, Writer
  <2>3. tmp' = writer[p].text /\ conf' = conf
    BY <1>0, <1>5, <2>1 DEF FillTmp, Overwritten
  <2> QED
    BY <1>0, <1>2, <1>3, <2>2, <2>3 DEF Alone, Writing
<1> QED
  BY <1>4, <1>5

LEMMA EndAlone ==
  ASSUME ConfTypeOK, Alone, NEW p \in Process, Replaces(p) \/ ReplaceRaises(p)
  PROVE  Alone'
<1> SUFFICES ASSUME ~overlap' PROVE Alone'
  BY DEF Alone
<1>1. Ended(p) /\ Writing(p)
  BY DEF Replaces, ReplaceRaises, Writing
<1>2. \A q \in Process : q # p => ~Writing(q)
  BY <1>1 DEF Ended, Alone
<1>3. \A q \in Process : ~Writing(q)'
  BY <1>1, <1>2, EndedType DEF Writing
<1> QED
  BY <1>3, NobodyWrites

LEMMA ServerAlone == ASSUME ConfTypeOK, Alone, ServerStep PROVE Alone'
<1>1. "server" \in Process
  BY DEF Process
<1>2. CASE RedeemNew \/ CodeAccepted \/ ChangeSlug \/ FactoryReset
  BY <1>1, <1>2, BeginAlone, CallersChanges
     DEF RedeemNew, CodeAccepted, ChangeSlug, FactoryReset
<1>3. CASE RedeemAgain \/ CodeRefused \/ Finalize
  BY <1>3, Untouched DEF RedeemAgain, CodeRefused, Finalize
<1>4. CASE ServerWrites
  BY <1>1, <1>4, WriteAlone, EndAlone DEF ServerWrites
<1> QED
  BY <1>2, <1>3, <1>4 DEF ServerStep

LEMMA SendOnceAlone == ASSUME TypeOK, Alone, SendOnce PROVE Alone'
<1>1. "heartbeat" \in Process /\ ConfTypeOK
  BY DEF Process, TypeOK
<1>2. CASE ApplyDisplay
  <2>1. Changes([display |-> answer.display])
    BY CallersChanges DEF TypeOK, Assignment
  <2> QED
    BY <1>1, <1>2, <2>1, BeginAlone DEF ApplyDisplay, Writes
<1>3. CASE SetLayout
  <2>1. Changes([layout |-> IF answer.outputs = None THEN "mirror" ELSE "independent"])
    BY CallersChanges
  <2> QED
    BY <1>1, <1>3, <2>1, BeginAlone DEF SetLayout, Writes
<1>4. CASE HeartbeatWrites
  BY <1>1, <1>4, WriteAlone, EndAlone DEF HeartbeatWrites
<1>5. CASE \/ Beat \/ DisplayUnchanged \/ OutputsUnchanged \/ ApplyOutputs
           \/ ClearOutputs \/ RestartKiosk \/ RestartFails
  BY <1>5, Untouched DEF Beat, DisplayUnchanged, OutputsUnchanged, ApplyOutputs, ClearOutputs,
                         RestartKiosk, RestartFails, confVars
<1> QED
  BY <1>2, <1>3, <1>4, <1>5 DEF SendOnce

LEMMA AroundAlone == ASSUME TypeOK, Alone, Around PROVE Alone'
<1>1. ConfTypeOK
  BY DEF TypeOK
<1>2. CASE Reconcile \/ SessionRestarts \/ Assign
  BY <1>2, Untouched DEF Reconcile, SessionRestarts, Assign, confVars
<1>3. CASE Server
  BY <1>1, <1>3, ServerAlone DEF Server
<1>4. CASE HeartbeatDies
  <2> SUFFICES ASSUME ~overlap' PROVE Alone'
    BY DEF Alone
  <2>1. /\ writer'["heartbeat"] = Quiet /\ writer'["server"] = writer["server"]
        /\ UNCHANGED <<conf, tmp>>
    BY <1>1, <1>4 DEF HeartbeatDies, Killed, ConfTypeOK, Process
  <2>2. CASE Writing("server")
    <3>1. ~overlap
      BY <1>4, <2>2 DEF HeartbeatDies
    <3> QED
      BY <2>1, <3>1 DEF Alone, Writing, Process, Quiet
  <2>3. CASE ~Writing("server")
    BY <2>1, <2>3, NobodyWrites DEF Writing, Process, Quiet
  <2> QED
    BY <2>2, <2>3
<1>5. CASE ResetReboots \/ PowerCut
  <2>1. \A p \in Process : ~Writing(p)'
    BY <1>5 DEF ResetReboots, PowerCut, Boots, Writing, Quiet
  <2> QED
    BY <2>1, NobodyWrites
<1> QED
  BY <1>2, <1>3, <1>4, <1>5 DEF Around

LEMMA NextAlone == ASSUME TypeOK, Alone, [Next]_vars PROVE Alone'
<1>1. CASE UNCHANGED vars
  BY <1>1, Untouched DEF vars, confVars
<1> QED
  BY <1>1, SendOnceAlone, AroundAlone DEF Next, Around

(* Only the two ends of write_config touch kiosk.conf.                     *)
LEMMA ConfChanges ==
  ASSUME [Next]_vars, conf' # conf
  PROVE  \E p \in Process : FillTmp(p) \/ Replaces(p)
<1>1. "server" \in Process /\ "heartbeat" \in Process
  BY DEF Process
<1>2. CASE SendOnce
  BY <1>1, <1>2 DEF SendOnce, Beat, DisplayUnchanged, ApplyDisplay, OutputsUnchanged, ApplyOutputs,
     ClearOutputs, SetLayout, Writes, HeartbeatWrites, OpenTmp, ReplaceRaises, RestartKiosk,
     RestartFails, confVars
<1>3. CASE Server
  BY <1>1, <1>3 DEF Server, ServerStep, RedeemNew, RedeemAgain, CodeRefused, CodeAccepted,
     Finalize, ChangeSlug, FactoryReset, ServerWrites, OpenTmp, ReplaceRaises
<1>4. ~UNCHANGED vars /\ ~Reconcile /\ ~HeartbeatDies /\ ~SessionRestarts
      /\ ~ResetReboots /\ ~PowerCut /\ ~Assign
  BY DEF vars, confVars, Reconcile, HeartbeatDies, SessionRestarts, ResetReboots, PowerCut,
         Boots, Assign
<1> QED
  BY <1>2, <1>3, <1>4 DEF Next

LEMMA OwnKeysStep ==
  ASSUME IInv, [Next]_vars, ~overlap, NEW k \in Key, conf'[k] # conf[k]
  PROVE  \/ \E p \in Process : writer[p].at = "filled" /\ k \in writer[p].keys
         \/ conf'[k] = Reread(k, conf[k])
<1>1. PICK p \in Process : FillTmp(p) \/ Replaces(p)
  BY ConfChanges
<1>2. Replaces(p)
  <2>1. ~FillTmp(p)
    BY DEF FillTmp, IInv, Alone
  <2> QED
    BY <1>1, <2>1
<1>3. conf' = writer[p].text /\ writer[p].at = "filled"
  BY <1>2 DEF Replaces, IInv, Alone
<1>4. k \in writer[p].keys \/ conf'[k] = Reread(k, conf[k])
  BY <1>3 DEF IInv, Alone, Writing
<1> QED
  BY <1>3, <1>4

(* write_config changes the keys of its caller and no other as long as the *)
(* other process does not write meanwhile, wherever either is killed; only *)
(* a name with an apostrophe is quoted once more by every write.           *)
THEOREM KeysKept == Spec => OwnKeysOnly
<1>1. Init => IInv
  <2>1. Init => Alone
    <3> SUFFICES ASSUME Init PROVE Alone
      OBVIOUS
    <3>1. \A p \in Process : writer[p] = Quiet
      BY DEF Init, ConfInit
    <3> QED
      BY <3>1 DEF Alone, Writing, Quiet
  <2> QED
    BY <2>1, InitType DEF IInv
<1>2. IInv /\ [Next]_vars => IInv'
  BY NextType, NextAlone DEF IInv
<1>3. IInv /\ [Next]_vars =>
          [~overlap =>
              \A k \in Key : conf'[k] # conf[k] =>
                  \/ \E p \in Process : writer[p].at = "filled" /\ k \in writer[p].keys
                  \/ conf'[k] = Reread(k, conf[k])]_vars
  BY OwnKeysStep
<1> QED
  BY <1>1, <1>2, <1>3, PTL DEF Spec, OwnKeysOnly

=============================================================================
