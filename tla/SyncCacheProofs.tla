--------------------------- MODULE SyncCacheProofs ---------------------------
(* Proofs about SyncCache, for every set of rows, limit and bound.         *)
EXTENDS SyncCache, TLAPS

USE DEF Row, NoMedia, Tables, RowsOf, RowState, NoRow, Record, NoRecord,
        NoFile, Empty, File, NoReply

-----------------------------------------------------------------------------
(* Type correctness.                                                       *)

LEMMA PendingType == ASSUME NEW t \in Tables PROVE Pending(t) \subseteq Row
  BY DEF Pending

LEMMA FetchType ==
  ASSUME TypeOK, NEW m \in Media, FetchStep(m)
  PROVE  TypeOK'
<1>1. CASE SkipCached(m)
  BY <1>1 DEF TypeOK, SkipCached, disk, faults
<1>2. CASE DownloadRefused(m)
  BY <1>2 DEF TypeOK, DownloadRefused, FailureCost, disk, faults
<1>3. CASE DownloadNotModified(m)
  BY <1>3 DEF TypeOK, DownloadNotModified, disk, faults
<1>4. CASE DownloadNotFound(m)
  BY <1>4 DEF TypeOK, DownloadNotFound, disk, faults
<1>5. CASE OpenTarget(m)
  BY <1>5 DEF TypeOK, OpenTarget, faults
<1>6. CASE WriteBody(m)
  BY <1>6 DEF TypeOK, WriteBody, faults
<1>10. CASE WriteShort(m)
  <2>1. file' \in [Media -> File]
    BY <1>10 DEF TypeOK, WriteShort
  <2> QED
    BY <1>10, <2>1 DEF TypeOK, WriteShort
<1>7. CASE WriteCutShort(m)
  <2>1. file' \in [Media -> File]
    BY <1>7 DEF TypeOK, WriteCutShort
  <2>2. pc' = "fetch" /\ cur' = NoMedia /\ body' = 0
    BY <1>7 DEF WriteCutShort, AfterCutShort
  <2> QED
    BY <1>7, <2>1, <2>2 DEF TypeOK, WriteCutShort, faults
<1>8. CASE WriteNothing(m)
  BY <1>8 DEF TypeOK, WriteNothing, faults
<1>9. CASE RecordMediaBlob(m)
  BY <1>9, OptionAssumption DEF TypeOK, RecordMediaBlob, faults
<1> QED
  BY <1>1, <1>2, <1>3, <1>4, <1>5, <1>6, <1>7, <1>8, <1>9, <1>10 DEF FetchStep

LEMMA StepType == ASSUME TypeOK, Step PROVE TypeOK'
<1>1. CASE Tick
  BY <1>1 DEF TypeOK, Tick, disk, faults
<1>2. CASE PullFailed
  BY <1>2 DEF TypeOK, PullFailed, disk, faults
<1>3. CASE PullManifest
  BY <1>3 DEF TypeOK, PullManifest, BackendManifest, disk, faults
<1>4. CASE SetCursor
  BY <1>4 DEF TypeOK, SetCursor, NewCursor, faults
<1>5. CASE PurgeDone
  BY <1>5 DEF TypeOK, PurgeDone, disk, faults
<1>6. CASE FetchDone
  BY <1>6 DEF TypeOK, FetchDone, disk, faults
<1>7. CASE TickDone
  BY <1>7 DEF TypeOK, TickDone, disk, faults
<1>8. ASSUME NEW t \in Tables, ApplyTable(t) PROVE TypeOK'
  <2>1. mirror' \in [Row -> Nat]
    BY <1>8 DEF TypeOK, ApplyTable, MirrorAfter
  <2>2. purging' \subseteq Media
    BY <1>8 DEF TypeOK, ApplyTable, Purgeable, Pending
  <2> QED
    BY <1>8, <2>1, <2>2 DEF TypeOK, ApplyTable, faults
<1>9. ASSUME NEW m \in Media, DeleteMediaBlob(m) PROVE TypeOK'
  BY <1>9 DEF TypeOK, DeleteMediaBlob, faults
<1>10. ASSUME NEW m \in Media, UnlinkFile(m) PROVE TypeOK'
  <2>1. file' \in [Media -> File]
    BY <1>10 DEF TypeOK, UnlinkFile
  <2> QED
    BY <1>10, <2>1 DEF TypeOK, UnlinkFile, faults
<1>11. ASSUME NEW m \in Media, FetchStep(m) PROVE TypeOK'
  BY <1>11, FetchType
<1> QED
  BY <1>1, <1>2, <1>3, <1>4, <1>5, <1>6, <1>7, <1>8, <1>9, <1>10, <1>11 DEF Step

(* Every reachable state is well typed.                                    *)
THEOREM TypeCorrect == Spec => []TypeOK
<1>1. Init => TypeOK
  BY DEF Init, TypeOK
<1>2. TypeOK /\ [Next]_vars => TypeOK'
  <2> SUFFICES ASSUME TypeOK, [Next]_vars PROVE TypeOK'
    OBVIOUS
  <2>1. CASE Step
    BY <2>1, StepType
  <2>2. ASSUME NEW r \in Row, BackendWrite(r) PROVE TypeOK'
    BY <2>2 DEF TypeOK, BackendWrite, disk, job, faults
  <2>3. ASSUME NEW r \in Row, BackendDelete(r) PROVE TypeOK'
    BY <2>3 DEF TypeOK, BackendDelete, disk, job, faults
  <2>4. CASE Crash
    BY <2>4 DEF TypeOK, Crash, Restart, disk
  <2>5. ASSUME NEW m \in Media, PowerCut(m) PROVE TypeOK'
    BY <2>5 DEF TypeOK, PowerCut, Restart
  <2>6. CASE UNCHANGED vars
    BY <2>6 DEF TypeOK, vars, disk, job, faults
  <2> QED
    BY <2>1, <2>2, <2>3, <2>4, <2>5, <2>6 DEF Next
<1> QED
  BY <1>1, <1>2, PTL DEF Spec

-----------------------------------------------------------------------------
(* The cursor vouches for the mirror.                                      *)

mirrorVars == <<be, clock, cursor, mirror, reply, replyCursor>>

(* The steps that read and write nothing the invariant speaks of.          *)
LEMMA FetchKeepsMirror ==
  ASSUME NEW m \in Media, FetchStep(m) \/ DeleteMediaBlob(m) \/ UnlinkFile(m)
  PROVE  UNCHANGED mirrorVars
  BY DEF FetchStep, SkipCached, DownloadRefused, DownloadNotModified,
         DownloadNotFound, OpenTarget, WriteBody, WriteShort, WriteCutShort, WriteNothing,
         RecordMediaBlob, DeleteMediaBlob, UnlinkFile, mirrorVars, disk

LEMMA MirrorInvStutter ==
  ASSUME MirrorInv, UNCHANGED mirrorVars PROVE MirrorInv'
  BY DEF MirrorInv, StampsBounded, ReplyIsSnapshot, MirrorCoversCursor,
         MirrorValue, mirrorVars

LEMMA BackendKeepsMirror ==
  ASSUME TypeOK, MirrorInv, NEW r \in Row, BackendWrite(r) \/ BackendDelete(r)
  PROVE  MirrorInv'
<1>1. /\ clock' = clock + 1
      /\ UNCHANGED <<cursor, mirror, reply, replyCursor>>
      /\ be'[r].at = clock + 1
      /\ \A q \in Row : q # r => be'[q] = be[q]
  BY DEF BackendWrite, BackendDelete, TypeOK, disk, job
<1>2. cursor < clock' /\ replyCursor < clock' /\ be[r].at < be'[r].at
  BY <1>1 DEF TypeOK, MirrorInv, StampsBounded
<1>3. StampsBounded'
  BY <1>1, <1>2 DEF TypeOK, MirrorInv, StampsBounded
<1>4. MirrorCoversCursor'
  BY <1>1, <1>2 DEF TypeOK, MirrorInv, MirrorCoversCursor, MirrorValue
<1>5. ReplyIsSnapshot'
  <2> SUFFICES ASSUME NEW q \in Row
               PROVE  /\ reply'[q].at # 0 => cursor' < reply'[q].at /\ reply'[q].at <= be'[q].at
                      /\ replyCursor' # 0 /\ be'[q].at <= replyCursor' =>
                            IF reply'[q].at # 0 THEN reply'[q] = be'[q]
                            ELSE mirror'[q] = MirrorValue(be'[q])
    BY DEF ReplyIsSnapshot, MirrorValue
  <2>1. CASE q = r
    <3>1. reply[r].at # 0 => cursor < reply[r].at /\ reply[r].at <= be[r].at
      BY DEF MirrorInv, ReplyIsSnapshot
    <3>2. reply[r].at # 0 => reply[r].at <= be'[r].at
      BY <3>1, <1>1, <1>2 DEF TypeOK
    <3>3. ~(be'[r].at <= replyCursor)
      BY <1>1, <1>2 DEF TypeOK
    <3> QED
      BY <2>1, <3>1, <3>2, <3>3, <1>1
  <2>2. CASE q # r
    BY <2>2, <1>1 DEF MirrorInv, ReplyIsSnapshot
  <2> QED
    BY <2>1, <2>2
<1> QED
  BY <1>3, <1>4, <1>5 DEF MirrorInv

LEMMA PullKeepsMirror ==
  ASSUME TypeOK, MirrorInv, PullManifest
  PROVE  MirrorInv'
<1>1. /\ UNCHANGED <<be, clock, cursor, mirror>>
      /\ replyCursor' \in {clock, 0}
      /\ \A r \in Row : reply'[r] = IF be[r].at > cursor THEN be[r] ELSE NoRow
  BY DEF PullManifest, BackendManifest, disk
<1>2. StampsBounded'
  BY <1>1 DEF TypeOK, MirrorInv, StampsBounded
<1>3. MirrorCoversCursor'
  BY <1>1 DEF MirrorInv, MirrorCoversCursor
<1>4. ReplyIsSnapshot'
  <2> SUFFICES ASSUME NEW q \in Row
               PROVE  /\ reply'[q].at # 0 => cursor < reply'[q].at /\ reply'[q].at <= be[q].at
                      /\ replyCursor' # 0 /\ be[q].at <= replyCursor' =>
                            IF reply'[q].at # 0 THEN reply'[q] = be[q]
                            ELSE mirror[q] = MirrorValue(be[q])
    BY <1>1 DEF ReplyIsSnapshot, MirrorValue
  <2>1. CASE be[q].at > cursor
    BY <2>1, <1>1 DEF TypeOK
  <2>2. CASE ~(be[q].at > cursor)
    <3>1. reply'[q].at = 0
      BY <2>2, <1>1
    <3>2. be[q].at <= cursor
      BY <2>2 DEF TypeOK
    <3>3. mirror[q] = MirrorValue(be[q])
      BY <3>2 DEF MirrorInv, MirrorCoversCursor
    <3> QED
      BY <3>1, <3>3
  <2> QED
    BY <2>1, <2>2
<1> QED
  BY <1>2, <1>3, <1>4 DEF MirrorInv

LEMMA ApplyKeepsMirror ==
  ASSUME TypeOK, MirrorInv, NEW t \in Tables, ApplyTable(t)
  PROVE  MirrorInv'
<1>1. /\ UNCHANGED <<be, clock, cursor, replyCursor>>
      /\ \A q \in Row : q \in Pending(t) =>
            /\ reply[q].at # 0 /\ reply'[q] = NoRow
            /\ mirror'[q] = IF reply[q].live THEN reply[q].at ELSE 0
      /\ \A q \in Row : q \notin Pending(t) =>
            reply'[q] = reply[q] /\ mirror'[q] = mirror[q]
  BY DEF ApplyTable, MirrorAfter, Pending
<1>2. StampsBounded'
  BY <1>1 DEF MirrorInv, StampsBounded
<1>3. MirrorCoversCursor'
  <2> SUFFICES ASSUME NEW q \in Row, be[q].at <= cursor
               PROVE  mirror'[q] = MirrorValue(be[q])
    BY <1>1 DEF MirrorCoversCursor, MirrorValue
  <2>1. reply[q].at = 0
    BY DEF TypeOK, MirrorInv, ReplyIsSnapshot
  <2>2. q \notin Pending(t)
    BY <2>1 DEF Pending
  <2> QED
    BY <2>2, <1>1 DEF MirrorInv, MirrorCoversCursor
<1>4. ReplyIsSnapshot'
  <2> SUFFICES ASSUME NEW q \in Row
               PROVE  /\ reply'[q].at # 0 => cursor < reply'[q].at /\ reply'[q].at <= be[q].at
                      /\ replyCursor # 0 /\ be[q].at <= replyCursor =>
                            IF reply'[q].at # 0 THEN reply'[q] = be[q]
                            ELSE mirror'[q] = MirrorValue(be[q])
    BY <1>1 DEF ReplyIsSnapshot, MirrorValue
  <2>1. CASE q \in Pending(t)
    <3>1. reply'[q].at = 0 /\ reply[q].at # 0
      BY <2>1, <1>1
    <3>2. replyCursor # 0 /\ be[q].at <= replyCursor => reply[q] = be[q]
      BY <3>1 DEF MirrorInv, ReplyIsSnapshot
    <3> QED
      BY <2>1, <1>1, <3>1, <3>2 DEF MirrorValue
  <2>2. CASE q \notin Pending(t)
    BY <2>2, <1>1 DEF MirrorInv, ReplyIsSnapshot
  <2> QED
    BY <2>1, <2>2
<1> QED
  BY <1>2, <1>3, <1>4 DEF MirrorInv

LEMMA NothingPending ==
  ASSUME TypeOK, ApplyDone PROVE \A r \in Row : reply[r].at = 0
  BY DEF ApplyDone, Pending

LEMMA CursorKeepsMirror ==
  ASSUME TypeOK, MirrorInv, SetCursor
  PROVE  MirrorInv'
<1>1. /\ UNCHANGED <<be, clock, mirror>>
      /\ cursor' = IF replyCursor # 0 THEN replyCursor ELSE cursor
      /\ replyCursor' = 0
      /\ \A r \in Row : reply'[r].at = 0
      /\ \A r \in Row : reply[r].at = 0
  BY NothingPending DEF SetCursor, NewCursor
<1>2. StampsBounded'
  BY <1>1 DEF TypeOK, MirrorInv, StampsBounded
<1>3. MirrorCoversCursor'
  <2> SUFFICES ASSUME NEW q \in Row, be[q].at <= cursor'
               PROVE  mirror[q] = MirrorValue(be[q])
    BY <1>1 DEF MirrorCoversCursor, MirrorValue
  <2>1. CASE replyCursor # 0
    BY <2>1, <1>1 DEF MirrorInv, ReplyIsSnapshot
  <2>2. CASE replyCursor = 0
    BY <2>2, <1>1 DEF MirrorInv, MirrorCoversCursor
  <2> QED
    BY <2>1, <2>2
<1>4. ReplyIsSnapshot'
  BY <1>1 DEF ReplyIsSnapshot
<1> QED
  BY <1>2, <1>3, <1>4 DEF MirrorInv

LEMMA RestartKeepsMirror ==
  ASSUME TypeOK, MirrorInv, Restart, UNCHANGED <<be, clock, cursor, mirror>>
  PROVE  MirrorInv'
<1>1. replyCursor' = 0 /\ \A r \in Row : reply'[r].at = 0
  BY DEF Restart
<1> QED
  BY <1>1 DEF TypeOK, MirrorInv, StampsBounded, ReplyIsSnapshot,
              MirrorCoversCursor, MirrorValue

(* What a manifest in flight still owes stays owed until it is applied.     *)
LEMMA MirrorInvariant == Spec => []MirrorInv
<1>1. Init => MirrorInv
  BY DEF Init, MirrorInv, StampsBounded, ReplyIsSnapshot, MirrorCoversCursor,
         MirrorValue
<1>2. TypeOK /\ MirrorInv /\ [Next]_vars => MirrorInv'
  <2> SUFFICES ASSUME TypeOK, MirrorInv, [Next]_vars PROVE MirrorInv'
    OBVIOUS
  <2>1. CASE PullManifest
    BY <2>1, PullKeepsMirror
  <2>2. CASE SetCursor
    BY <2>2, CursorKeepsMirror
  <2>3. ASSUME NEW t \in Tables, ApplyTable(t) PROVE MirrorInv'
    BY <2>3, ApplyKeepsMirror
  <2>4. CASE Tick \/ PullFailed \/ PurgeDone \/ FetchDone \/ TickDone
    <3>1. UNCHANGED mirrorVars
      BY <2>4 DEF Tick, PullFailed, PurgeDone, FetchDone, TickDone, mirrorVars, disk
    <3> QED
      BY <3>1, MirrorInvStutter
  <2>5. ASSUME NEW m \in Media,
               FetchStep(m) \/ DeleteMediaBlob(m) \/ UnlinkFile(m)
        PROVE  MirrorInv'
    BY <2>5, FetchKeepsMirror, MirrorInvStutter
  <2>6. ASSUME NEW r \in Row, BackendWrite(r) \/ BackendDelete(r) PROVE MirrorInv'
    BY <2>6, BackendKeepsMirror
  <2>7. CASE Crash
    BY <2>7, RestartKeepsMirror DEF Crash, disk
  <2>8. ASSUME NEW m \in Media, PowerCut(m) PROVE MirrorInv'
    BY <2>8, RestartKeepsMirror DEF PowerCut
  <2>9. CASE UNCHANGED vars
    BY <2>9, MirrorInvStutter DEF vars, mirrorVars, disk, job
  <2> QED
    BY <2>1, <2>2, <2>3, <2>4, <2>5, <2>6, <2>7, <2>8, <2>9 DEF Next, Step
<1> QED
  BY <1>1, <1>2, TypeCorrect, PTL DEF Spec

(* Whatever crashes or power cuts fall between two steps of the tick,      *)
(* every backend change up to the stored cursor is in the mirror.          *)
THEOREM MirrorCorrect == Spec => []MirrorCoversCursor
<1>1. MirrorInv => MirrorCoversCursor
  BY DEF MirrorInv
<1> QED
  BY <1>1, MirrorInvariant, PTL

-----------------------------------------------------------------------------
(* The fault counters only grow, and only by the faults they count.        *)
LEMMA StepKeepsCuts == ASSUME Step PROVE UNCHANGED <<crashes, powerCuts>>
<1>1. ASSUME NEW m \in Media, FetchStep(m) PROVE UNCHANGED <<crashes, powerCuts>>
  BY <1>1 DEF FetchStep, SkipCached, DownloadRefused, DownloadNotModified,
              DownloadNotFound, OpenTarget, WriteBody, WriteShort, WriteCutShort, WriteNothing,
              RecordMediaBlob, faults
<1> QED
  BY <1>1 DEF faults, Step, Tick, PullFailed, PullManifest, SetCursor, PurgeDone,
              FetchDone, TickDone, ApplyTable, DeleteMediaBlob, UnlinkFile

LEMMA PowerCutsGrow ==
  ASSUME TypeOK, [Next]_vars, powerCuts' = 0
  PROVE  powerCuts = 0 /\ ~(\E m \in Media : PowerCut(m))
<1>1. \A m \in Media : ~PowerCut(m)
  BY DEF PowerCut, TypeOK
<1>2. Step => powerCuts' = powerCuts
  BY StepKeepsCuts
<1>3. Crash => powerCuts' = powerCuts
  BY DEF Crash
<1>4. \A r \in Row : BackendWrite(r) \/ BackendDelete(r) => powerCuts' = powerCuts
  BY DEF BackendWrite, BackendDelete, faults
<1>5. UNCHANGED vars => powerCuts' = powerCuts
  BY DEF vars, faults
<1> QED
  BY <1>1, <1>2, <1>3, <1>4, <1>5 DEF Next

LEMMA CrashesGrow ==
  ASSUME TypeOK, [Next]_vars, Uncut' PROVE Uncut /\ ~Crash
<1>1. powerCuts = 0 /\ ~(\E m \in Media : PowerCut(m))
  BY PowerCutsGrow DEF Uncut
<1>2. ~Crash
  BY DEF Crash, TypeOK, Uncut
<1>3. Step => crashes' = crashes
  BY StepKeepsCuts
<1>4. \A r \in Row : BackendWrite(r) \/ BackendDelete(r) => crashes' = crashes
  BY DEF BackendWrite, BackendDelete, faults
<1>5. UNCHANGED vars => crashes' = crashes
  BY DEF vars, faults
<1> QED
  BY <1>1, <1>2, <1>3, <1>4, <1>5 DEF Next, Uncut

-----------------------------------------------------------------------------
(* What is served is complete, unless it was damaged without an error.     *)

fileVars == <<rec, file, pc, unlinking, cur, spoiled>>

LEMMA FetchKeepsFiles ==
  ASSUME TypeOK, FileInv, NEW m \in Media, FetchStep(m)
  PROVE  FileInv'
<1> USE DEF FileInv, DownloadInv, ServedFileComplete, Served
<1>1. CASE SkipCached(m) \/ DownloadRefused(m) \/ DownloadNotModified(m)
  <2>1. UNCHANGED fileVars
    BY <1>1 DEF SkipCached, DownloadRefused, DownloadNotModified, disk, faults, fileVars
  <2> QED
    BY <2>1 DEF fileVars
<1>2. CASE DownloadNotFound(m)
  BY <1>2 DEF DownloadNotFound, Looking, disk, faults
<1>3. CASE OpenTarget(m)
  <2>1. ~rec[m].on \/ m \in spoiled
    BY <1>3 DEF OpenTarget, Cached
  <2>2. /\ rec' = rec /\ cur' = m /\ pc' = "write" /\ spoiled' = spoiled
        /\ unlinking' = unlinking /\ unlinking = {}
        /\ \A n \in Media : n # m => file'[n] = file[n]
    BY <1>3 DEF OpenTarget, Looking, TypeOK, faults
  <2> QED
    BY <2>1, <2>2
<1>4. CASE WriteBody(m)
  <2>1. /\ rec' = rec /\ cur' = cur /\ pc' = "record" /\ unlinking' = unlinking
        /\ file'[m].size = "full" /\ m = cur /\ pc = "write"
        /\ \A n \in Media : n # m => file'[n] = file[n]
        /\ spoiled' = spoiled \ {m}
    BY <1>4 DEF WriteBody, TypeOK
  <2>2. DownloadInv'
    <3>1. pc' = "record" /\ cur' \in Media /\ file'[cur'].size = "full"
      BY <2>1
    <3> QED
      BY <2>1, <3>1
  <2> QED
    BY <2>1, <2>2
<1>5. CASE WriteCutShort(m) \/ WriteNothing(m)
  <2>1. /\ rec' = rec /\ pc' = "fetch" /\ unlinking' = unlinking /\ unlinking = {}
        /\ ~rec[m].on \/ m \in spoiled
        /\ spoiled' = spoiled
        /\ \A n \in Media : n # m => file'[n] = file[n]
    BY <1>5 DEF WriteCutShort, WriteNothing, AfterCutShort, TypeOK, faults
  <2> QED
    BY <2>1
<1>6. CASE RecordMediaBlob(m)
  <2>1. /\ file' = file /\ pc' = "fetch" /\ unlinking' = unlinking /\ unlinking = {}
        /\ file[m].size = "full" \/ m \in spoiled
        /\ spoiled' = spoiled
        /\ \A n \in Media : n # m => rec'[n] = rec[n]
    BY <1>6 DEF RecordMediaBlob, TypeOK, faults
  <2> QED
    BY <2>1
<1>7. CASE WriteShort(m)
  <2>1. /\ rec' = rec /\ cur' = cur /\ pc' = "record" /\ unlinking' = unlinking
        /\ m = cur /\ pc = "write" /\ spoiled' = spoiled \cup {m}
        /\ \A n \in Media : n # m => file'[n] = file[n]
    BY <1>7 DEF WriteShort, TypeOK
  <2> QED
    BY <2>1
<1> QED
  BY <1>1, <1>2, <1>3, <1>4, <1>5, <1>6, <1>7 DEF FetchStep

LEMMA PurgeKeepsFiles ==
  ASSUME TypeOK, FileInv, NEW m \in Media, DeleteMediaBlob(m) \/ UnlinkFile(m)
  PROVE  FileInv'
<1> USE DEF FileInv, DownloadInv, ServedFileComplete, Served
<1>1. CASE DeleteMediaBlob(m)
  <2>1. /\ pc = "purge" /\ pc' = pc /\ file' = file /\ unlinking' \subseteq {m}
        /\ ~rec'[m].on /\ spoiled' = spoiled
        /\ \A n \in Media : n # m => rec'[n] = rec[n]
    BY <1>1 DEF DeleteMediaBlob, TypeOK, faults
  <2> QED
    BY <2>1
<1>2. CASE UnlinkFile(m)
  <2>1. /\ pc = "purge" /\ pc' = pc /\ rec' = rec /\ unlinking' = {}
        /\ ~rec[m].on /\ spoiled' = spoiled
        /\ \A n \in Media : n # m => file'[n] = file[n]
    BY <1>2 DEF UnlinkFile, TypeOK, faults
  <2> QED
    BY <2>1
<1> QED
  BY <1>1, <1>2

(* A served media file is complete at every moment, whatever the service   *)
(* crashes and however downloads end, unless its last body ended short     *)
(* without an error or a power cut took it.                                *)
THEOREM ServedComplete == Spec => []ServedFileComplete
<1>1. Init => FileInv
  BY DEF Init, FileInv, DownloadInv, ServedFileComplete, Served
<1>2. TypeOK /\ FileInv /\ [Next]_vars => FileInv'
  <2> SUFFICES ASSUME TypeOK, FileInv, [Next]_vars PROVE FileInv'
    OBVIOUS
  <2> USE DEF FileInv, DownloadInv, ServedFileComplete, Served
  <2>2. ASSUME NEW m \in Media, FetchStep(m) PROVE FileInv'
    BY <2>2, FetchKeepsFiles
  <2>3. ASSUME NEW m \in Media, DeleteMediaBlob(m) \/ UnlinkFile(m) PROVE FileInv'
    BY <2>3, PurgeKeepsFiles
  <2>4. CASE Tick \/ PullFailed \/ PullManifest \/ SetCursor \/ FetchDone \/ TickDone
    <3>1. /\ rec' = rec /\ file' = file /\ unlinking' = unlinking /\ spoiled' = spoiled
          /\ pc # "purge" /\ pc' \notin {"write", "record", "purge"}
      BY <2>4 DEF Tick, PullFailed, PullManifest, SetCursor, FetchDone, TickDone, disk,
                  faults
    <3> QED
      BY <3>1
  <2>5. CASE PurgeDone
    <3>1. /\ rec' = rec /\ file' = file /\ unlinking' = {} /\ spoiled' = spoiled
          /\ pc' \notin {"write", "record"}
      BY <2>5 DEF PurgeDone, TypeOK, disk, faults
    <3> QED
      BY <3>1
  <2>6. ASSUME NEW t \in Tables, ApplyTable(t) PROVE FileInv'
    <3>1. /\ rec' = rec /\ file' = file /\ unlinking' = unlinking /\ spoiled' = spoiled
          /\ pc = "apply" /\ pc' \notin {"write", "record"}
      BY <2>6 DEF ApplyTable, faults
    <3> QED
      BY <3>1
  <2>7. ASSUME NEW r \in Row, BackendWrite(r) \/ BackendDelete(r) PROVE FileInv'
    <3>1. UNCHANGED fileVars
      BY <2>7 DEF BackendWrite, BackendDelete, disk, job, faults, fileVars
    <3> QED
      BY <3>1 DEF fileVars
  <2>8. CASE Crash
    BY <2>8 DEF Crash, Restart, disk
  <2>9. ASSUME NEW m \in Media, PowerCut(m) PROVE FileInv'
    <3>1. /\ rec' = rec /\ pc' = "idle" /\ unlinking' = {}
          /\ spoiled' = spoiled \cup {m}
          /\ \A n \in Media : n # m => file'[n] = file[n]
      BY <2>9 DEF PowerCut, Restart, TypeOK
    <3> QED
      BY <3>1
  <2>10. CASE UNCHANGED vars
    <3>1. UNCHANGED fileVars
      BY <2>10 DEF vars, disk, job, faults, fileVars
    <3> QED
      BY <3>1 DEF fileVars
  <2> QED
    BY <2>2, <2>3, <2>4, <2>5, <2>6, <2>7, <2>8, <2>9, <2>10 DEF Next, Step
<1>3. FileInv => ServedFileComplete
  BY DEF FileInv
<1> QED
  BY <1>1, <1>2, <1>3, TypeCorrect, PTL DEF Spec

-----------------------------------------------------------------------------
(* Tombstones leave no blob behind, as long as no tick is cut short.       *)

LEMMA ApplyKeepsPurge ==
  ASSUME TypeOK, RowInv, NEW t \in Tables, ApplyTable(t)
  PROVE  RowInv'
<1>1. /\ pc = "apply" /\ ret' = "apply" /\ pc' \in {"apply", "purge"}
      /\ rec' = rec /\ purging' = Purgeable(t)
      /\ pc' = IF Purgeable(t) = {} THEN "apply" ELSE "purge"
      /\ \A q \in Row : mirror'[q] = IF q \notin Pending(t) THEN mirror[q]
                                    ELSE IF reply[q].live THEN reply[q].at ELSE 0
  BY DEF ApplyTable, MirrorAfter
<1>2. ASSUME NEW m \in Media, rec'[m].on, mirror'[m] = 0
      PROVE  pc' = "purge" /\ m \in purging'
  <2>1. mirror[m] # 0
    BY <1>1, <1>2 DEF RowInv
  <2>2. m \in Pending(t) /\ ~reply[m].live
    BY <1>1, <1>2, <2>1 DEF Pending, TypeOK
  <2>3. t = "lw_media"
    BY <2>2, IdAssumption DEF Pending
  <2>4. m \in Purgeable(t)
    BY <2>1, <2>2, <2>3 DEF Purgeable, DeletedBy
  <2> QED
    BY <2>4, <1>1
<1> QED
  BY <1>1, <1>2 DEF RowInv

LEMMA FetchKeepsPurge ==
  ASSUME TypeOK, RowInv, NEW m \in Media, FetchStep(m)
  PROVE  RowInv'
<1> USE DEF RowInv, Looking
<1>1. CASE SkipCached(m) \/ DownloadRefused(m) \/ DownloadNotModified(m)
  <2>1. /\ pc = "fetch" /\ pc' = pc /\ rec' = rec /\ mirror' = mirror
        /\ queue' \subseteq queue
    BY <1>1 DEF SkipCached, DownloadRefused, DownloadNotModified, disk
  <2> QED
    BY <2>1
<1>2. CASE DownloadNotFound(m)
  BY <1>2 DEF DownloadNotFound, disk
<1>3. CASE OpenTarget(m)
  BY <1>3 DEF OpenTarget
<1>4. CASE WriteBody(m) \/ WriteShort(m)
  BY <1>4 DEF WriteBody, WriteShort
<1>5. CASE WriteCutShort(m) \/ WriteNothing(m)
  <2>1. /\ pc = "write" /\ pc' = "fetch" /\ rec' = rec /\ mirror' = mirror
        /\ queue' = queue
    BY <1>5 DEF WriteCutShort, WriteNothing, AfterCutShort
  <2> QED
    BY <2>1
<1>6. CASE RecordMediaBlob(m)
  <2>1. /\ pc = "record" /\ pc' = "fetch" /\ mirror' = mirror /\ queue' = queue
        /\ mirror[m] # 0
        /\ \A n \in Media : n # m => rec'[n] = rec[n]
    BY <1>6 DEF RecordMediaBlob, TypeOK
  <2> QED
    BY <2>1
<1> QED
  BY <1>1, <1>2, <1>3, <1>4, <1>5, <1>6 DEF FetchStep

(* When no tick is cut short, no blob is served between ticks of a media   *)
(* row that is not in the mirror.                                          *)
THEOREM TombstonesPurged == Spec => []NoTombstonedBlob
<1>1. Init => PurgeInv
  BY DEF Init, PurgeInv, RowInv
<1>2. TypeOK /\ PurgeInv /\ [Next]_vars => PurgeInv'
  <2> SUFFICES ASSUME TypeOK, PurgeInv, [Next]_vars, Uncut' PROVE RowInv'
    BY DEF PurgeInv
  <2>0. RowInv /\ ~Crash /\ ~(\E m \in Media : PowerCut(m))
    BY CrashesGrow, PowerCutsGrow DEF PurgeInv, Uncut
  <2> USE DEF RowInv
  <2>1. ASSUME NEW t \in Tables, ApplyTable(t) PROVE RowInv'
    BY <2>0, <2>1, ApplyKeepsPurge
  <2>2. ASSUME NEW m \in Media, FetchStep(m) PROVE RowInv'
    BY <2>0, <2>2, FetchKeepsPurge
  <2>3. CASE Tick \/ PullFailed \/ PullManifest \/ TickDone \/ FetchDone
    <3>1. /\ rec' = rec /\ mirror' = mirror /\ pc # "purge"
          /\ pc' \notin {"fetch", "write", "record", "purge"}
      BY <2>3 DEF Tick, PullFailed, PullManifest, TickDone, FetchDone, disk
    <3> QED
      BY <2>0, <3>1
  <2>4. CASE SetCursor
    BY <2>0, <2>4 DEF SetCursor
  <2>5. CASE PurgeDone
    BY <2>0, <2>5 DEF PurgeDone, disk, TypeOK
  <2>6. ASSUME NEW m \in Media, DeleteMediaBlob(m) PROVE RowInv'
    <3>1. /\ pc = "purge" /\ pc' = pc /\ ret' = ret /\ queue' = queue
          /\ mirror' = mirror /\ purging' = purging \ {m} /\ ~rec'[m].on
          /\ \A n \in Media : n # m => rec'[n] = rec[n]
      BY <2>6 DEF DeleteMediaBlob, TypeOK
    <3> QED
      BY <2>0, <3>1
  <2>7. ASSUME NEW m \in Media, UnlinkFile(m) PROVE RowInv'
    BY <2>0, <2>7 DEF UnlinkFile
  <2>8. ASSUME NEW r \in Row, BackendWrite(r) \/ BackendDelete(r) PROVE RowInv'
    BY <2>0, <2>8 DEF BackendWrite, BackendDelete, disk, job
  <2>11. CASE UNCHANGED vars
    BY <2>0, <2>11 DEF vars, disk, job
  <2> QED
    BY <2>1, <2>2, <2>3, <2>4, <2>5, <2>6, <2>7, <2>8, <2>0, <2>11
       DEF Next, Step
<1>3. PurgeInv => NoTombstonedBlob
  BY DEF PurgeInv, RowInv, NoTombstonedBlob, Served
<1> QED
  BY <1>1, <1>2, <1>3, TypeCorrect, PTL DEF Spec

-----------------------------------------------------------------------------
(* The mirrored tables implement Replica.                                  *)

LEMMA ForwardStutter ==
  ASSUME ForwardInv, UNCHANGED mirrorVars PROVE ForwardInv'
  BY DEF ForwardInv, mirrorVars

LEMMA BackendGoesForward ==
  ASSUME TypeOK, MirrorInv, ForwardInv,
         NEW r \in Row, BackendWrite(r) \/ BackendDelete(r)
  PROVE  ForwardInv' /\ Mirror!Change
<1>1. /\ UNCHANGED <<cursor, mirror, reply, replyCursor>>
      /\ be'[r].at = clock + 1
      /\ \A q \in Row : q # r => be'[q] = be[q]
  BY DEF BackendWrite, BackendDelete, TypeOK, disk, job
<1>2. cursor < be'[r].at /\ be[r].at < be'[r].at
  BY <1>1 DEF TypeOK, MirrorInv, StampsBounded
<1>3. mirror[r] < be'[r].at
  <2>1. mirror[r] <= be[r].at
    BY DEF ForwardInv
  <2> QED
    BY <1>1, <1>2, <2>1 DEF TypeOK
<1>4. reply[r].at # 0 => reply[r].at < be'[r].at
  <2>1. reply[r].at # 0 => reply[r].at <= be[r].at
    BY DEF MirrorInv, ReplyIsSnapshot
  <2> QED
    BY <1>1, <1>2, <2>1 DEF TypeOK
<1>5. ForwardInv'
  <2> SUFFICES ASSUME NEW q \in Row
               PROVE  /\ mirror[q] <= be'[q].at
                      /\ mirror[q] # 0 /\ mirror[q] = be'[q].at => be'[q].live
                      /\ reply[q].at # 0 =>
                            /\ mirror[q] <= reply[q].at
                            /\ reply[q].at = be'[q].at => reply[q] = be'[q]
    BY <1>1 DEF ForwardInv
  <2>1. CASE q = r
    <3>1. reply[r].at # 0 => mirror[r] <= reply[r].at
      BY DEF ForwardInv
    <3>2. mirror[r] \in Nat /\ reply[r].at \in Nat /\ be'[r].at \in Nat
      BY <1>1 DEF TypeOK
    <3> QED
      BY <2>1, <3>1, <3>2, <1>3, <1>4
  <2>2. CASE q # r
    BY <2>2, <1>1 DEF ForwardInv
  <2> QED
    BY <2>1, <2>2
<1>6. be' \in [Row -> [live : BOOLEAN, at : Nat]]
  <2>1. PICK live \in BOOLEAN : be' = [be EXCEPT ![r] = [live |-> live, at |-> clock + 1]]
    BY DEF BackendWrite, BackendDelete
  <2>2. [live |-> live, at |-> clock + 1] \in [live : BOOLEAN, at : Nat]
    BY DEF TypeOK
  <2> QED
    BY <2>1, <2>2 DEF TypeOK
<1> QED
  BY <1>1, <1>2, <1>5, <1>6 DEF Mirror!Change

LEMMA PullGoesForward ==
  ASSUME TypeOK, MirrorInv, ForwardInv, PullManifest
  PROVE  ForwardInv'
<1>1. /\ UNCHANGED <<be, clock, cursor, mirror>>
      /\ replyCursor' \in {clock, 0}
      /\ \A r \in Row : reply'[r] = IF be[r].at > cursor THEN be[r] ELSE NoRow
  BY DEF PullManifest, BackendManifest, disk
<1>2. cursor <= clock
  BY DEF MirrorInv, StampsBounded
<1>3. \A r \in Row : reply'[r].at # 0 => reply'[r] = be[r]
  BY <1>1
<1> QED
  BY <1>1, <1>2, <1>3 DEF ForwardInv

(* A table applied takes each row it brings forward, and only rows the     *)
(* cursor does not vouch for.                                              *)
LEMMA ApplyGoesForward ==
  ASSUME TypeOK, MirrorInv, ForwardInv, NEW t \in Tables, ApplyTable(t)
  PROVE  ForwardInv' /\ Mirror!Follow
<1>1. /\ UNCHANGED <<be, clock, cursor, replyCursor>>
      /\ \A q \in Row : q \in Pending(t) =>
            /\ reply[q].at # 0 /\ reply'[q] = NoRow
            /\ mirror'[q] = IF reply[q].live THEN reply[q].at ELSE 0
      /\ \A q \in Row : q \notin Pending(t) =>
            reply'[q] = reply[q] /\ mirror'[q] = mirror[q]
  BY DEF ApplyTable, MirrorAfter, Pending
<1>2. mirror' \in [Row -> Nat]
  BY DEF TypeOK, ApplyTable, MirrorAfter
<1>3. ASSUME NEW q \in Row, q \in Pending(t)
      PROVE  /\ cursor < be[q].at /\ reply[q].at <= be[q].at
             /\ mirror[q] <= reply[q].at
             /\ reply[q].at = be[q].at => reply[q] = be[q]
  <2>1. reply[q].at # 0
    BY <1>1, <1>3
  <2>2. cursor < reply[q].at /\ reply[q].at <= be[q].at
    BY <2>1 DEF MirrorInv, ReplyIsSnapshot
  <2>3. cursor < be[q].at
    BY <2>2 DEF TypeOK
  <2> QED
    BY <2>1, <2>2, <2>3 DEF ForwardInv
<1>4. ForwardInv'
  <2> SUFFICES ASSUME NEW q \in Row
               PROVE  /\ mirror'[q] <= be[q].at
                      /\ mirror'[q] # 0 /\ mirror'[q] = be[q].at => be[q].live
                      /\ reply'[q].at # 0 =>
                            /\ mirror'[q] <= reply'[q].at
                            /\ reply'[q].at = be[q].at => reply'[q] = be[q]
    BY <1>1 DEF ForwardInv
  <2>1. CASE q \in Pending(t)
    <3>1. reply'[q].at = 0
      BY <2>1, <1>1
    <3>2. mirror'[q] <= be[q].at
      <4>1. reply[q].at <= be[q].at /\ be[q].at \in Nat
        BY <2>1, <1>3 DEF TypeOK
      <4> QED
        BY <2>1, <1>1, <4>1
    <3>3. mirror'[q] # 0 => reply[q].live /\ mirror'[q] = reply[q].at
      BY <2>1, <1>1
    <3> QED
      BY <2>1, <1>3, <3>1, <3>2, <3>3
  <2>2. CASE q \notin Pending(t)
    BY <2>2, <1>1 DEF ForwardInv
  <2> QED
    BY <2>1, <2>2
<1>5. ASSUME NEW q \in Row, mirror'[q] # mirror[q]
      PROVE  /\ cursor < be[q].at /\ mirror[q] < be[q].at
             /\ mirror'[q] <= be[q].at
             /\ mirror'[q] # 0 => mirror[q] < mirror'[q]
  <2>1. q \in Pending(t)
    BY <1>1, <1>5
  <2>2. /\ mirror[q] \in Nat /\ reply[q].at \in Nat /\ be[q].at \in Nat
        /\ mirror'[q] = IF reply[q].live THEN reply[q].at ELSE 0
    BY <1>1, <2>1 DEF TypeOK
  <2>3. /\ cursor < be[q].at /\ reply[q].at <= be[q].at
        /\ mirror[q] <= reply[q].at
    BY <1>3, <2>1
  <2>4. mirror[q] # be[q].at
    <3> SUFFICES ASSUME mirror[q] = be[q].at PROVE FALSE
      OBVIOUS
    <3>1. reply[q].at = be[q].at /\ mirror[q] = reply[q].at
      BY <2>2, <2>3
    <3>2. reply[q] = be[q] /\ reply[q].at # 0
      BY <1>1, <1>3, <2>1, <3>1
    <3>3. be[q].live
      BY <3>1, <3>2 DEF ForwardInv
    <3> QED
      BY <1>5, <2>2, <3>1, <3>2, <3>3
  <2>5. mirror'[q] # 0 => mirror'[q] = reply[q].at
    BY <2>2
  <2> QED
    BY <2>2, <2>3, <2>4, <2>5, <1>5
<1> QED
  BY <1>1, <1>2, <1>4, <1>5 DEF Mirror!Follow

LEMMA CursorGoesForward ==
  ASSUME TypeOK, MirrorInv', ForwardInv, SetCursor
  PROVE  ForwardInv' /\ (Mirror!Advance \/ UNCHANGED <<be, mirror, cursor>>)
<1>1. /\ UNCHANGED <<be, mirror>>
      /\ cursor' = IF replyCursor # 0 THEN replyCursor ELSE cursor
      /\ replyCursor' = 0
      /\ \A r \in Row : reply'[r].at = 0
  BY DEF SetCursor, NewCursor
<1>2. ForwardInv'
  BY <1>1 DEF ForwardInv
<1>3. CASE cursor' # cursor
  <2>1. cursor' \in Nat /\ cursor < cursor'
    BY <1>1, <1>3 DEF TypeOK, ForwardInv
  <2>2. \A r \in Row : be[r].at <= cursor' => Mirror!Copied(r)
    BY <1>1 DEF MirrorInv, MirrorCoversCursor, MirrorValue, Mirror!Copied
  <2> QED
    BY <1>1, <1>2, <2>1, <2>2 DEF Mirror!Advance
<1> QED
  BY <1>1, <1>2, <1>3

LEMMA RestartGoesForward ==
  ASSUME ForwardInv, Restart, UNCHANGED <<be, cursor, mirror>>
  PROVE  ForwardInv'
<1>1. replyCursor' = 0 /\ \A r \in Row : reply'[r].at = 0
  BY DEF Restart
<1> QED
  BY <1>1 DEF ForwardInv

LEMMA MirrorSteps ==
  ASSUME TypeOK, MirrorInv, MirrorInv', ForwardInv, [Next]_vars
  PROVE  ForwardInv' /\ (Mirror!Next \/ UNCHANGED <<be, mirror, cursor>>)
<1>1. CASE PullManifest
  BY <1>1, PullGoesForward DEF PullManifest, disk
<1>2. CASE SetCursor
  BY <1>2, CursorGoesForward DEF Mirror!Next
<1>3. ASSUME NEW t \in Tables, ApplyTable(t) PROVE ForwardInv' /\ Mirror!Next
  BY <1>3, ApplyGoesForward DEF Mirror!Next
<1>4. ASSUME UNCHANGED mirrorVars
      PROVE  ForwardInv' /\ UNCHANGED <<be, mirror, cursor>>
  BY <1>4, ForwardStutter DEF mirrorVars
<1>5. CASE Tick \/ PullFailed \/ PurgeDone \/ FetchDone \/ TickDone
  <2>1. UNCHANGED mirrorVars
    BY <1>5 DEF Tick, PullFailed, PurgeDone, FetchDone, TickDone, mirrorVars, disk
  <2> QED
    BY <1>4, <2>1
<1>6. ASSUME NEW m \in Media,
             FetchStep(m) \/ DeleteMediaBlob(m) \/ UnlinkFile(m)
      PROVE  UNCHANGED mirrorVars
  BY <1>6, FetchKeepsMirror
<1>7. ASSUME NEW r \in Row, BackendWrite(r) \/ BackendDelete(r)
      PROVE  ForwardInv' /\ Mirror!Next
  BY <1>7, BackendGoesForward DEF Mirror!Next
<1>8. CASE Crash
  BY <1>8, RestartGoesForward DEF Crash, disk
<1>9. ASSUME NEW m \in Media, PowerCut(m)
      PROVE  ForwardInv' /\ UNCHANGED <<be, mirror, cursor>>
  BY <1>9, RestartGoesForward DEF PowerCut
<1>10. CASE UNCHANGED vars
  <2>1. UNCHANGED mirrorVars
    BY <1>10 DEF vars, mirrorVars, disk, job
  <2> QED
    BY <1>4, <2>1
<1> QED
  BY <1>1, <1>2, <1>3, <1>4, <1>5, <1>6, <1>7, <1>8, <1>9, <1>10 DEF Next, Step

(* The mirrored tables implement Replica: between the backend and the      *)
(* cache no row is ever taken back to an older version, no row the cursor  *)
(* vouches for is touched, and the cursor moves forward only over changes  *)
(* that are all copied, whatever crashes and however often a manifest is   *)
(* applied.                                                                *)
THEOREM ImplementsReplica == Spec => ReplicaSpec
<1>1. Init => ForwardInv /\ Mirror!Init
  <2> SUFFICES ASSUME Init PROVE ForwardInv /\ Mirror!Init
    OBVIOUS
  <2>1. ForwardInv
    BY DEF Init, ForwardInv
  <2>2. Mirror!Init
    BY DEF Init, Mirror!Init
  <2> QED
    BY <2>1, <2>2
<1>2. TypeOK /\ MirrorInv /\ MirrorInv' /\ ForwardInv /\ [Next]_vars
        => ForwardInv' /\ [Mirror!Next]_<<be, mirror, cursor>>
  BY MirrorSteps
<1> QED
  BY <1>1, <1>2, TypeCorrect, MirrorInvariant, PTL DEF Spec, ReplicaSpec, Mirror!Spec
=============================================================================
