------------------------------ MODULE SyncCache ------------------------------
(***************************************************************************)
(* The sync client of the kiosk (services/sync_client.py) over its local   *)
(* SQLite cache (services/local_cache.py): pull the manifest, apply the    *)
(* rows, purge tombstoned media, advance the cursor, download the media    *)
(* files that are missing.  Every transaction on the database and every    *)
(* operation on a file is a step of its own, so a crash of the service, a  *)
(* power cut or an exception caught by main() can fall between any two.    *)
(* The backend is external: what it must provide is stated by Backend*.    *)
(***************************************************************************)
EXTENDS Naturals, FiniteSets

CONSTANTS
    Media,        \* ids of the rows of table lw_media
    Other,        \* ids of the rows of the other mirrored tables
    Broken,       \* media the backend never serves a whole body for
    Limit,        \* downloads per tick (50 in the code)
    SendsEtag,    \* TRUE iff media responses carry an ETag
    MaxClock,     \* bound: changes made on the backend
    MaxCrashes,   \* bound: crashes of the service
    MaxShorts,    \* bound: bodies that end short without an error
    MaxPowerCuts  \* bound: power cuts that lose unsynced file data

ASSUME IdAssumption ==
    /\ Media \subseteq Nat \ {0}
    /\ Other \subseteq Nat \ {0}
    /\ Media \cap Other = {}
ASSUME LimitAssumption == Limit \in Nat \ {0}
ASSUME OptionAssumption == Broken \subseteq Media /\ SendsEtag \in BOOLEAN
ASSUME BoundAssumption ==
    /\ MaxClock \in Nat /\ MaxCrashes \in Nat
    /\ MaxShorts \in Nat /\ MaxPowerCuts \in Nat

Row == Media \cup Other
NoMedia == 0
Tables == {"lw_media", "other"}
RowsOf(t) == IF t = "lw_media" THEN Media ELSE Other

VARIABLES
    be,           \* backend rows: live or tombstoned, and when last changed (0: never existed)
    clock,        \* the backend's clock; a change is stamped with it
    cursor,       \* sync_state.cursor_at (0: unset)
    mirror,       \* lw_mirror: the stamp of the mirrored payload (0: no row)
    rec,          \* media_blobs: is there a record, and its etag (0: NULL)
    file,         \* media/<id>.bin
    pc,           \* where the tick stands
    reply,        \* manifest rows received and not yet applied
    replyCursor,  \* cursor_at of that manifest (0: missing)
    purging,      \* media ids still to go through _purge_media_file
    unlinking,    \* the id whose record is deleted and file not yet unlinked
    ret,          \* where to go on after the purge
    queue,        \* media ids fetch_missing_media has not looked at yet
    fetched,      \* its counter
    cur, body,    \* the download in progress and the version it receives
    spoiled,      \* observer: files damaged without an error the client could see
    crashes, shorts, powerCuts

job == <<pc, reply, replyCursor, purging, unlinking, ret, queue, fetched, cur, body>>
disk == <<cursor, mirror, rec, file>>
faults == <<crashes, shorts, powerCuts, spoiled>>
vars == <<be, clock, disk, job, faults>>

RowState == [live : BOOLEAN, at : Nat]
NoRow == [live |-> FALSE, at |-> 0]
Record == [on : BOOLEAN, etag : Nat]
NoRecord == [on |-> FALSE, etag |-> 0]
NoFile == [size |-> "none", v |-> 0]
Empty == [size |-> "empty", v |-> 0]
File == [size : {"none", "empty", "part", "full"}, v : Nat]
NoReply == [r \in Row |-> NoRow]

TypeOK ==
    /\ be \in [Row -> RowState]
    /\ clock \in Nat /\ cursor \in Nat
    /\ mirror \in [Row -> Nat]
    /\ rec \in [Media -> Record]
    /\ file \in [Media -> File]
    /\ pc \in {"idle", "pull", "apply", "purge", "fetch", "write", "record", "push"}
    /\ reply \in [Row -> RowState]
    /\ replyCursor \in Nat
    /\ purging \subseteq Media /\ unlinking \subseteq Media
    /\ ret \in {"apply", "fetch"}
    /\ queue \subseteq Media /\ fetched \in Nat
    /\ cur \in Media \cup {NoMedia} /\ body \in Nat
    /\ crashes \in Nat /\ shorts \in Nat /\ powerCuts \in Nat
    /\ spoiled \subseteq Media

Init ==
    /\ be = [r \in Row |-> NoRow]
    /\ clock = 0 /\ cursor = 0
    /\ mirror = [r \in Row |-> 0]
    /\ rec = [m \in Media |-> NoRecord]
    /\ file = [m \in Media |-> NoFile]
    /\ pc = "idle" /\ reply = NoReply /\ replyCursor = 0
    /\ purging = {} /\ unlinking = {} /\ ret = "apply"
    /\ queue = {} /\ fetched = 0 /\ cur = NoMedia /\ body = 0
    /\ crashes = 0 /\ shorts = 0 /\ powerCuts = 0 /\ spoiled = {}

-----------------------------------------------------------------------------
(* The backend (external).  A change takes a fresh stamp, so a manifest    *)
(* for a cursor holds exactly the rows changed after it.                   *)

BackendWrite(r) ==
    /\ clock < MaxClock
    /\ clock' = clock + 1
    /\ be' = [be EXCEPT ![r] = [live |-> TRUE, at |-> clock + 1]]
    /\ UNCHANGED <<disk, job, faults>>

BackendDelete(r) ==
    /\ clock < MaxClock
    /\ be[r].live
    /\ clock' = clock + 1
    /\ be' = [be EXCEPT ![r] = [live |-> FALSE, at |-> clock + 1]]
    /\ UNCHANGED <<disk, job, faults>>

BackendManifest(since) ==
    [r \in Row |-> IF be[r].at > since THEN be[r] ELSE NoRow]

-----------------------------------------------------------------------------
(* Phase 1: pull the manifest and apply it table by table.                 *)

Pending(t) == {r \in RowsOf(t) : reply[r].at # 0}

Tick ==
    /\ pc = "idle"
    /\ pc' = "pull"
    /\ UNCHANGED <<be, clock, disk, reply, replyCursor, purging, unlinking, ret,
                   queue, fetched, cur, body, faults>>

(* Any network error, refusal or unreadable body: the tick goes on with    *)
(* the events and the diagnostics, and fetches nothing.                    *)
PullFailed ==
    /\ pc = "pull"
    /\ pc' = "push"
    /\ UNCHANGED <<be, clock, disk, reply, replyCursor, purging, unlinking, ret,
                   queue, fetched, cur, body, faults>>

PullManifest ==
    /\ pc = "pull"
    /\ reply' = BackendManifest(cursor)
    /\ replyCursor' \in {clock, 0}
    /\ pc' = "apply"
    /\ UNCHANGED <<be, clock, disk, purging, unlinking, ret, queue, fetched, cur,
                   body, faults>>

(* apply_rows: one transaction per table; a tombstone removes the row.     *)
MirrorAfter(t) ==
    [r \in Row |-> IF r \notin Pending(t) THEN mirror[r]
                   ELSE IF reply[r].live THEN reply[r].at ELSE 0]

DeletedBy(t) == {r \in Pending(t) : ~reply[r].live /\ mirror[r] # 0}

Purgeable_None(t) == {}

Purgeable(t) ==
    IF t = "lw_media" /\ DeletedBy(t) # {}
    THEN {r \in Pending(t) : ~reply[r].live}
    ELSE {}

ApplyTable(t) ==
    /\ pc = "apply"
    /\ Pending(t) # {}
    /\ mirror' = MirrorAfter(t)
    /\ purging' = Purgeable(t)
    /\ reply' = [r \in Row |-> IF r \in Pending(t) THEN NoRow ELSE reply[r]]
    /\ pc' = IF Purgeable(t) = {} THEN "apply" ELSE "purge"
    /\ ret' = "apply"
    /\ UNCHANGED <<be, clock, cursor, rec, file, replyCursor, unlinking, queue,
                   fetched, cur, body, faults>>

ApplyDone_TooEarly == Pending("lw_media") = {}

ApplyDone == \A t \in Tables : Pending(t) = {}

NewCursor_Missing == replyCursor

(* A manifest without a cursor_at leaves the stored cursor alone.          *)
NewCursor == IF replyCursor # 0 THEN replyCursor ELSE cursor

(* The cursor is written last; then the rows of lw_media are listed.       *)
SetCursor ==
    /\ pc = "apply"
    /\ ApplyDone
    /\ cursor' = NewCursor
    /\ replyCursor' = 0
    /\ reply' = NoReply
    /\ queue' = {m \in Media : mirror[m] # 0}
    /\ fetched' = 0
    /\ pc' = "fetch"
    /\ UNCHANGED <<be, clock, mirror, rec, file, purging, unlinking, ret, cur,
                   body, faults>>

-----------------------------------------------------------------------------
(* _purge_media_file: delete_media_blob commits, then the file is unlinked *)
(* (an OSError on the unlink is logged and ignored).                       *)

DeleteMediaBlob(m) ==
    /\ pc = "purge"
    /\ unlinking = {}
    /\ m \in purging
    /\ purging' = purging \ {m}
    /\ unlinking' = IF rec[m].on THEN {m} ELSE {}
    /\ rec' = [rec EXCEPT ![m] = NoRecord]
    /\ UNCHANGED <<be, clock, cursor, mirror, file, pc, reply, replyCursor, ret,
                   queue, fetched, cur, body, faults>>

UnlinkFile(m) ==
    /\ pc = "purge"
    /\ m \in unlinking
    /\ file' \in {[file EXCEPT ![m] = NoFile], file}
    /\ unlinking' = {}
    /\ UNCHANGED <<be, clock, cursor, mirror, rec, pc, reply, replyCursor, purging,
                   ret, queue, fetched, cur, body, faults>>

PurgeDone ==
    /\ pc = "purge"
    /\ purging = {} /\ unlinking = {}
    /\ pc' = ret
    /\ UNCHANGED <<be, clock, disk, reply, replyCursor, purging, unlinking, ret,
                   queue, fetched, cur, body, faults>>

-----------------------------------------------------------------------------
(* Phase 2: fetch_missing_media walks the rows in id order and stops once  *)
(* Limit downloads succeeded; failures do not count towards the limit.     *)

Cached(m) == rec[m].on /\ file[m].size \in {"part", "full"}

Looking(m) ==
    /\ pc = "fetch"
    /\ fetched < Limit
    /\ m \in queue
    /\ \A n \in queue : m <= n

SkipCached(m) ==
    /\ Looking(m)
    /\ Cached(m)
    /\ queue' = queue \ {m}
    /\ UNCHANGED <<be, clock, disk, pc, reply, replyCursor, purging, unlinking, ret,
                   fetched, cur, body, faults>>

FailureCost == 0

DownloadRefused(m) ==
    /\ Looking(m)
    /\ ~Cached(m)
    /\ queue' = queue \ {m}
    /\ fetched' = fetched + FailureCost
    /\ UNCHANGED <<be, clock, disk, pc, reply, replyCursor, purging, unlinking, ret,
                   cur, body, faults>>

(* If-None-Match goes out whenever the record holds an etag, whatever      *)
(* state the file is in.                                                   *)
EtagMatches(m) == rec[m].on /\ rec[m].etag # 0 /\ rec[m].etag = be[m].at

DownloadNotModified(m) ==
    /\ Looking(m)
    /\ ~Cached(m)
    /\ be[m].live /\ EtagMatches(m)
    /\ queue' = queue \ {m}
    /\ fetched' = fetched + 1
    /\ UNCHANGED <<be, clock, disk, pc, reply, replyCursor, purging, unlinking, ret,
                   cur, body, faults>>

DownloadNotFound(m) ==
    /\ Looking(m)
    /\ ~Cached(m)
    /\ ~be[m].live
    /\ queue' = queue \ {m}
    /\ purging' = {m}
    /\ ret' = "fetch"
    /\ pc' = "purge"
    /\ UNCHANGED <<be, clock, disk, reply, replyCursor, unlinking, fetched, cur,
                   body, faults>>

(* 200: open(target, "wb") truncates the target before a byte arrives.     *)
OpenTarget(m) ==
    /\ Looking(m)
    /\ ~Cached(m)
    /\ be[m].live /\ ~EtagMatches(m)
    /\ file' = [file EXCEPT ![m] = Empty]
    /\ cur' = m
    /\ body' = be[m].at
    /\ queue' = queue \ {m}
    /\ pc' = "write"
    /\ UNCHANGED <<be, clock, cursor, mirror, rec, reply, replyCursor, purging,
                   unlinking, ret, fetched, faults>>

WriteBody(m) ==
    /\ pc = "write" /\ m = cur
    /\ m \notin Broken
    /\ file' = [file EXCEPT ![m] = [size |-> "full", v |-> body]]
    /\ spoiled' = spoiled \ {m}
    /\ pc' = "record"
    /\ UNCHANGED <<be, clock, cursor, mirror, rec, reply, replyCursor, purging,
                   unlinking, ret, queue, fetched, cur, body, crashes, shorts,
                   powerCuts>>

(* The connection closes early and the HTTP library does not compare the   *)
(* body with Content-Length: the loop ends as it does after the last byte, *)
(* and only a file of no bytes is noticed.                                 *)
WriteShort(m) ==
    /\ pc = "write" /\ m = cur
    /\ shorts < MaxShorts
    /\ shorts' = shorts + 1
    /\ file' = [file EXCEPT ![m] = [size |-> "part", v |-> body]]
    /\ spoiled' = spoiled \cup {m}
    /\ pc' = "record"
    /\ UNCHANGED <<be, clock, cursor, mirror, rec, reply, replyCursor, purging,
                   unlinking, ret, queue, fetched, cur, body, crashes, powerCuts>>

AfterCutShort_Record == "record"

AfterCutShort == "fetch"

(* The stream breaks or the disk fills up: OSError, the file stays as it   *)
(* is, with or without bytes in it.                                        *)
WriteCutShort(m) ==
    /\ pc = "write" /\ m = cur
    /\ file' \in {file, [file EXCEPT ![m] = [size |-> "part", v |-> body]]}
    /\ pc' = AfterCutShort
    /\ cur' = IF AfterCutShort = "fetch" THEN NoMedia ELSE cur
    /\ body' = IF AfterCutShort = "fetch" THEN 0 ELSE body
    /\ UNCHANGED <<be, clock, cursor, mirror, rec, reply, replyCursor, purging,
                   unlinking, ret, queue, fetched, faults>>

(* A 200 whose body is empty: the target is unlinked, nothing is recorded. *)
WriteNothing(m) ==
    /\ pc = "write" /\ m = cur
    /\ file' = [file EXCEPT ![m] = NoFile]
    /\ pc' = "fetch" /\ cur' = NoMedia /\ body' = 0
    /\ UNCHANGED <<be, clock, cursor, mirror, rec, reply, replyCursor, purging,
                   unlinking, ret, queue, fetched, faults>>

RecordMediaBlob(m) ==
    /\ pc = "record" /\ m = cur
    /\ rec' = [rec EXCEPT ![m] = [on |-> TRUE, etag |-> IF SendsEtag THEN body ELSE 0]]
    /\ fetched' = fetched + 1
    /\ pc' = "fetch" /\ cur' = NoMedia /\ body' = 0
    /\ UNCHANGED <<be, clock, cursor, mirror, file, reply, replyCursor, purging,
                   unlinking, ret, queue, faults>>

FetchDone ==
    /\ pc = "fetch"
    /\ queue = {} \/ fetched >= Limit
    /\ queue' = {} /\ fetched' = 0
    /\ pc' = "push"
    /\ UNCHANGED <<be, clock, disk, reply, replyCursor, purging, unlinking, ret,
                   cur, body, faults>>

(* Background videos, the event queue and the diagnostics touch none of    *)
(* these tables; then main() sleeps.                                       *)
TickDone ==
    /\ pc = "push"
    /\ pc' = "idle"
    /\ UNCHANGED <<be, clock, disk, reply, replyCursor, purging, unlinking, ret,
                   queue, fetched, cur, body, faults>>

-----------------------------------------------------------------------------
(* A crash (systemd restarts the service) or an exception caught by main() *)
(* drops the tick; what is committed or on disk stays.                     *)

Restart ==
    /\ pc' = "idle" /\ reply' = NoReply /\ replyCursor' = 0
    /\ purging' = {} /\ unlinking' = {} /\ ret' = "apply"
    /\ queue' = {} /\ fetched' = 0 /\ cur' = NoMedia /\ body' = 0

Crash ==
    /\ pc # "idle"
    /\ crashes < MaxCrashes
    /\ crashes' = crashes + 1
    /\ Restart
    /\ UNCHANGED <<be, clock, disk, shorts, powerCuts, spoiled>>

(* The file is written without fsync, the record is committed: a power cut *)
(* may leave the record and an empty file.                                 *)
PowerCut(m) ==
    /\ powerCuts < MaxPowerCuts
    /\ file[m].size = "full"
    /\ file' = [file EXCEPT ![m] = Empty]
    /\ powerCuts' = powerCuts + 1
    /\ spoiled' = spoiled \cup {m}
    /\ Restart
    /\ UNCHANGED <<be, clock, cursor, mirror, rec, crashes, shorts>>

-----------------------------------------------------------------------------
FetchStep(m) ==
    \/ SkipCached(m) \/ DownloadRefused(m) \/ DownloadNotModified(m)
    \/ DownloadNotFound(m) \/ OpenTarget(m) \/ WriteBody(m) \/ WriteShort(m)
    \/ WriteCutShort(m) \/ WriteNothing(m) \/ RecordMediaBlob(m)

Step ==
    \/ Tick \/ PullFailed \/ PullManifest \/ SetCursor \/ PurgeDone
    \/ FetchDone \/ TickDone
    \/ \E t \in Tables : ApplyTable(t)
    \/ \E m \in Media : DeleteMediaBlob(m) \/ UnlinkFile(m) \/ FetchStep(m)

Next ==
    \/ Step
    \/ \E r \in Row : BackendWrite(r) \/ BackendDelete(r)
    \/ Crash
    \/ \E m \in Media : PowerCut(m)

Spec == Init /\ [][Next]_vars

Answered(m) == DownloadNotModified(m) \/ DownloadNotFound(m) \/ OpenTarget(m)

(* The loop of main() never stops (Restart=always), and a backend that     *)
(* keeps being asked answers now and then.                                 *)
Fairness ==
    /\ WF_vars(Step)
    /\ SF_vars(PullManifest)
    /\ \A m \in Media \ Broken : SF_vars(Answered(m)) /\ SF_vars(WriteBody(m))

FairSpec == Spec /\ Fairness

-----------------------------------------------------------------------------
(* What /legacy-wall/media/<id> serves: resolve_media_file_path looks at   *)
(* the record only.                                                        *)
Served(m) == rec[m].on

(* The cursor vouches for the mirror: every backend change up to the       *)
(* stored cursor is in lw_mirror, whatever crashed in between.  This is    *)
(* what "a half-applied tick is safe" (sync_client.py) comes down to.      *)
MirrorValue(row) == IF row.live THEN row.at ELSE 0
MirrorCoversCursor ==
    \A r \in Row : be[r].at <= cursor => mirror[r] = MirrorValue(be[r])

(* Its inductive strengthening: what a manifest in flight still owes.      *)
ReplyIsSnapshot ==
    \A r \in Row :
        /\ reply[r].at # 0 => cursor < reply[r].at /\ reply[r].at <= be[r].at
        /\ replyCursor # 0 /\ be[r].at <= replyCursor =>
              IF reply[r].at # 0 THEN reply[r] = be[r]
              ELSE mirror[r] = MirrorValue(be[r])
StampsBounded ==
    /\ cursor <= clock /\ replyCursor <= clock
    /\ \A r \in Row : be[r].at <= clock
MirrorInv == StampsBounded /\ ReplyIsSnapshot /\ MirrorCoversCursor

(* A media file that is served is complete: the record is never there      *)
(* before the last byte, nor after the first byte of the next download,    *)
(* whatever crashes, unless the file was damaged without an error: its     *)
(* last body ended short unnoticed, or a power cut ate what was not synced. *)
ServedFileComplete ==
    \A m \in Media : Served(m) /\ m \notin spoiled => file[m].size = "full"

(* Its inductive strengthening: a record is never on while its file is     *)
(* being written or about to be unlinked, unless the file was spoiled.     *)
DownloadInv ==
    /\ pc = "write" => cur \in Media /\ (~rec[cur].on \/ cur \in spoiled)
    /\ pc = "record" => cur \in Media /\ (file[cur].size = "full" \/ cur \in spoiled)
    /\ pc # "purge" => unlinking = {}
    /\ \A m \in unlinking : ~rec[m].on
FileInv == DownloadInv /\ ServedFileComplete

(* No tick was cut short so far.                                           *)
Uncut == crashes = 0 /\ powerCuts = 0

(* Between two ticks nothing is served of a media row that the mirror no   *)
(* longer has: as long as no tick was cut short, the purge of a tombstone  *)
(* leaves no blob behind, whatever requests, writes and unlinks failed.    *)
NoTombstonedBlob ==
    Uncut /\ pc = "idle" =>
        \A m \in Media : Served(m) => mirror[m] # 0

(* Its inductive strengthening: outside a tick or in it, a record without  *)
(* a row is one the purge still has in hand.                               *)
RowInv ==
    /\ \A m \in Media : rec[m].on /\ mirror[m] = 0 => pc = "purge" /\ m \in purging
    /\ pc \in {"fetch", "write", "record"} \/ (pc = "purge" /\ ret = "fetch") =>
          \A m \in queue : mirror[m] # 0
    /\ pc \in {"write", "record"} => cur \in Media /\ mirror[cur] # 0
PurgeInv == Uncut => RowInv

(* A media row deleted on the backend for good is in the end not served    *)
(* any more: "the on-disk blob is also unlinked" (sync_client.py),         *)
(* "or the media row was tombstoned" (resolve_media_file_path).            *)
TombstonePurged == \A m \in Media : <>[](~be[m].live) => <>[](~Served(m))


(* What the refinement rests on: the mirror is never ahead of the backend, *)
(* nor of a reply still to be applied, and shows no row the backend has    *)
(* tombstoned with that very stamp.                                        *)
ForwardInv ==
    /\ \A r \in Row :
          /\ mirror[r] <= be[r].at
          /\ mirror[r] # 0 /\ mirror[r] = be[r].at => be[r].live
          /\ reply[r].at # 0 =>
                /\ mirror[r] <= reply[r].at
                /\ reply[r].at = be[r].at => reply[r] = be[r]
    /\ replyCursor # 0 => cursor <= replyCursor

(* The mirrored tables are a replica of the backend that never goes back:  *)
(* whatever crashes between the tables of a manifest and its cursor, and   *)
(* however often it is pulled and applied again, no row is taken back to   *)
(* an older version and no cursor to an older one.                         *)
Mirror == INSTANCE Replica WITH source <- be, copy <- mirror, vouched <- cursor
ReplicaSpec == Mirror!Spec
=============================================================================
