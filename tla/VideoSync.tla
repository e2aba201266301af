------------------------------ MODULE VideoSync ------------------------------
(***************************************************************************)
(* The cached videos of the Legacy Wall: fetch_background_video of the     *)
(* sync client (services/sync_client.py), the tables video_blobs and       *)
(* rotation_video_blobs (services/local_cache.py) and the route that       *)
(* serves them (server.py).  A video has parts, one per kind (webm, mp4,   *)
(* poster); the designated wall background is the video Wall.  A part is   *)
(* downloaded in place, over the file that is being served, and recorded   *)
(* with its ETag when it is complete.                                      *)
(***************************************************************************)
EXTENDS Naturals, FiniteSets

CONSTANTS
    Part,             \* pairs of a video and a kind
    Wall,             \* the designated background; the others are the rotation
    Etags, First,     \* ETags a part may have, one per content; that of its first
    Starts,           \* what the backend lists when the box comes up, and a
                      \* bound for each part: how often it changes from then on
    MaxVideoFaults    \* bound: bodies taken short, crashes, power cuts

(* The kinds in the order of _BG_VIDEO_PARTS.                              *)
Webm == 1
Mp4 == 2
Poster == 3

ASSUME PartAssumption ==
    \A p \in Part :
        p = <<p[1], p[2]>> /\ p[2] \in Webm..Poster /\ <<p[1], Webm>> \in Part
ASSUME EtagAssumption == Etags \subseteq Nat \ {0} /\ First \in Etags
ASSUME VideoBoundAssumption ==
    /\ Starts \subseteq [listed : SUBSET Part, changes : [Part -> Nat]]
    /\ MaxVideoFaults \in Nat

VARIABLES
    offered,      \* backend: parts it lists and serves
    version,      \* backend: content of each part, told by its ETag; 0: never any
    row,          \* ETag in video_blobs / rotation_video_blobs, 0: no row
    file,         \* the file of each part: version and how much of it
    vpc,          \* where fetch_background_video stands
    plan,         \* parts in the list it works from
    todo,         \* parts it has not looked at
    part,         \* the part being downloaded, or NoPart
    unlinking,    \* files whose rows are deleted, to be unlinked
    spoiled,      \* observer: files damaged without an error the client could see
    returned,     \* observer: parts that went back to the recorded content after
                  \* their file had been opened for another
    left,         \* changes of each part still to come
    videoFaults

backend == <<offered, version, left>>
local   == <<row, file, spoiled, returned, videoFaults>>
videoVars == <<backend, local, vpc, plan, todo, part, unlinking>>

Rotation == {p[1] : p \in Part} \ {Wall}
PartsOf(v) == {p \in Part : p[1] = v}
Version == Etags \cup {0}
NoFile == [v |-> 0, size |-> "none"]
NoPart == <<Wall>>

VideoTypeOK ==
    /\ offered \subseteq Part /\ version \in [Part -> Version]
    /\ row \in [Part -> Version]
    /\ file \in [Part -> [v : Version, size : {"none", "part", "whole"}]]
    /\ vpc \in {"idle", "parts", "body", "stored", "done"}
    /\ plan \subseteq Part /\ todo \subseteq Part /\ part \in Part \cup {NoPart}
    /\ unlinking \subseteq Part /\ spoiled \subseteq Part /\ returned \subseteq Part
    /\ left \in [Part -> Nat] /\ videoFaults \in 0..MaxVideoFaults

(* The box starts with nothing, a backend may have videos already.         *)
VideoInit ==
    /\ \E s \in Starts : offered = s.listed /\ left = s.changes
    /\ version = [p \in Part |-> IF p \in offered THEN First ELSE 0]
    /\ row = [p \in Part |-> 0] /\ file = [p \in Part |-> NoFile]
    /\ spoiled = {} /\ returned = {} /\ videoFaults = 0
    /\ vpc = "idle" /\ plan = {} /\ todo = {} /\ unlinking = {}
    /\ part = NoPart

-----------------------------------------------------------------------------
(* The backend: a part is published, with new content or with content it   *)
(* had before (the designated wall switched to another video and back, at  *)
(* one URL), or no longer selected.                                        *)

Publish(p, etag) ==
    /\ left[p] > 0
    /\ p \notin offered \/ etag # version[p]
    /\ left' = [left EXCEPT ![p] = @ - 1]
    /\ offered' = offered \cup {p}
    /\ version' = [version EXCEPT ![p] = etag]
    /\ returned' = IF etag = version[p] THEN returned
                   ELSE IF etag = row[p] /\ file[p].v # etag THEN returned \cup {p}
                   ELSE returned \ {p}
    /\ UNCHANGED <<row, file, spoiled, videoFaults, vpc, plan, todo, part, unlinking>>

Withdraw(p) ==
    /\ left[p] > 0 /\ p \in offered
    /\ left' = [left EXCEPT ![p] = @ - 1]
    /\ offered' = offered \ {p}
    /\ UNCHANGED <<version, local, vpc, plan, todo, part, unlinking>>

-----------------------------------------------------------------------------
(* fetch_background_video: the list, then the parts of the wall, then those *)
(* of the listed rotation videos in the list's order, then the rest.       *)

ListVideos ==
    /\ vpc = "idle"
    /\ plan' = offered /\ todo' = Part
    /\ vpc' = "parts"
    /\ UNCHANGED <<backend, local, part, unlinking>>

(* No slug, no connection, an error status, not JSON: no video is touched. *)
ListFails ==
    /\ vpc = "idle"
    /\ vpc' = "done"
    /\ UNCHANGED <<backend, local, plan, todo, part, unlinking>>

(* An entry of the rotation without its video_url, the webm, is skipped,   *)
(* whatever else it lists.                                                 *)
Kept(v) == <<v, Webm>> \in plan

Upcoming ==
    IF todo \cap PartsOf(Wall) # {}
    THEN todo \cap PartsOf(Wall)
    ELSE {p \in todo : Kept(p[1])}

FirstOf(P) == {p \in P : \A q \in P : q[1] = p[1] => p[2] <= q[2]}

Turn(p) ==
    /\ vpc = "parts" /\ unlinking = {}
    /\ p \in FirstOf(Upcoming)
    /\ todo' = todo \ {p}

(* delete_video_blob, delete_rotation_video_blob; a missing row is no error *)
(* and leaves the file alone.                                              *)
DeleteRows(P) ==
    /\ row' = [p \in Part |-> IF p \in P THEN 0 ELSE row[p]]
    /\ unlinking' = {p \in P : row[p] # 0}

(* Not in the list (no row of it, or not encoded yet), or 404 by now:      *)
(* _purge_video_part, _purge_background_video, _purge_rotation_part.       *)
PurgePart(p) ==
    /\ Turn(p)
    /\ p \notin plan \/ p \notin offered
    /\ DeleteRows({p})
    /\ UNCHANGED <<backend, file, spoiled, returned, videoFaults, vpc, plan, part>>

UnlinkFile ==
    /\ \E p \in unlinking :
          /\ file' = [file EXCEPT ![p] = NoFile]
          /\ unlinking' = unlinking \ {p}
    /\ UNCHANGED <<backend, row, spoiled, returned, videoFaults, vpc, plan, todo, part>>

(* The GET fails, or the answer is an error other than 404.                *)
GetFails(p) ==
    /\ Turn(p) /\ p \in plan
    /\ UNCHANGED <<backend, local, vpc, plan, part, unlinking>>

Fresh(p) == row[p] # 0 /\ row[p] = version[p]

(* If-None-Match carries the recorded ETag: 304, the file is taken as good. *)
NotModified(p) ==
    /\ Turn(p) /\ p \in plan \cap offered
    /\ Fresh(p)
    /\ UNCHANGED <<backend, local, vpc, plan, part, unlinking>>

(* 200: open(target, "wb") truncates the file that is being served.        *)
OpenFile(p) ==
    /\ Turn(p) /\ p \in plan \cap offered
    /\ ~Fresh(p)
    /\ part' = p
    /\ file' = [file EXCEPT ![p] = [v |-> version[p], size |-> "part"]]
    /\ vpc' = "body"
    /\ UNCHANGED <<backend, row, spoiled, returned, videoFaults, plan, unlinking>>

BodyComplete ==
    /\ vpc = "body"
    /\ file' = [file EXCEPT ![part].size = "whole"]
    /\ spoiled' = spoiled \ {part}
    /\ vpc' = "stored"
    /\ UNCHANGED <<backend, row, returned, videoFaults, plan, todo, part, unlinking>>

(* The connection closes early and the HTTP library does not compare the   *)
(* body with Content-Length: taken for complete.                           *)
BodyShort ==
    /\ vpc = "body"
    /\ videoFaults < MaxVideoFaults
    /\ videoFaults' = videoFaults + 1
    /\ spoiled' = spoiled \cup {part}
    /\ vpc' = "stored"
    /\ UNCHANGED <<backend, row, file, returned, plan, todo, part, unlinking>>

AfterCut_Store == "stored"

(* An exception while the body arrives is an OSError, so the part counts   *)
(* as errored and what was written stays in the file.                      *)
AfterCut == "parts"

BodyBreaks ==
    /\ vpc = "body"
    /\ vpc' = AfterCut
    /\ part' = IF AfterCut = "parts" THEN NoPart ELSE part
    /\ UNCHANGED <<backend, local, plan, todo, unlinking>>

(* A body of no bytes: the file is removed, the row is not.                *)
BodyEmpty ==
    /\ vpc = "body"
    /\ file' = [file EXCEPT ![part] = NoFile]
    /\ vpc' = "parts" /\ part' = NoPart
    /\ UNCHANGED <<backend, row, spoiled, returned, videoFaults, plan, todo, unlinking>>

(* record_video_blob, record_rotation_video_blob.                          *)
Record ==
    /\ vpc = "stored"
    /\ row' = [row EXCEPT ![part] = file[part].v]
    /\ returned' = returned \ {part}
    /\ vpc' = "parts" /\ part' = NoPart
    /\ UNCHANGED <<backend, file, spoiled, videoFaults, plan, todo, unlinking>>

Unselected_None == {}

(* Rotation videos with a row that are not in the list any more.           *)
Unselected == {v \in Rotation : ~Kept(v) /\ \E p \in PartsOf(v) : row[p] # 0}

(* _purge_rotation_videos_except: all rows of a video, then its files.     *)
PurgeVideo ==
    /\ vpc = "parts" /\ unlinking = {} /\ Upcoming = {}
    /\ \E v \in Unselected : DeleteRows(PartsOf(v))
    /\ UNCHANGED <<backend, file, spoiled, returned, videoFaults, vpc, plan, todo, part>>

VideosDone ==
    /\ vpc = "parts" /\ unlinking = {} /\ Upcoming = {}
    /\ Unselected = {}
    /\ vpc' = "done" /\ plan' = {} /\ todo' = {}
    /\ UNCHANGED <<backend, local, part, unlinking>>

-----------------------------------------------------------------------------
(* The route legacy_wall_background_video answers from the disk.           *)
Served(p) == row[p] # 0 /\ file[p].size # "none"

(* A file written without fsync is empty after a power cut, its row is not. *)
Spoil ==
    /\ videoFaults < MaxVideoFaults
    /\ videoFaults' = videoFaults + 1
    /\ \E p \in Part :
          /\ row[p] # 0 /\ file[p].size = "whole"
          /\ file' = [file EXCEPT ![p].size = "part"]
          /\ spoiled' = spoiled \cup {p}

FetchVideos ==
    \/ ListVideos \/ ListFails
    \/ \E p \in Part : PurgePart(p) \/ GetFails(p) \/ NotModified(p) \/ OpenFile(p)
    \/ UnlinkFile \/ BodyComplete \/ BodyShort \/ BodyBreaks \/ BodyEmpty
    \/ Record \/ PurgeVideo \/ VideosDone

ChangeVideos ==
    \E p \in Part : Withdraw(p) \/ \E etag \in Etags : Publish(p, etag)

-----------------------------------------------------------------------------
(* A part that the next request would find unchanged (304) is whole on the *)
(* disk: whatever a broken download, a purge or a crash left of a file, its *)
(* row holds another ETag or is gone, so that the part is fetched again.   *)
(* Beyond the client are files damaged without an error, and a backend     *)
(* that went back to the recorded ETag after the file was opened for       *)
(* another.                                                                *)
DamageIsRefetched ==
    \A p \in Part : Fresh(p) /\ p \notin spoiled \cup returned =>
        file[p] = [v |-> version[p], size |-> "whole"]

(* What the backend lists and the client looks at.                         *)
Listed == {p \in offered : p[1] = Wall \/ <<p[1], Webm>> \in offered}

(* When the backend stops changing, its videos are all cached and served,  *)
(* and what it has withdrawn is not.                                       *)
Mirrored(p) ==
    IF p \in Listed
    THEN Fresh(p) /\ (Served(p) \/ p \in spoiled \cup returned)
    ELSE row[p] = 0
VideosSettle == \A p \in Part : <>[]Mirrored(p)
=============================================================================
