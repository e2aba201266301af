------------------------------ MODULE SyncTick -------------------------------
(***************************************************************************)
(* run_once and main of services/sync_client.py: one process does the      *)
(* manifest and the media (module SyncCache, here only whether the pull    *)
(* succeeded), then the videos, then the queued events.  A crash, or an    *)
(* exception main catches, ends the tick wherever it is.                   *)
(***************************************************************************)
EXTENDS EventQueue, VideoSync

VARIABLE phase    \* "sleep", "videos" or "flush"

tickVars == <<vars, videoVars, phase>>

TickTypeOK ==
    /\ TypeOK /\ VideoTypeOK
    /\ phase \in {"sleep", "videos", "flush"}
    /\ pc # "idle" => phase = "flush"

TickInit == Init /\ VideoInit /\ phase = "sleep"

(* pull_manifest and fetch_missing_media ended: on to the videos.          *)
PullSucceeds ==
    /\ phase = "sleep"
    /\ phase' = "videos" /\ vpc' = "idle"
    /\ UNCHANGED <<vars, backend, local, plan, todo, part, unlinking>>

(* The pull failed: only the events are flushed.                           *)
PullFails ==
    /\ phase = "sleep"
    /\ phase' = "flush"
    /\ UNCHANGED <<vars, videoVars>>

VideoStep ==
    /\ phase = "videos" /\ vpc # "done"
    /\ FetchVideos
    /\ UNCHANGED <<vars, phase>>

AfterVideos ==
    /\ phase = "videos" /\ vpc = "done"
    /\ phase' = "flush"
    /\ UNCHANGED <<vars, videoVars>>

FlushStep ==
    /\ phase = "flush"
    /\ Flush
    /\ phase' = IF pc' = "idle" THEN "sleep" ELSE "flush"
    /\ UNCHANGED videoVars

NothingQueued ==
    /\ phase = "flush" /\ pc = "idle" /\ pending = {}
    /\ phase' = "sleep"
    /\ UNCHANGED <<vars, videoVars>>

(* The tick ends wherever it is; what is on the disk stays.                *)
Abandon ==
    /\ phase' = "sleep"
    /\ IF pc = "idle" THEN UNCHANGED vars ELSE Crash
    /\ vpc' = "idle" /\ unlinking' = {} /\ plan' = {} /\ todo' = {} /\ part' = NoPart
    /\ UNCHANGED backend

TickDies ==
    /\ phase # "sleep"
    /\ videoFaults < MaxVideoFaults
    /\ videoFaults' = videoFaults + 1
    /\ Abandon
    /\ UNCHANGED <<row, file, spoiled, returned>>

PowerCut == Abandon /\ Spoil /\ UNCHANGED <<row, returned>>

OtherProcesses ==
    \/ QueueEvent /\ UNCHANGED <<videoVars, phase>>
    \/ ChangeVideos /\ UNCHANGED <<vars, phase>>

TickStep ==
    \/ PullSucceeds \/ PullFails \/ VideoStep \/ AfterVideos
    \/ FlushStep \/ NothingQueued

TickNext == TickStep \/ TickDies \/ PowerCut \/ OtherProcesses

TickSpec == TickInit /\ [][TickNext]_tickVars

(* The tick comes round for ever; a backend that is asked again and again  *)
(* answers now and then, the manifest, the list, each part and the POST.   *)
TickFairSpec ==
    /\ TickSpec
    /\ WF_tickVars(TickStep)
    /\ SF_tickVars(PullSucceeds)
    /\ SF_tickVars(VideoStep /\ ListVideos)
    /\ \A p \in Part : SF_tickVars(VideoStep /\ OpenFile(p))
    /\ SF_tickVars(VideoStep /\ BodyComplete)
    /\ SF_tickVars(FlushStep /\ PostAccepted)
=============================================================================
