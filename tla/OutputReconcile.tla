--------------------------- MODULE OutputReconcile ---------------------------
(***************************************************************************)
(* launch-kiosk-independent: one Chromium per output, kept by one loop on  *)
(* what display-content.json says, off cast pages while an incident is     *)
(* active, and off error pages.  The loop is serial: while it waits for a  *)
(* window of one output the others wait for the loop.  It finds a Chromium *)
(* by its command line: launch-kiosk-chromium, which probes the server and *)
(* the cloud before it becomes one, is not found, and a second one may be  *)
(* started beside it.                                                      *)
(***************************************************************************)
EXTENDS Naturals, Sequences, FiniteSets

CONSTANTS
    Order,      \* the outputs, in the order sway lists them
    Page,       \* what an output can be told to show
    Cast,       \* the pages of a foreign origin, mode "url"
    Wall,       \* the Legacy Wall
    Threshold,  \* WEDGED_THRESHOLD
    MaxChanges, MaxFaults   \* bounds

Output == {Order[i] : i \in 1..Len(Order)}

ASSUME PageAssumption == Cast \subseteq Page /\ Wall \in Page \ Cast
ASSUME OrderAssumption == Len(Order) \in Nat \ {0} /\ Threshold \in Nat \ {0}
ASSUME NameAssumption == Output \cap {"overlay", "unmapped", "closed"} = {}

(* What runs, or will, on the profile of an output: the launcher that was  *)
(* started last and one it was started beside, which is overtaken.  Bound: *)
(* of more than two at a time the third waits.                             *)
Copy == Output \X {"latest", "overtaken"}
Latest(o) == <<o, "latest">>
Overtaken(o) == <<o, "overtaken">>
Copies(o) == {Latest(o), Overtaken(o)}

Overlay == <<"overlay", "latest">>

ASSUME BoundAssumption == MaxChanges \in Nat /\ MaxFaults \in Nat

NoPage == "none"

VARIABLES
    content,    \* display-content.json: the page of each output
    incident,   \* the active incident of the incident poller
    chrome,     \* each copy: its state and its page
    spec,       \* output-spec-<output>, or NoPage
    win,        \* where the window of each copy is, or "unmapped"
    overlay,    \* where the admin overlay's window is, or "closed"
    wedged,     \* does the page of a copy read as an error?
    streak,     \* WEDGED_STREAK
    pc, turn,   \* the loop: what it does, for which output of Order
    target,     \* the page it has resolved for that output
    before,     \* the windows it saw before the launch
    late,       \* observer: copies whose window nobody moved when it came, or that the
                \* loop could not list before a launch
    quick,      \* observer: this pass began with the incident and no cast being
                \* launched, and since then no read of it has failed and neither
                \* it nor the content has changed
    changes, faults   \* bounds

vars == <<content, incident, chrome, spec, win, overlay, wedged, streak,
          pc, turn, target, before, late, quick, changes, faults>>

Gone == [is |-> "gone", page |-> NoPage]

TypeOK ==
    /\ content \in [Output -> Page] /\ incident \in BOOLEAN
    /\ chrome \in [Copy -> {Gone} \cup [is : {"probing", "up", "dying"}, page : Page]]
    /\ spec \in [Output -> Page \cup {NoPage}]
    /\ win \in [Copy -> Output \cup {"unmapped"}]
    /\ overlay \in Output \cup {"closed"}
    /\ wedged \in [Copy -> BOOLEAN] /\ streak \in [Output -> 0..Threshold]
    /\ pc \in {"sleep", "output", "launch", "wait"} /\ turn \in 1..Len(Order)
    /\ target \in Page \cup {NoPage} /\ (pc = "launch" => target \in Page)
    /\ before \subseteq Copy \cup {Overlay}
    /\ late \subseteq Copy /\ quick \in BOOLEAN
    /\ changes \in 0..MaxChanges /\ faults \in 0..MaxFaults
    /\ \A c \in Copy : win[c] # "unmapped" => chrome[c].is \in {"up", "dying"}

(* The session starts: no Chromium, the spec files of an earlier session.  *)
Init ==
    /\ content \in [Output -> Page] /\ incident = FALSE
    /\ chrome = [c \in Copy |-> Gone]
    /\ spec \in [Output -> {NoPage, Wall}]
    /\ win = [c \in Copy |-> "unmapped"] /\ overlay = "closed"
    /\ wedged = [c \in Copy |-> FALSE] /\ streak = [o \in Output |-> 0]
    /\ pc = "sleep" /\ turn = 1 /\ target = NoPage /\ before = {}
    /\ late = {} /\ quick = FALSE
    /\ changes = 0 /\ faults = 0

environment == <<content, incident, overlay, changes, faults>>

-----------------------------------------------------------------------------
Here == Order[turn]

(* pgrep -f and pkill -f find a copy when it has become a Chromium.        *)
Alive(o) == \E c \in Copies(o) : chrome[c].is \in {"up", "dying"}

Mapped == {c \in Copy : win[c] # "unmapped"} \cup {w \in {Overlay} : overlay # "closed"}

(* _incident_active: an error or two seconds without an answer read as no  *)
(* incident.                                                               *)
IncidentActive(active) ==
    \/ active = incident /\ UNCHANGED faults
    \/ incident /\ ~active /\ faults < MaxFaults /\ faults' = faults + 1

(* _resolve_spec *)
Resolved_NoIncident(o, active) == content[o]

Resolved(o, active) == IF content[o] \in Cast /\ active THEN Wall ELSE content[o]

Dying(os) ==
    [c \in Copy |-> IF c[1] \in os /\ chrome[c].is = "up" THEN [chrome[c] EXCEPT !.is = "dying"]
                    ELSE chrome[c]]

(* _preempt_casts_on_incident: it asks for the content, not for the page.  *)
Preempted_None(active) == {}

Preempted(active) == {o \in Output : active /\ content[o] \in Cast /\ Alive(o)}

Launching(pages) == \E c \in Copy : chrome[c].is = "probing" /\ chrome[c].page \in pages

StartPass ==
    /\ pc = "sleep"
    /\ \E active \in BOOLEAN :
        /\ IncidentActive(active)
        /\ chrome' = Dying(Preempted(active))
        /\ spec' = [o \in Output |-> IF o \in Preempted(active) THEN NoPage ELSE spec[o]]
        /\ quick' = (active /\ ~Launching(Cast))
    /\ pc' = "output" /\ turn' = 1
    /\ UNCHANGED <<content, incident, overlay, changes, win, wedged, streak, target, before, late>>

NextOutput ==
    /\ IF turn = Len(Order) THEN pc' = "sleep" /\ turn' = 1 ELSE pc' = "output" /\ turn' = turn + 1
    /\ before' = {} /\ target' = NoPage

Drifted_Never(active) == FALSE

Drifted(active) == Alive(Here) /\ spec[Here] # Resolved(Here, active)

(* The title of a window on this output, its own or another that is there. *)
OnHere == {c \in Copy : win[c] = Here} \cup {w \in {Overlay} : overlay = Here}

Reads(w) == w \in Copy /\ wedged[w]

Titles == IF OnHere = {} THEN {FALSE} ELSE {Reads(w) : w \in OnHere}

Streak == streak[Here] + 1

Counted(error) ==
    [streak EXCEPT ![Here] = IF ~Alive(Here) THEN @
                             ELSE IF error /\ Streak < Threshold THEN Streak ELSE 0]

(* A drifted Chromium is killed and waited for; one that reads as an error *)
(* page for Threshold passes is killed.                                    *)
Check ==
    /\ pc = "output"
    /\ \E active \in BOOLEAN, error \in Titles :
        /\ IncidentActive(active)
        /\ chrome' = IF Drifted(active) \/ (error /\ Streak >= Threshold) THEN Dying({Here}) ELSE chrome
        /\ streak' \in {Counted(error)} \cup (IF Drifted(active) THEN {streak} ELSE {})
        /\ target' = Resolved(Here, active)
        /\ quick' = (quick /\ active)
    /\ pc' = "launch"
    /\ UNCHANGED <<content, incident, overlay, changes, spec, win, wedged, turn, before, late>>

(* Still there, or still dying: the next pass sees to it.                  *)
Leave ==
    /\ pc = "launch" /\ Alive(Here)
    /\ NextOutput
    /\ UNCHANGED <<environment, chrome, spec, win, wedged, streak, late, quick>>

SeenBefore_None == {}

SeenBefore == Mapped

Launch ==
    /\ pc = "launch" /\ ~Alive(Here)
    /\ chrome[Latest(Here)] = Gone \/ chrome[Overtaken(Here)] = Gone
    /\ spec' = [spec EXCEPT ![Here] = target]
    /\ chrome' = [chrome EXCEPT
           ![Latest(Here)] = [is |-> "probing", page |-> target],
           ![Overtaken(Here)] = IF chrome[Latest(Here)] = Gone THEN @ ELSE chrome[Latest(Here)]]
    /\ pc' = "wait"
    /\ \/ before' = SeenBefore /\ UNCHANGED <<late, faults>>
       \/ \* swaymsg fails: every window will look new
          /\ faults < MaxFaults /\ faults' = faults + 1
          /\ before' = {} /\ late' = late \cup (Mapped \cap Copy)
    /\ UNCHANGED <<content, incident, overlay, changes, win, wedged, streak, turn, target, quick>>

New == Mapped \ before

(* A new window is taken for the one that was launched and moved here.     *)
PlaceWindow ==
    /\ pc = "wait"
    /\ \E w \in New :
        /\ IF w = Overlay THEN overlay' = Here /\ UNCHANGED win
           ELSE win' = [win EXCEPT ![w] = Here] /\ UNCHANGED overlay
        /\ late' = late \cup ((New \cap Copy) \ {w})
    /\ NextOutput
    /\ UNCHANGED <<content, incident, chrome, spec, wedged, streak, quick, changes, faults>>

(* Thirty seconds without one: the launched one has gone, or it is slow.   *)
WaitEnds ==
    /\ pc = "wait" /\ New = {}
    /\ NextOutput
    /\ \/ chrome[Latest(Here)] = Gone /\ UNCHANGED faults
       \/ chrome[Latest(Here)] # Gone /\ faults < MaxFaults /\ faults' = faults + 1
    /\ UNCHANGED <<content, incident, overlay, changes, chrome, spec, win, wedged, streak, late, quick>>

Loop == StartPass \/ Check \/ Leave \/ Launch \/ PlaceWindow \/ WaitEnds

-----------------------------------------------------------------------------
(* launch-kiosk-chromium has probed and becomes the Chromium.              *)
Exec(c) ==
    /\ chrome[c].is = "probing"
    /\ chrome' = [chrome EXCEPT ![c].is = "up"]
    /\ UNCHANGED <<environment, spec, win, wedged, streak, pc, turn, target, before, late, quick>>

(* A window is mapped on the output that has the focus.                    *)
Paint(c) ==
    /\ chrome[c].is = "up" /\ win[c] = "unmapped"
    /\ \E at \in Output : win' = [win EXCEPT ![c] = at]
    /\ late' = IF pc = "wait" /\ Here = c[1] THEN late ELSE late \cup {c}
    /\ UNCHANGED <<environment, chrome, spec, wedged, streak, pc, turn, target, before, quick>>

Exit(c) ==
    /\ chrome' = [chrome EXCEPT ![c] = Gone]
    /\ win' = [win EXCEPT ![c] = "unmapped"]
    /\ wedged' = [wedged EXCEPT ![c] = FALSE]
    /\ before' = before \ {c} /\ late' = late \ {c}
    /\ UNCHANGED <<content, incident, overlay, spec, streak, pc, turn, target, quick, changes>>

Dies(c) == chrome[c].is = "dying" /\ Exit(c) /\ UNCHANGED faults

Crash(c) ==
    /\ chrome[c].is \in {"probing", "up"} /\ faults < MaxFaults /\ faults' = faults + 1
    /\ Exit(c)

(* A page becomes an error page (the backend is being deployed).           *)
Wedge(c) ==
    /\ chrome[c].is = "up" /\ win[c] # "unmapped" /\ ~wedged[c]
    /\ faults < MaxFaults /\ faults' = faults + 1
    /\ wedged' = [wedged EXCEPT ![c] = TRUE]
    /\ UNCHANGED <<content, incident, chrome, spec, win, overlay, streak,
                   pc, turn, target, before, late, quick, changes>>

(* launch-admin-overlay, and the closing of its window.                    *)
OpenOverlay ==
    /\ overlay = "closed" /\ faults < MaxFaults /\ faults' = faults + 1
    /\ \E at \in Output : overlay' = at
    /\ UNCHANGED <<content, incident, chrome, spec, win, wedged, streak,
                   pc, turn, target, before, late, quick, changes>>

CloseOverlay ==
    /\ overlay # "closed"
    /\ overlay' = "closed" /\ before' = before \ {Overlay}
    /\ UNCHANGED <<content, incident, chrome, spec, win, wedged, streak,
                   pc, turn, target, late, quick, changes, faults>>

Proceeds(c) == Exec(c) \/ Paint(c) \/ Dies(c)

Chromium(c) == Proceeds(c) \/ Crash(c) \/ Wedge(c)

Environment ==
    \/ \E c \in Copy : Chromium(c)
    \/ OpenOverlay \/ CloseOverlay

(* The heartbeat rewrites the content (module Heartbeat), an incident is   *)
(* declared or cleared (module IncidentPoller).                            *)
SetContent ==
    /\ changes < MaxChanges /\ changes' = changes + 1
    /\ \E o \in Output : \E p \in Page \ {content[o]} : content' = [content EXCEPT ![o] = p]
    /\ quick' = FALSE
    /\ UNCHANGED <<incident, chrome, spec, win, overlay, wedged, streak,
                   pc, turn, target, before, late, faults>>

FlipIncident ==
    /\ changes < MaxChanges /\ changes' = changes + 1
    /\ incident' = ~incident /\ quick' = FALSE
    /\ UNCHANGED <<content, chrome, spec, win, overlay, wedged, streak,
                   pc, turn, target, before, late, faults>>

Next == Loop \/ Environment \/ SetContent \/ FlipIncident

Spec == Init /\ [][Next]_vars

(* The loop goes on for ever; a launcher ends its probing, a killed        *)
(* Chromium dies, a started one paints.                                    *)
FairSpec == Spec /\ WF_vars(Loop) /\ \A c \in Copy : WF_vars(Proceeds(c))

-----------------------------------------------------------------------------
Shows(c, pages) == chrome[c].is = "up" /\ chrome[c].page \in pages

(* "so no cast screen keeps a takeover-less page waiting behind another    *)
(* output's ~40s relaunch" (lines 213-215): in a pass that began with the  *)
(* incident no output assigned a cast shows it while another is launched;  *)
(* a cast assigned again within the pass waits for the next, and so does   *)
(* one whose launcher was still probing when the pass began; a read of the *)
(* incident that fails within the pass relaunches one.                     *)
NoCastBehindLaunch ==
    pc = "wait" /\ quick => \A c \in Copy : Shows(c, Cast) => content[c[1]] \notin Cast

(* While an incident lasts and is read, no foreign page stays on a screen, *)
(* whatever was assigned, launched, relaunched or misread when it began,   *)
(* but for a launcher that was overtaken when the cast was cleared: only   *)
(* the specification of the later one is compared.                         *)
CastsYield ==
    <>[]incident =>
        <>[](\A c \in Copy : Shows(c, Cast) => c = Overtaken(c[1]) /\ content[c[1]] \notin Cast)

(* After the all-clear every output comes back to what it is assigned, and *)
(* off an error page, whatever crashed, was killed, misread or timed out   *)
(* meanwhile; not while a window nobody moved lets the error page of one   *)
(* output be read for another, nor on an output under the admin overlay,   *)
(* nor where an overtaken launcher has become a second Chromium.           *)
Converges ==
    <>[]~incident =>
        <>[](late # {} \/ \A o \in Output :
                 \/ Shows(Overtaken(o), Page)
                 \/ /\ chrome[Latest(o)] = [is |-> "up", page |-> content[o]]
                    /\ wedged[Latest(o)] => overlay = o)

(* "DETERMINISTIC PLACEMENT" (lines 6-13): a window that was moved and is  *)
(* not being waited for is on its own output, whatever came before it.     *)
PlacedRight ==
    \A c \in Copy \ late :
        win[c] # "unmapped" /\ ~(pc = "wait" /\ Here = c[1]) => win[c] = c[1]
=============================================================================
