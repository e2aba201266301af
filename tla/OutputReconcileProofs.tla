------------------------- MODULE OutputReconcileProofs -------------------------
(***************************************************************************)
(* Theorems about OutputReconcile, for every list of outputs, set of pages *)
(* and threshold.                                                          *)
(***************************************************************************)
EXTENDS OutputReconcile, TLAPS

(* While the loop waits, the windows of its own output are new ones, and   *)
(* another window that is new to it belongs to no one the loop has moved.  *)
WaitInv ==
    pc = "wait" =>
        /\ \A c \in Copy : c[1] = Here => c \notin before
        /\ \A c \in Copy :
               win[c] # "unmapped" /\ c \notin before /\ c[1] # Here => c \in late

Yielding(c) ==
    content[c[1]] \in Cast /\ chrome[c].is \in {"probing", "up"} => chrome[c].page \notin Cast

(* In a quick pass the casts of before are dying, none is being launched,  *)
(* and what the loop has resolved is what it would resolve now.            *)
PassInv ==
    quick /\ pc # "sleep" =>
        /\ incident
        /\ \A c \in Copy : Yielding(c)
        /\ pc = "launch" => target = Resolved(Here, TRUE)

IInv == TypeOK /\ PlacedRight /\ WaitInv /\ PassInv

Chromes == {Gone} \cup [is : {"probing", "up", "dying"}, page : Page]

-----------------------------------------------------------------------------
(* Facts about the helpers                                                 *)

LEMMA HereIsOutput == ASSUME TypeOK PROVE Here \in Output
BY DEF TypeOK, Here, Output

LEMMA CopyFacts ==
  /\ Overlay \notin Copy
  /\ \A c \in Copy : c[1] \in Output /\ c \in Copies(c[1])
  /\ \A o \in Output : Latest(o) \in Copy /\ Overtaken(o) \in Copy
  /\ \A o \in Output : Latest(o)[1] = o /\ Overtaken(o)[1] = o /\ Latest(o) # Overtaken(o)
<1>1. \A c \in Copy : c[1] \in Output /\ c[2] \in {"latest", "overtaken"} /\ c = <<c[1], c[2]>>
  BY DEF Copy
<1>2. Overlay[1] = "overlay" /\ "overlay" \notin Output
  BY NameAssumption DEF Overlay
<1>3. Overlay \notin Copy
  BY <1>1, <1>2
<1>4. \A c \in Copy : c \in Copies(c[1])
  BY <1>1 DEF Copies, Latest, Overtaken
<1> QED
  BY <1>1, <1>3, <1>4 DEF Copy, Latest, Overtaken

LEMMA ActiveFacts ==
  ASSUME TypeOK, NEW active \in BOOLEAN, IncidentActive(active)
  PROVE  /\ active => incident
         /\ faults' \in 0..MaxFaults
<1>1. active => incident
  BY DEF IncidentActive, TypeOK
<1>2. CASE faults' = faults
  BY <1>1, <1>2 DEF TypeOK
<1>3. CASE faults < MaxFaults /\ faults' = faults + 1
  BY <1>1, <1>3, BoundAssumption DEF TypeOK
<1> QED
  BY <1>2, <1>3 DEF IncidentActive

LEMMA FaultType == ASSUME TypeOK, faults < MaxFaults, faults' = faults + 1 PROVE faults' \in 0..MaxFaults
BY BoundAssumption DEF TypeOK

LEMMA ResolvedType ==
  ASSUME TypeOK, NEW o \in Output, NEW active PROVE Resolved(o, active) \in Page
BY PageAssumption DEF TypeOK, Resolved

LEMMA DyingType ==
  ASSUME TypeOK, NEW os
  PROVE  /\ Dying(os) \in [Copy -> Chromes]
         /\ \A c \in Copy : chrome[c].is \in {"up", "dying"} => Dying(os)[c].is \in {"up", "dying"}
         /\ \A c \in Copy : Dying(os)[c].is \in {"probing", "up"} => Dying(os)[c] = chrome[c]
         /\ \A c \in Copy : Dying(os)[c].is = "up" => c[1] \notin os
<1>1. ASSUME NEW c \in Copy
      PROVE  /\ Dying(os)[c] \in Chromes
             /\ chrome[c].is \in {"up", "dying"} => Dying(os)[c].is \in {"up", "dying"}
             /\ Dying(os)[c].is \in {"probing", "up"} => Dying(os)[c] = chrome[c]
             /\ Dying(os)[c].is = "up" => c[1] \notin os
  <2>1. chrome[c] \in Chromes
    BY DEF TypeOK, Chromes
  <2>2. CASE c[1] \in os /\ chrome[c].is = "up"
    <3>1. chrome[c] \in [is : {"probing", "up", "dying"}, page : Page]
      BY <2>1, <2>2 DEF Gone, Chromes
    <3>2. Dying(os)[c] = [chrome[c] EXCEPT !.is = "dying"]
      BY <2>2 DEF Dying
    <3>3. Dying(os)[c] = [is |-> "dying", page |-> chrome[c].page]
      BY <3>1, <3>2
    <3>4. chrome[c].page \in Page
      BY <3>1
    <3> QED
      BY <3>3, <3>4 DEF Chromes
  <2>3. CASE ~(c[1] \in os /\ chrome[c].is = "up")
    <3>1. Dying(os)[c] = chrome[c]
      BY <2>3 DEF Dying
    <3> QED
      BY <2>1, <2>3, <3>1
  <2> QED
    BY <2>2, <2>3
<1>2. Dying(os) = [c \in Copy |-> Dying(os)[c]]
  BY DEF Dying
<1> QED
  BY <1>1, <1>2

LEMMA CountedType ==
  ASSUME TypeOK, NEW error \in BOOLEAN
  PROVE  Counted(error) \in [Output -> 0..Threshold]
BY HereIsOutput, OrderAssumption DEF TypeOK, Counted, Streak

LEMMA NextOutputType ==
  ASSUME TypeOK, NextOutput
  PROVE  /\ pc' \in {"sleep", "output"} /\ turn' \in 1..Len(Order)
         /\ before' = {} /\ target' \in Page \cup {NoPage}
BY OrderAssumption DEF TypeOK, NextOutput

LEMMA MappedNames == Mapped \subseteq Copy \cup {Overlay}
BY DEF Mapped

-----------------------------------------------------------------------------
(* Type correctness                                                        *)

LEMMA InitType == Init => TypeOK
<1> SUFFICES ASSUME Init PROVE TypeOK
  OBVIOUS
<1>1. spec \in [Output -> Page \cup {NoPage}]
  BY PageAssumption DEF Init
<1>2. /\ chrome \in [Copy -> {Gone} \cup [is : {"probing", "up", "dying"}, page : Page]]
      /\ win \in [Copy -> Output \cup {"unmapped"}]
  BY DEF Init
<1>3. wedged \in [Copy -> BOOLEAN]
  BY DEF Init
<1>4. streak \in [Output -> 0..Threshold]
  BY OrderAssumption DEF Init
<1>5. changes \in 0..MaxChanges /\ faults \in 0..MaxFaults /\ turn \in 1..Len(Order)
  BY BoundAssumption, OrderAssumption DEF Init
<1> QED
  BY <1>1, <1>2, <1>3, <1>4, <1>5 DEF Init, TypeOK

LEMMA StartPassType == ASSUME TypeOK, StartPass PROVE TypeOK'
<1>1. PICK active \in BOOLEAN :
          /\ IncidentActive(active)
          /\ chrome' = Dying(Preempted(active))
          /\ spec' = [o \in Output |-> IF o \in Preempted(active) THEN NoPage ELSE spec[o]]
          /\ quick' = (active /\ ~Launching(Cast))
  BY DEF StartPass
<1>2. spec' \in [Output -> Page \cup {NoPage}]
  BY <1>1 DEF TypeOK
<1>3. turn' \in 1..Len(Order)
  BY OrderAssumption DEF StartPass
<1>4. quick' \in BOOLEAN
  BY <1>1
<1>5. faults' \in 0..MaxFaults
  BY <1>1, ActiveFacts
<1>6. /\ chrome' \in [Copy -> {Gone} \cup [is : {"probing", "up", "dying"}, page : Page]]
      /\ \A c \in Copy : chrome[c].is \in {"up", "dying"} => chrome'[c].is \in {"up", "dying"}
  BY <1>1, DyingType DEF Chromes
<1> HIDE DEF Gone
<1> QED
  BY <1>2, <1>3, <1>4, <1>5, <1>6 DEF TypeOK, StartPass

LEMMA CheckType == ASSUME TypeOK, Check PROVE TypeOK'
<1>1. PICK active \in BOOLEAN, error \in Titles :
          /\ IncidentActive(active)
          /\ chrome' = IF Drifted(active) \/ (error /\ Streak >= Threshold) THEN Dying({Here}) ELSE chrome
          /\ streak' \in {Counted(error)} \cup (IF Drifted(active) THEN {streak} ELSE {})
          /\ target' = Resolved(Here, active)
          /\ quick' = (quick /\ active)
  BY DEF Check
<1>2. error \in BOOLEAN
  BY <1>1 DEF Titles, Reads, TypeOK
<1>3. streak' \in [Output -> 0..Threshold]
  BY <1>1, <1>2, CountedType DEF TypeOK
<1>4. target' \in Page
  BY <1>1, ResolvedType, HereIsOutput
<1>5. chrome' = chrome \/ chrome' = Dying({Here})
  BY <1>1
<1>6. /\ chrome' \in [Copy -> {Gone} \cup [is : {"probing", "up", "dying"}, page : Page]]
      /\ \A c \in Copy : chrome[c].is \in {"up", "dying"} => chrome'[c].is \in {"up", "dying"}
  BY <1>5, DyingType DEF TypeOK, Chromes
<1>7. faults' \in 0..MaxFaults
  BY <1>1, ActiveFacts
<1>8. quick' \in BOOLEAN
  BY <1>1
<1> HIDE DEF Gone
<1> QED
  BY <1>3, <1>4, <1>6, <1>7, <1>8 DEF TypeOK, Check

LEMMA LaunchType == ASSUME TypeOK, Launch PROVE TypeOK'
<1>1. target \in Page
  BY DEF TypeOK, Launch
<1>2. Latest(Here) \in Copy /\ Overtaken(Here) \in Copy
  BY HereIsOutput, CopyFacts
<1>3. chrome' \in [Copy -> {Gone} \cup [is : {"probing", "up", "dying"}, page : Page]]
  <2>1. chrome[Latest(Here)] \in Chromes /\ chrome[Overtaken(Here)] \in Chromes
    BY <1>2 DEF TypeOK, Chromes
  <2>2. [is |-> "probing", page |-> target] \in Chromes
    BY <1>1 DEF Chromes
  <2>3. chrome \in [Copy -> Chromes]
    BY DEF TypeOK, Chromes
  <2>4. chrome' \in [Copy -> Chromes]
    BY <2>1, <2>2, <2>3 DEF Launch
  <2> QED
    BY <2>4 DEF Chromes
<1>4. \A c \in Copies(Here) : win[c] = "unmapped"
  BY <1>2 DEF TypeOK, Launch, Alive, Copies
<1>5. \A c \in Copy : c \notin Copies(Here) => chrome'[c] = chrome[c]
  BY <1>2 DEF TypeOK, Launch, Copies
<1>6. \A c \in Copy : win[c] # "unmapped" => chrome'[c].is \in {"up", "dying"}
  BY <1>4, <1>5 DEF TypeOK
<1>7. before' \subseteq Copy \cup {Overlay} /\ late' \subseteq Copy
  BY MappedNames DEF TypeOK, Launch, SeenBefore
<1>8. faults' \in 0..MaxFaults
  BY FaultType DEF TypeOK, Launch
<1>9. spec' \in [Output -> Page \cup {NoPage}]
  BY <1>1 DEF TypeOK, Launch
<1> HIDE DEF Gone
<1> QED
  BY <1>3, <1>6, <1>7, <1>8, <1>9 DEF TypeOK, Launch

LEMMA PlaceWindowType == ASSUME TypeOK, PlaceWindow PROVE TypeOK'
<1>1. PICK w \in New :
          /\ IF w = Overlay THEN overlay' = Here /\ UNCHANGED win
             ELSE win' = [win EXCEPT ![w] = Here] /\ UNCHANGED overlay
          /\ late' = late \cup ((New \cap Copy) \ {w})
  BY DEF PlaceWindow
<1>2. (w \in Copy /\ win[w] # "unmapped") \/ w = Overlay
  BY <1>1 DEF New, Mapped
<1>3. overlay' \in Output \cup {"closed"}
  BY <1>1, HereIsOutput DEF TypeOK
<1>4. win' \in [Copy -> Output \cup {"unmapped"}]
  BY <1>1, <1>2, HereIsOutput DEF TypeOK
<1>5. \A c \in Copy : win'[c] # "unmapped" => chrome[c].is \in {"up", "dying"}
  BY <1>1, <1>2 DEF TypeOK
<1>6. late' \subseteq Copy
  BY <1>1 DEF TypeOK
<1> HIDE DEF Gone
<1> QED
  BY <1>3, <1>4, <1>5, <1>6, NextOutputType DEF TypeOK, PlaceWindow

LEMMA WaitEndsType == ASSUME TypeOK, WaitEnds PROVE TypeOK'
<1>1. faults' \in 0..MaxFaults
  BY FaultType DEF TypeOK, WaitEnds
<1> HIDE DEF Gone
<1> QED
  BY <1>1, NextOutputType DEF TypeOK, WaitEnds

LEMMA LoopType == ASSUME TypeOK, Loop PROVE TypeOK'
<1>1. CASE Leave
  BY <1>1, NextOutputType DEF TypeOK, Leave, environment
<1> QED
  BY <1>1, StartPassType, CheckType, LaunchType, PlaceWindowType, WaitEndsType DEF Loop

LEMMA ExitType == ASSUME TypeOK, NEW c \in Copy, Exit(c), faults' \in 0..MaxFaults PROVE TypeOK'
<1>1. chrome' \in [Copy -> {Gone} \cup [is : {"probing", "up", "dying"}, page : Page]]
  BY DEF TypeOK, Exit
<1>2. \A d \in Copy : win'[d] # "unmapped" => chrome'[d].is \in {"up", "dying"}
  BY DEF TypeOK, Exit
<1>3. win' \in [Copy -> Output \cup {"unmapped"}] /\ wedged' \in [Copy -> BOOLEAN]
  BY DEF TypeOK, Exit
<1> HIDE DEF Gone
<1> QED
  BY <1>1, <1>2, <1>3 DEF TypeOK, Exit

LEMMA ExecType == ASSUME TypeOK, NEW c \in Copy, Exec(c) PROVE TypeOK'
<1>1. chrome[c] \in [is : {"probing", "up", "dying"}, page : Page]
  BY DEF TypeOK, Exec, Gone
<1>2. [chrome[c] EXCEPT !.is = "up"] = [is |-> "up", page |-> chrome[c].page]
  BY <1>1
<1>3. chrome' = [chrome EXCEPT ![c] = [is |-> "up", page |-> chrome[c].page]]
  BY <1>2 DEF Exec
<1>4. chrome[c].page \in Page
  BY <1>1
<1>5. chrome' \in [Copy -> {Gone} \cup [is : {"probing", "up", "dying"}, page : Page]]
  BY <1>3, <1>4 DEF TypeOK
<1>6. \A d \in Copy : chrome[d].is \in {"up", "dying"} => chrome'[d].is \in {"up", "dying"}
  BY <1>3 DEF TypeOK
<1> HIDE DEF Gone
<1> QED
  BY <1>5, <1>6 DEF TypeOK, Exec, environment

LEMMA ChromiumType == ASSUME TypeOK, NEW c \in Copy, Chromium(c) PROVE TypeOK'
<1>1. CASE Paint(c)
  <2>1. win' \in [Copy -> Output \cup {"unmapped"}]
    BY <1>1 DEF TypeOK, Paint
  <2>2. \A d \in Copy : win'[d] # "unmapped" => chrome[d].is \in {"up", "dying"}
    BY <1>1 DEF TypeOK, Paint
  <2>3. late' \subseteq Copy
    BY <1>1 DEF TypeOK, Paint
  <2> HIDE DEF Gone
  <2> QED
    BY <1>1, <2>1, <2>2, <2>3 DEF TypeOK, Paint, environment
<1>2. CASE Dies(c)
  BY <1>2, ExitType DEF Dies, TypeOK
<1>3. CASE Crash(c)
  BY <1>3, ExitType, FaultType DEF Crash
<1>4. CASE Wedge(c)
  <2>1. wedged' \in [Copy -> BOOLEAN]
    BY <1>4 DEF TypeOK, Wedge
  <2> HIDE DEF Gone
  <2> QED
    BY <1>4, <2>1, FaultType DEF TypeOK, Wedge
<1> QED
  BY <1>1, <1>2, <1>3, <1>4, ExecType DEF Chromium, Proceeds

Surround == OpenOverlay \/ CloseOverlay \/ SetContent \/ FlipIncident

LEMMA SurroundType == ASSUME TypeOK, Surround PROVE TypeOK'
<1> HIDE DEF Gone
<1>1. CASE OpenOverlay
  BY <1>1, FaultType DEF TypeOK, OpenOverlay
<1>2. CASE CloseOverlay
  BY <1>2 DEF TypeOK, CloseOverlay
<1>3. CASE SetContent
  <2>1. changes' \in 0..MaxChanges
    BY <1>3, BoundAssumption DEF TypeOK, SetContent
  <2>2. PICK o \in Output : \E p \in Page : content' = [content EXCEPT ![o] = p]
    BY <1>3 DEF SetContent
  <2>3. content' \in [Output -> Page]
    BY <2>2 DEF TypeOK
  <2>4. quick' \in BOOLEAN
    BY <1>3 DEF SetContent
  <2> QED
    BY <1>3, <2>1, <2>3, <2>4 DEF TypeOK, SetContent
<1>4. CASE FlipIncident
  <2>1. changes' \in 0..MaxChanges
    BY <1>4, BoundAssumption DEF TypeOK, FlipIncident
  <2>2. incident' \in BOOLEAN /\ quick' \in BOOLEAN
    BY <1>4 DEF TypeOK, FlipIncident
  <2> QED
    BY <1>4, <2>1, <2>2 DEF TypeOK, FlipIncident
<1> QED
  BY <1>1, <1>2, <1>3, <1>4 DEF Surround

LEMMA NextType == ASSUME TypeOK, [Next]_vars PROVE TypeOK'
<1>1. CASE UNCHANGED vars
  BY <1>1 DEF TypeOK, vars
<1> QED
  BY <1>1, LoopType, ChromiumType, SurroundType DEF Next, Environment, Surround

(* Type correctness: the tables stay total, and no window outlives its     *)
(* Chromium.                                                               *)
THEOREM TypeCorrect == Spec => []TypeOK
<1>1. Init => TypeOK
  BY InitType
<1>2. TypeOK /\ [Next]_vars => TypeOK'
  BY NextType
<1> QED
  BY <1>1, <1>2, PTL DEF Spec

-----------------------------------------------------------------------------
(* Windows are on their outputs                                            *)

LEMMA LoopPlaced ==
  ASSUME TypeOK, PlacedRight, WaitInv, Loop
  PROVE  PlacedRight' /\ WaitInv'
<1> USE HereIsOutput
<1>1. CASE StartPass
  BY <1>1 DEF PlacedRight, WaitInv, StartPass
<1>2. CASE Check
  BY <1>2 DEF PlacedRight, WaitInv, Check
<1>3. CASE Leave
  BY <1>3 DEF PlacedRight, WaitInv, Leave, NextOutput
<1>4. CASE Launch
  <2>1. \A c \in Copy : c[1] = Here => win[c] = "unmapped"
    BY <1>4, CopyFacts DEF TypeOK, Launch, Alive
  <2>2. \A c \in Copy : c \in Mapped <=> win[c] # "unmapped"
    BY CopyFacts DEF Mapped
  <2>3. \A c \in Copy : c[1] = Here => c \notin before'
    BY <1>4, <2>1, <2>2 DEF Launch, SeenBefore
  <2>4. \A c \in Copy : win[c] # "unmapped" => c \in before' \/ c \in late'
    BY <1>4, <2>2 DEF Launch, SeenBefore
  <2>5. UNCHANGED <<win, turn>> /\ late \subseteq late' /\ pc = "launch"
    BY <1>4 DEF Launch
  <2>6. PlacedRight'
    BY <2>5 DEF PlacedRight
  <2>7. WaitInv'
    BY <2>3, <2>4, <2>5 DEF WaitInv, Here
  <2> QED
    BY <2>6, <2>7
<1>5. CASE PlaceWindow
  <2>1. PICK w \in New :
            /\ IF w = Overlay THEN overlay' = Here /\ UNCHANGED win
               ELSE win' = [win EXCEPT ![w] = Here] /\ UNCHANGED overlay
            /\ late' = late \cup ((New \cap Copy) \ {w})
    BY <1>5 DEF PlaceWindow
  <2>2. pc = "wait" /\ pc' # "wait"
    BY <1>5 DEF PlaceWindow, NextOutput
  <2>3. ASSUME NEW c \in Copy, c \notin late', win'[c] # "unmapped"
        PROVE  win'[c] = c[1]
    <3>1. CASE c = w
      <4>1. c # Overlay /\ c \notin before /\ win[c] # "unmapped"
        BY <2>1, <3>1, CopyFacts DEF New, Mapped
      <4>2. c[1] = Here
        BY <2>1, <2>2, <2>3, <4>1 DEF WaitInv
      <4> QED
        BY <2>1, <3>1, <4>1, <4>2 DEF TypeOK
    <3>2. CASE c # w
      <4>1. win'[c] = win[c]
        BY <2>1, <3>2 DEF TypeOK
      <4>2. c \notin New
        BY <2>1, <2>3, <3>2
      <4>3. c \in before
        BY <2>3, <4>1, <4>2 DEF New, Mapped
      <4> QED
        BY <2>1, <2>2, <2>3, <4>1, <4>3 DEF WaitInv, PlacedRight
    <3> QED
      BY <3>1, <3>2
  <2> QED
    BY <2>2, <2>3 DEF PlacedRight, WaitInv
<1>6. CASE WaitEnds
  <2>1. pc = "wait" /\ pc' # "wait" /\ UNCHANGED <<win, late>> /\ New = {}
    BY <1>6 DEF WaitEnds, NextOutput
  <2>2. \A c \in Copy : c[1] = Here => win[c] = "unmapped"
    BY <2>1 DEF New, Mapped, WaitInv
  <2> QED
    BY <2>1, <2>2 DEF PlacedRight, WaitInv
<1> QED
  BY <1>1, <1>2, <1>3, <1>4, <1>5, <1>6 DEF Loop

LEMMA ChromiumPlaced ==
  ASSUME TypeOK, PlacedRight, WaitInv, NEW c \in Copy, Chromium(c)
  PROVE  PlacedRight' /\ WaitInv'
<1>1. CASE Paint(c)
  <2>1. \A d \in Copy : d # c => win'[d] = win[d]
    BY <1>1 DEF TypeOK, Paint
  <2>2. late' = IF pc = "wait" /\ Here = c[1] THEN late ELSE late \cup {c}
    BY <1>1 DEF Paint
  <2>3. UNCHANGED <<pc, turn, before>>
    BY <1>1 DEF Paint
  <2> QED
    BY <2>1, <2>2, <2>3 DEF PlacedRight, WaitInv, Here
<1>2. CASE Exit(c)
  <2>1. \A d \in Copy : d # c => win'[d] = win[d]
    BY <1>2 DEF TypeOK, Exit
  <2>2. win'[c] = "unmapped"
    BY <1>2 DEF TypeOK, Exit
  <2>3. before' = before \ {c} /\ late' = late \ {c} /\ UNCHANGED <<pc, turn>>
    BY <1>2 DEF Exit
  <2> QED
    BY <2>1, <2>2, <2>3 DEF PlacedRight, WaitInv, Here
<1>3. CASE Wedge(c) \/ Exec(c)
  <2>1. UNCHANGED <<win, late, before, pc, turn>>
    BY <1>3 DEF Wedge, Exec
  <2> QED
    BY <2>1 DEF PlacedRight, WaitInv, Here
<1> QED
  BY <1>1, <1>2, <1>3 DEF Chromium, Proceeds, Dies, Crash

LEMMA SurroundPlaced ==
  ASSUME TypeOK, PlacedRight, WaitInv, Surround
  PROVE  PlacedRight' /\ WaitInv'
<1>1. UNCHANGED <<win, late, pc, turn>>
  BY DEF Surround, OpenOverlay, CloseOverlay, SetContent, FlipIncident
<1>2. \A c \in Copy : c \in before' <=> c \in before
  BY CopyFacts DEF Surround, OpenOverlay, CloseOverlay, SetContent, FlipIncident
<1> QED
  BY <1>1, <1>2 DEF PlacedRight, WaitInv, Here

-----------------------------------------------------------------------------
(* Casts yield in the pass                                                 *)

LEMMA LoopYields == ASSUME TypeOK, PassInv, Loop PROVE PassInv'
<1> USE HereIsOutput
<1>1. CASE StartPass
  <2>1. PICK active \in BOOLEAN :
            /\ IncidentActive(active)
            /\ chrome' = Dying(Preempted(active))
            /\ quick' = (active /\ ~Launching(Cast))
    BY <1>1 DEF StartPass
  <2>2. UNCHANGED <<content, incident>> /\ pc' = "output"
    BY <1>1 DEF StartPass
  <2>3. ASSUME quick', NEW c \in Copy PROVE Yielding(c)'
    <3>1. active /\ ~Launching(Cast)
      BY <2>1, <2>3
    <3>2. chrome'[c].is \in {"probing", "up"} => chrome'[c] = chrome[c]
      BY <2>1, DyingType
    <3>3. CASE chrome'[c].is = "up"
      <4>1. chrome[c].is = "up" /\ c[1] \notin Preempted(active)
        BY <2>1, <3>2, <3>3, DyingType
      <4>2. c[1] \in Output /\ Alive(c[1])
        BY <4>1, CopyFacts DEF Alive
      <4>3. content[c[1]] \notin Cast
        BY <3>1, <4>1, <4>2 DEF Preempted
      <4> QED
        BY <2>2, <4>3 DEF Yielding
    <3>4. CASE chrome'[c].is = "probing"
      BY <2>2, <3>1, <3>2, <3>4 DEF Yielding, Launching
    <3> QED
      BY <3>3, <3>4 DEF Yielding
  <2>4. quick' => incident'
    BY <2>1, <2>2, ActiveFacts
  <2> QED
    BY <2>2, <2>3, <2>4 DEF PassInv
<1>2. CASE Check
  <2>1. PICK active \in BOOLEAN :
            /\ target' = Resolved(Here, active)
            /\ quick' = (quick /\ active)
    BY <1>2 DEF Check
  <2>2. UNCHANGED <<content, incident, turn>> /\ pc = "output"
    BY <1>2 DEF Check
  <2>3. ASSUME NEW c \in Copy, Yielding(c) PROVE Yielding(c)'
    <3>1. chrome' = chrome \/ chrome' = Dying({Here})
      BY <1>2 DEF Check
    <3>2. chrome'[c].is \in {"probing", "up"} => chrome'[c] = chrome[c]
      BY <3>1, DyingType
    <3> QED
      BY <2>2, <2>3, <3>2 DEF Yielding
  <2>4. Resolved(Here, TRUE)' = Resolved(Here, TRUE)
    BY <2>2 DEF Resolved, Here
  <2>5. quick' => quick /\ active = TRUE
    BY <2>1
  <2> QED
    BY <2>1, <2>2, <2>3, <2>4, <2>5 DEF PassInv
<1>3. CASE Leave
  BY <1>3 DEF PassInv, Leave, NextOutput, environment, Yielding
<1>4. CASE Launch
  <2>1. UNCHANGED <<content, incident, quick>> /\ pc = "launch" /\ pc' = "wait"
    BY <1>4 DEF Launch
  <2>2. Latest(Here) \in Copy /\ Overtaken(Here) \in Copy /\ Latest(Here) # Overtaken(Here)
        /\ Latest(Here)[1] = Here /\ Overtaken(Here)[1] = Here
    BY CopyFacts
  <2>3. ASSUME quick, NEW c \in Copy PROVE Yielding(c)'
    <3>1. CASE c = Latest(Here)
      <4>1. chrome'[c].page = Resolved(Here, TRUE)
        BY <1>4, <2>1, <2>2, <2>3, <3>1 DEF Launch, TypeOK, PassInv
      <4>2. content[Here] \in Cast => Resolved(Here, TRUE) \notin Cast
        BY PageAssumption DEF Resolved
      <4> QED
        BY <2>1, <2>2, <3>1, <4>1, <4>2 DEF Yielding
    <3>2. CASE c = Overtaken(Here)
      <4>1. chrome'[c] = chrome[c] \/ chrome'[c] = chrome[Latest(Here)]
        BY <1>4, <2>2, <3>2 DEF Launch, TypeOK
      <4>2. Yielding(c) /\ Yielding(Latest(Here))
        BY <2>1, <2>2, <2>3 DEF PassInv
      <4> QED
        BY <2>1, <2>2, <3>2, <4>1, <4>2 DEF Yielding
    <3>3. CASE c # Latest(Here) /\ c # Overtaken(Here)
      <4>1. chrome'[c] = chrome[c]
        BY <1>4, <3>3 DEF Launch, TypeOK
      <4> QED
        BY <2>1, <2>3, <4>1 DEF Yielding, PassInv
    <3> QED
      BY <3>1, <3>2, <3>3
  <2> QED
    BY <2>1, <2>3 DEF PassInv
<1>5. CASE PlaceWindow
  BY <1>5 DEF PassInv, PlaceWindow, NextOutput, Yielding
<1>6. CASE WaitEnds
  BY <1>6 DEF PassInv, WaitEnds, NextOutput, Yielding
<1> QED
  BY <1>1, <1>2, <1>3, <1>4, <1>5, <1>6 DEF Loop

LEMMA EnvironmentYields == ASSUME TypeOK, PassInv, Environment PROVE PassInv'
<1>1. ASSUME NEW c \in Copy, Exit(c) PROVE PassInv'
  <2>1. \A d \in Copy : chrome'[d].is \in {"probing", "up"} => chrome'[d] = chrome[d]
    BY <1>1 DEF TypeOK, Exit, Gone
  <2>2. UNCHANGED <<content, incident, pc, turn, target, quick>>
    BY <1>1 DEF Exit
  <2>3. Resolved(Here, TRUE)' = Resolved(Here, TRUE)
    BY <2>2 DEF Resolved, Here
  <2> QED
    BY <2>1, <2>2, <2>3 DEF PassInv, Yielding
<1>2. ASSUME NEW c \in Copy, Exec(c) PROVE PassInv'
  <2>1. chrome[c] \in [is : {"probing", "up", "dying"}, page : Page] /\ chrome[c].is = "probing"
    BY <1>2 DEF TypeOK, Exec, Gone
  <2>2. \A d \in Copy : d # c => chrome'[d] = chrome[d]
    BY <1>2 DEF TypeOK, Exec
  <2>3. chrome'[c].page = chrome[c].page
    BY <1>2, <2>1 DEF TypeOK, Exec
  <2>4. UNCHANGED <<content, incident, pc, turn, target, quick>>
    BY <1>2 DEF Exec, environment
  <2>5. ASSUME NEW d \in Copy, Yielding(d) PROVE Yielding(d)'
    BY <2>1, <2>2, <2>3, <2>4, <2>5 DEF Yielding
  <2>6. Resolved(Here, TRUE)' = Resolved(Here, TRUE)
    BY <2>4 DEF Resolved, Here
  <2> QED
    BY <2>4, <2>5, <2>6 DEF PassInv
<1>3. ASSUME UNCHANGED <<content, incident, chrome, pc, turn, target, quick>> PROVE PassInv'
  BY <1>3 DEF PassInv, Yielding, Resolved, Here
<1> QED
  BY <1>1, <1>2, <1>3 DEF Environment, Chromium, Proceeds, Paint, Dies, Crash, Wedge,
                          OpenOverlay, CloseOverlay, environment

-----------------------------------------------------------------------------
LEMMA InitInv == Init => IInv
BY InitType DEF Init, IInv, PlacedRight, WaitInv, PassInv

LEMMA NextInv == ASSUME IInv, [Next]_vars PROVE IInv'
<1>0. TypeOK /\ PlacedRight /\ WaitInv /\ PassInv
  BY DEF IInv
<1>1. CASE UNCHANGED vars
  <2>1. UNCHANGED <<content, incident, chrome, win, pc, turn, target, before, late, quick>>
    BY <1>1 DEF vars
  <2>2. PlacedRight' /\ WaitInv' /\ PassInv'
    BY <1>0, <2>1 DEF PlacedRight, WaitInv, PassInv, Yielding, Resolved, Here
  <2> QED
    BY <1>0, <2>2, NextType DEF IInv
<1>2. CASE Loop
  BY <1>0, <1>2, NextType, LoopPlaced, LoopYields DEF Next, IInv
<1>3. CASE Environment
  BY <1>0, <1>3, NextType, ChromiumPlaced, SurroundPlaced, EnvironmentYields
     DEF Next, Environment, Surround, IInv
<1>4. CASE SetContent \/ FlipIncident
  <2>1. PassInv'
    BY <1>4 DEF PassInv, SetContent, FlipIncident
  <2> QED
    BY <1>0, <1>4, <2>1, NextType, SurroundPlaced DEF Next, Surround, IInv
<1> QED
  BY <1>1, <1>2, <1>3, <1>4 DEF Next

LEMMA InvHolds == Spec => []IInv
<1>1. Init => IInv
  BY InitInv
<1>2. IInv /\ [Next]_vars => IInv'
  BY NextInv
<1> QED
  BY <1>1, <1>2, PTL DEF Spec

(* A window that was moved is on its own output: the loop mistakes another *)
(* window for the one it waits for only if that is one nobody moved.       *)
THEOREM WindowsPlaced == Spec => []PlacedRight
<1>1. IInv => PlacedRight
  BY DEF IInv
<1> QED
  BY <1>1, InvHolds, PTL

(* In a pass that begins with an incident, and with no cast still being    *)
(* launched, no cast waits behind a launch, however many outputs there     *)
(* are and whatever dies in the pass, while its reads of the incident and  *)
(* its casts stay what they were.                                          *)
THEOREM CastsYieldFirst == Spec => []NoCastBehindLaunch
<1>1. ASSUME IInv PROVE NoCastBehindLaunch
  <2>1. PassInv
    BY <1>1 DEF IInv
  <2> QED
    BY <2>1 DEF PassInv, Yielding, NoCastBehindLaunch, Shows
<1> QED
  BY <1>1, InvHolds, PTL

=============================================================================
