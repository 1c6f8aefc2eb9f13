---------------------------- MODULE Presentation ----------------------------
(***************************************************************************)
(* The presentations of the portal (src/sreweb/portal: presentation.py and *)
(* the presentation routes of routes.py): which one each student must be   *)
(* shown, what their page was told, the sockets of the pages, and the      *)
(* presenters who come and go.  The page of a student is base.js with the  *)
(* frame it puts over itself, the project page of the presenter            *)
(* (project.js).                                                           *)
(*                                                                         *)
(* A request is a coroutine of the portal: it changes the presentations,   *)
(* then tells the students concerned one after the other (resync), and for *)
(* each may wait for the sockets of their page to be closed.  A message is *)
(* taken not to wait while one student is told.                            *)
(***************************************************************************)
EXTENDS Integers

CONSTANTS
    Students,
    Requests,       \* requests under way at a time, beside the tick
    MaxShows,       \* bound: the presentations of a behaviour, numbered as they start
    MaxChanges      \* bound: the changes of an audience

Shows == 1..MaxShows
Loop == "tick"
Callers == Requests \cup {Loop}

ASSUME PresentationAssumption ==
    /\ Loop \notin Requests
    /\ {MaxShows, MaxChanges} \subseteq Nat

VARIABLES
    begun,      \* how many presentations were started
    running,    \* Presentations._presentations
    audience,   \* the students each one includes
    here,       \* the presentations whose presenter has a page open
    absent,     \* Presentation.presenter_absent_since: no, running, or over the grace
    spectators, \* Presentation.spectator_sockets
    present,    \* Presence._sockets
    shown,      \* Presentations.shown, 0 for a student who was told of none
    todo,       \* the students each request has still to tell
    waiting,    \* what a request waits for: the sockets of a student, a presentation
                \* to be told over and one to be told of, as they were found
    link,       \* the page of a student: closed, up, or cut from the network
    overlay,    \* the presentation over the page, 0 for none
    frame,      \* its frame: none, asked for, loaded, refused
    crossed,    \* the students about whom two requests crossed
    lost,       \* the students whose network was lost, once at most
    changes

presenterVars == <<here, absent>>
registryVars == <<begun, running, audience, presenterVars>>
toldVars == <<spectators, present, shown>>
requestVars == <<todo, waiting>>
pageVars == <<link, overlay, frame>>
bounds == <<lost, changes>>
vars == <<begun, running, audience, here, absent, spectators, present, shown, todo,
          waiting, link, overlay, frame, crossed, lost, changes>>

-----------------------------------------------------------------------------
Nobody == [for |-> {}, over |-> 0, next |-> 0]

\* Presentations.of_spectator, for the connected identity of the student; the
\* newest has the greatest number.
NewestOf(s) ==
    LET candidates == {0} \cup {p \in running : s \in present \cap audience[p]}
    IN  CHOOSE p \in candidates : \A q \in candidates : q <= p

\* The request waits for the sockets of the student.
WaitsFor(r, s) == s \in waiting[r].for

\* No request is about the student.
AtRest(s) == \A r \in Callers : s \notin todo[r] \cup waiting[r].for

\* A request about these students, or its turn to tell one, comes while another waits.
Crosses(r, who) ==
    crossed' = crossed \cup {s \in who : \E q \in Callers \ {r} : WaitsFor(q, s)}

\* A request has changed something and has these students to tell.
Asked(r, who) ==
    /\ todo[r] = {} /\ waiting[r] = Nobody
    /\ todo' = [todo EXCEPT ![r] = who]
    /\ UNCHANGED waiting

\* The page is told that p is over, then of q (onPresence of base.js).
Covered(s, p, q) ==
    IF link[s] # "up" \/ s \notin present' THEN UNCHANGED <<overlay, frame>>
    ELSE LET left == IF overlay[s] = p THEN 0 ELSE overlay[s]
             now == IF q = 0 THEN left ELSE q
         IN  /\ overlay' = [overlay EXCEPT ![s] = now]
             /\ frame' = [frame EXCEPT ![s] = IF now = 0 THEN "none"
                                              ELSE IF now = overlay[s] THEN @ ELSE "asked"]

\* The frame of these students has its socket closed for good, and says so to the
\* page (presentationEnded of project.js).
Uncovered(who) ==
    /\ overlay' = [s \in Students |-> IF s \in who THEN 0 ELSE overlay[s]]
    /\ frame' = [s \in Students |-> IF s \in who THEN "none" ELSE frame[s]]

\* The students whose frame has the socket that the portal knows.
Watching(p) == {s \in spectators[p] : link[s] = "up" /\ overlay[s] = p /\ frame[s] = "loaded"}

-----------------------------------------------------------------------------
\* The presenters.

\* What Presentations.start makes, and whom it tells.
Started(r, clock) ==
    /\ begun < MaxShows
    /\ begun' = begun + 1
    /\ running' = running \cup {begun'}
    /\ \E who \in SUBSET Students :
          /\ audience' = [audience EXCEPT ![begun'] = who]
          /\ Asked(r, who) /\ Crosses(r, who)
    /\ absent' = [absent EXCEPT ![begun'] = clock]
    /\ UNCHANGED <<here, toldVars, pageVars, bounds>>

\* Seeded fault: the grace of a presenter begins with their first page.
StartUntimed(r) == Started(r, "no")

\* Presentations.start; the one it replaces was ended before.
Start(r) == Started(r, "running")

\* Seeded fault: those who leave the audience are not told.
SetAudienceForNew(r, p) ==
    /\ changes < MaxChanges
    /\ changes' = changes + 1
    /\ p \in running
    /\ \E new \in SUBSET Students :
          /\ audience' = [audience EXCEPT ![p] = new]
          /\ Asked(r, new) /\ Crosses(r, new)
    /\ UNCHANGED <<begun, running, presenterVars, toldVars, pageVars, lost>>

\* Presentations.set_audience, or a change of the groups (_resync_presentations).
SetAudience(r, p) ==
    /\ changes < MaxChanges
    /\ changes' = changes + 1
    /\ p \in running
    /\ \E new \in SUBSET Students :
          /\ audience' = [audience EXCEPT ![p] = new]
          /\ \E who \in {audience[p] \cup new, present} : Asked(r, who) /\ Crosses(r, who)
    /\ UNCHANGED <<begun, running, presenterVars, toldVars, pageVars, lost>>

\* The sockets of a presentation that is over are closed, then these are told.
EndTelling(r, p, affected) ==
    /\ p \in running
    /\ running' = running \ {p}
    /\ here' = here \ {p}
    /\ spectators' = [spectators EXCEPT ![p] = {}]
    /\ Uncovered(Watching(p))
    /\ Asked(r, affected) /\ Crosses(r, affected \cup audience[p])
    /\ UNCHANGED <<begun, audience, absent, present, shown, link, bounds>>

\* Seeded fault: only those who watch are told.
EndForWatchers(r, p) == EndTelling(r, p, spectators[p])

\* Presentations.end: those who watched it or were told of it.
End(r, p) == EndTelling(r, p, spectators[p] \cup {s \in Students : shown[s] = p})

\* attach_presenter
PresenterComes(p) ==
    /\ p \in running \ here
    /\ here' = here \cup {p}
    /\ absent' = [absent EXCEPT ![p] = "no"]
    /\ UNCHANGED <<begun, running, audience, toldVars, requestVars, pageVars, crossed, bounds>>

\* detach_presenter
PresenterLeaves(p) ==
    /\ p \in here
    /\ here' = here \ {p}
    /\ absent' = [absent EXCEPT ![p] = "running"]
    /\ UNCHANGED <<begun, running, audience, toldVars, requestVars, pageVars, crossed, bounds>>

GraceElapses(p) ==
    /\ p \in running /\ absent[p] = "running"
    /\ absent' = [absent EXCEPT ![p] = "over"]
    /\ UNCHANGED <<begun, running, audience, here, toldVars, requestVars, pageVars, crossed,
                   bounds>>

\* Presentations.tick, in the order of the starts.
TickEnds(p) ==
    /\ absent[p] = "over"
    /\ End(Loop, p)

-----------------------------------------------------------------------------
\* Presentations.resync.

\* The entry of the student changes, and their page is told.
Tell(s, over, next) ==
    /\ shown' = [shown EXCEPT ![s] = next]
    /\ Covered(s, over, next)

\* The turn of a student: the sockets of what they were shown are closed...
Turn(r, s) ==
    LET old == shown[s]
        next == NewestOf(s)'
        sockets == IF old \in running THEN spectators[old] \cap {s} ELSE {}
    IN  /\ UNCHANGED <<registryVars, bounds>>
        /\ Crosses(r, {s})
        /\ IF old = next THEN UNCHANGED <<shown, overlay, frame, waiting, spectators>>
           ELSE IF sockets = {}
           THEN /\ Tell(s, old, next)
                /\ UNCHANGED <<waiting, spectators>>
           ELSE /\ waiting' = [waiting EXCEPT ![r] = [for |-> {s}, over |-> old, next |-> next]]
                /\ spectators' = [spectators EXCEPT ![old] = @ \ {s}]
                /\ Uncovered(Watching(old) \cap {s})
                /\ UNCHANGED shown

Resync(r, s) ==
    /\ s \in todo[r] /\ waiting[r] = Nobody
    /\ todo' = [todo EXCEPT ![r] = @ \ {s}]
    /\ UNCHANGED <<present, link>>
    /\ Turn(r, s)

\* ... and when they are closed the student is told what was found before; the
\* entry another request took away is a KeyError, and the others are not told (a
\* presence socket it ends is opened again, and taken to have stayed).
SocketsClosed(r) ==
    \E s \in waiting[r].for :
        /\ UNCHANGED <<registryVars, spectators, present, link, bounds>>
        /\ waiting' = [waiting EXCEPT ![r] = Nobody]
        /\ IF shown[s] = 0
           THEN /\ crossed' = crossed \cup todo[r]
                /\ todo' = [todo EXCEPT ![r] = {}]
                /\ UNCHANGED <<shown, overlay, frame>>
           ELSE /\ Tell(s, waiting[r].over, waiting[r].next)
                /\ UNCHANGED <<crossed, todo>>

-----------------------------------------------------------------------------
\* The pages of the students, one each; a page comes back once the portal noticed
\* that its sockets are dead.

Forgotten(s) == s \notin present /\ \A p \in Shows : s \notin spectators[p]

\* The page is opened, or its network is back.
PageOpens(s) ==
    /\ link[s] # "up" /\ Forgotten(s)
    /\ link' = [link EXCEPT ![s] = "up"]
    /\ UNCHANGED <<registryVars, toldVars, requestVars, overlay, frame, crossed, bounds>>

PageCloses(s) ==
    /\ link[s] # "closed"
    /\ link' = [link EXCEPT ![s] = "closed"]
    /\ Uncovered({s})
    /\ UNCHANGED <<registryVars, toldVars, requestVars, crossed, bounds>>

NetworkLost(s) ==
    /\ s \notin lost /\ link[s] = "up"
    /\ link' = [link EXCEPT ![s] = "cut"]
    /\ lost' = lost \cup {s}
    /\ UNCHANGED <<registryVars, toldVars, requestVars, overlay, frame, crossed, changes>>

\* The request of a presence socket, about its student alone.
PresenceChanges(r, s) ==
    /\ todo[r] = {} /\ waiting[r] = Nobody
    /\ UNCHANGED <<todo, link>>
    /\ Turn(r, s)

\* api_presence_ws: the socket of a page is opened...
PageConnects(r, s) ==
    /\ link[s] = "up" /\ s \notin present
    /\ present' = present \cup {s}
    /\ PresenceChanges(r, s)

\* ... and the portal notices that it is dead.
PageNoticed(r, s) ==
    /\ link[s] # "up" /\ s \in present
    /\ present' = present \ {s}
    /\ PresenceChanges(r, s)

\* present_page: the frame is loaded, or shows an error.
FrameAsked(s) ==
    LET p == overlay[s]
    IN  /\ frame[s] = "asked" /\ link[s] = "up"
        /\ s \notin spectators[p]
        /\ frame' = [frame EXCEPT ![s] = IF p \in running /\ s \in audience[p] THEN "loaded"
                                         ELSE "refused"]
        /\ UNCHANGED <<registryVars, toldVars, requestVars, link, overlay, crossed, bounds>>

\* Seeded fault: the presentation is not looked up again when the socket is attached.
FrameAttachesAnyway(s) ==
    LET p == overlay[s]
    IN  /\ frame[s] = "loaded" /\ link[s] = "up"
        /\ s \notin spectators[p]
        /\ s \in audience[p]
        /\ spectators' = [spectators EXCEPT ![p] = @ \cup {s}]
        /\ UNCHANGED <<registryVars, present, shown, requestVars, pageVars, crossed, bounds>>

\* Seeded fault: a socket for a presentation that is over is refused only.
FrameRetries(s) ==
    LET p == overlay[s]
    IN  /\ frame[s] = "loaded" /\ link[s] = "up"
        /\ s \notin spectators[p]
        /\ p \in running /\ s \in audience[p]
        /\ spectators' = [spectators EXCEPT ![p] = @ \cup {s}]
        /\ UNCHANGED <<registryVars, present, shown, requestVars, pageVars, crossed, bounds>>

\* api_presentation_ws, attach_spectator: a socket for a presentation that is over
\* is closed at once, one for a student it does not include is refused, and tried again.
FrameConnects(s) ==
    LET p == overlay[s]
    IN  /\ frame[s] = "loaded" /\ link[s] = "up"
        /\ s \notin spectators[p]
        /\ \/ /\ p \in running /\ s \in audience[p]
              /\ spectators' = [spectators EXCEPT ![p] = @ \cup {s}]
              /\ UNCHANGED <<overlay, frame>>
           \/ /\ p \notin running
              /\ Uncovered({s})
              /\ UNCHANGED spectators
        /\ UNCHANGED <<registryVars, present, shown, requestVars, link, crossed, bounds>>

\* detach_spectator: the portal notices that a socket is dead.
FrameNoticed(s, p) ==
    /\ s \in spectators[p] \ Watching(p)
    /\ spectators' = [spectators EXCEPT ![p] = @ \ {s}]
    /\ UNCHANGED <<registryVars, present, shown, requestVars, pageVars, crossed, bounds>>

-----------------------------------------------------------------------------
Init ==
    /\ begun = 0 /\ running = {}
    /\ audience = [p \in Shows |-> {}]
    /\ here = {} /\ absent = [p \in Shows |-> "no"]
    /\ spectators = [p \in Shows |-> {}]
    /\ present = {} /\ shown = [s \in Students |-> 0]
    /\ todo = [r \in Callers |-> {}] /\ waiting = [r \in Callers |-> Nobody]
    /\ link = [s \in Students |-> "closed"]
    /\ overlay = [s \in Students |-> 0] /\ frame = [s \in Students |-> "none"]
    /\ crossed = {}
    /\ lost = {} /\ changes = 0

Presenters ==
    \/ \E r \in Requests : Start(r) \/ \E p \in Shows : SetAudience(r, p) \/ End(r, p)
    \/ \E p \in Shows : PresenterComes(p) \/ PresenterLeaves(p)

Portal ==
    \/ \E r \in Callers : SocketsClosed(r) \/ \E s \in Students : Resync(r, s)
    \/ \E p \in Shows : GraceElapses(p) \/ TickEnds(p)
    \/ \E r \in Requests, s \in Students : PageNoticed(r, s)
    \/ \E s \in Students, p \in Shows : FrameNoticed(s, p)

Pages ==
    \E s \in Students :
        \/ \E r \in Requests : PageConnects(r, s)
        \/ PageOpens(s) \/ PageCloses(s) \/ NetworkLost(s) \/ FrameAsked(s) \/ FrameConnects(s)

Next == Presenters \/ Portal \/ Pages

Spec == Init /\ [][Next]_vars

-----------------------------------------------------------------------------
\* Every variable keeps its shape.
TypeOK ==
    /\ begun \in 0..MaxShows
    /\ running \subseteq 1..begun
    /\ audience \in [Shows -> SUBSET Students]
    /\ here \subseteq running
    /\ absent \in [Shows -> {"no", "running", "over"}]
    /\ spectators \in [Shows -> SUBSET Students]
    /\ \A p \in Shows \ running : spectators[p] = {}
    /\ present \subseteq Students
    /\ shown \in [Students -> 0..MaxShows]
    /\ todo \in [Callers -> SUBSET Students]
    /\ waiting \in [Callers -> [for : SUBSET Students, over : 0..MaxShows, next : 0..MaxShows]]
    /\ link \in [Students -> {"closed", "up", "cut"}]
    /\ overlay \in [Students -> 0..MaxShows]
    /\ frame \in [Students -> {"none", "asked", "loaded", "refused"}]
    /\ crossed \subseteq Students
    /\ lost \subseteq Students /\ changes \in 0..MaxChanges

\* A student whom no request is about is shown the newest presentation that
\* includes them, on their page too (web.md: "A student is in one presentation at a
\* time (the newest that includes them), and falls back to the previous one when it
\* ends"), unless two requests crossed about them.
NewestIsShown ==
    \A s \in Students \ crossed :
        AtRest(s) =>
            /\ shown[s] = NewestOf(s)
            /\ link[s] = "up" /\ shown[s] # 0 => overlay[s] = shown[s]

\* Nor do they watch a presentation that does not include them.
WatchersAreIncluded ==
    \A s \in Students \ (crossed \cup lost), p \in Shows :
        AtRest(s) /\ s \in Watching(p) => s \in audience[p]

-----------------------------------------------------------------------------
Fairness ==
    /\ \A r \in Callers : WF_vars(SocketsClosed(r)) /\ WF_vars(\E s \in Students : Resync(r, s))
    /\ \A p \in Shows : WF_vars(GraceElapses(p)) /\ WF_vars(TickEnds(p))
    /\ \A s \in Students :
          /\ WF_vars(FrameAsked(s)) /\ WF_vars(FrameConnects(s))
          /\ \A p \in Shows : WF_vars(FrameNoticed(s, p))
          /\ SF_vars(\E r \in Requests : PageNoticed(r, s))
          /\ SF_vars(\E r \in Requests : PageConnects(r, s))
          /\ WF_vars(PageOpens(s) /\ link[s] = "cut")

FairSpec == Spec /\ Fairness

\* A presentation whose presenter has left ends.
AbandonedEnds ==
    \A p \in Shows : p \in running \ here ~> p \notin running \/ p \in here

\* The page of a student is back once the presentation is over: its frame, if it
\* was loaded, has it removed.
CoverEnds ==
    \A s \in Students, p \in Shows :
        overlay[s] = p /\ frame[s] = "loaded" /\ p \notin running ~> overlay[s] # p
=============================================================================
