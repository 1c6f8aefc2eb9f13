---------------------------- MODULE StudentAccess ----------------------------
(***************************************************************************)
(* What reaches the machines of one project: the terminal sessions, each a *)
(* pty shared by several browsers, and the streams of its desktop; and     *)
(* what takes them away: a browser that leaves, the linger, an eviction at *)
(* the cap, the end of the exam, the close and the removal of the project  *)
(* (src/sreweb/agent: terminals.py, pty_session.py, terminal_ws and        *)
(* display_ws of app.py, the closing half of display.py, the places of     *)
(* schedulers.py and registry.py that hang up).                            *)
(*                                                                         *)
(* The agent is one asyncio loop: an action is what runs between two       *)
(* awaits.  The awaits that matter are the creation of the child process   *)
(* of a terminal, the connection to the X server, the wait for a child     *)
(* that was hung up, and the wait for project.lock.                        *)
(***************************************************************************)
EXTENDS Naturals, FiniteSets

CONSTANTS
    Sessions,       \* terminal sessions; each is used once
    Students,       \* browsers of the owner
    Teachers,       \* browsers of instructors, who may open terminals too
    Viewers,        \* read-only browsers on the terminals, with the owner's identity
    Nothing,        \* no session
    MaxTerminals,   \* cfg.terminals_per_project
    Lingers,        \* whether cfg.terminals_linger is positive
    SlowOpens       \* whether an end, a close or a join may find something opening

Clients == Students \cup Teachers \cup Viewers
Writers == Students \cup Teachers

ASSUME AccessAssumption ==
    /\ IsFiniteSet(Sessions)
    /\ Nothing \notin Sessions
    /\ Students \cap Teachers = {}
    /\ Writers \cap Viewers = {}
    /\ MaxTerminals \in Nat \ {0}
    /\ {Lingers, SlowOpens} \subseteq BOOLEAN

VARIABLES
    exam,      \* project.exam: none, running, over
    closing,   \* project.closing
    reaping,   \* the close the reaper handed to the loop, not started yet
    job,       \* where the end of the exam and the close are
    left,      \* the sessions each of them has still to hang up
    waits,     \* the session whose child it waits for
    cut,       \* the display sockets it has still to close
    shell,     \* the child of each session and its pty
    closed,    \* the sessions whose close() began (session.closing)
    doomed,    \* the sessions whose close() is scheduled
    listed,    \* project.terminals
    lingering, \* the sessions whose linger runs
    opening,   \* the session a browser is waiting the start of
    at,        \* the session a browser is attached to
    desk,      \* the desktop of each browser: off, opening, on
    shown      \* project.display_clients

projectVars == <<exam, closing, reaping, job, left, waits, cut>>
sessionVars == <<shell, closed, doomed, listed, lingering>>
clientVars == <<opening, at>>
deskVars == <<desk, shown>>
vars == <<exam, closing, reaping, job, left, waits, cut, shell, closed, doomed, listed,
          lingering, opening, at, desk, shown>>

Jobs == {"end", "close"}

\* The pty of a session: unused, its child being created, usable, its master
\* closed and the child not gone yet, over.
Shells == {"none", "starting", "up", "hung", "gone"}

-----------------------------------------------------------------------------
\* The browsers of a session.

\* The clients of s that type, when the browsers are attached as in `where`.
WritersOn(s, where) == {c \in Writers : where[c] = s}

CanType(c) == c \in Writers /\ at[c] # Nothing /\ shell[at[c]] = "up"

CanSee(c) == desk[c] = "on"

\* The lock of the project, as far as the two jobs take it.
LockFree == job["end"] # "eval" /\ job["close"] \notin {"hangup", "stop"}

Opening == \E c \in Clients : opening[c] # Nothing \/ desk[c] = "opening"

\* access.check_exam_action on a request of c; a viewer carries the identity
\* of the presenter, here the owner.
Allowed(c) == exam = "over" => c \in Teachers

-----------------------------------------------------------------------------
(***************************************************************************)
(* TerminalSession.close, up to its wait for the child: nothing when a     *)
(* close began already.  A session whose child is still being created has  *)
(* no master to close yet: its close is over at once.                      *)
(***************************************************************************)

Hung(s) == IF s \notin closed /\ shell[s] = "up" THEN [shell EXCEPT ![s] = "hung"] ELSE shell

\* The session ends for the list only when its close is over.
Unlisted(s) == IF s \notin closed /\ shell[s] \in {"starting", "gone"} THEN listed \ {s} ELSE listed

\* Seeded fault: the close of a session already closing waits for nobody and
\* marks the session without hanging it up.
HangUpUnhung(s) ==
    /\ shell' = shell
    /\ listed' = Unlisted(s)
    /\ closed' = closed \cup {s}
    /\ lingering' = lingering \ {s}

HangUp(s) ==
    /\ shell' = Hung(s)
    /\ listed' = Unlisted(s)
    /\ closed' = closed \cup {s}
    /\ lingering' = IF s \in closed THEN lingering ELSE lingering \ {s}

\* A close() scheduled by a browser that left, the linger or an eviction.
CloseRuns(s) ==
    /\ s \in doomed
    /\ doomed' = doomed \ {s}
    /\ HangUp(s)
    /\ UNCHANGED <<projectVars, clientVars, deskVars>>

\* PtySession._wait_exit, then TerminalSession._on_exit: the child ended by
\* itself, or of the hang-up or the kill after the grace.
ChildExits(s) ==
    /\ shell[s] \in {"up", "hung"}
    /\ shell' = [shell EXCEPT ![s] = "gone"]
    /\ listed' = listed \ {s}
    /\ lingering' = lingering \ {s}
    /\ UNCHANGED <<closed, doomed, projectVars, clientVars, deskVars>>

-----------------------------------------------------------------------------
\* terminal_ws.

\* Seeded fault: the cap is only looked at, a terminal in excess opens.
MakeRoomAnyway(room) == room \subseteq (lingering \cap listed) \ closed /\ Cardinality(room) <= 1

\* The terminals evicted for a new one (_evict_lingering): at the cap, one that
\* lingers; there must be room then.
MakeRoom(room) ==
    LET candidates == (lingering \cap listed) \ closed
    IN  IF Cardinality(listed) >= MaxTerminals
        THEN /\ room \subseteq candidates
             /\ Cardinality(room) = 1
             /\ Cardinality(listed \ room) < MaxTerminals
        ELSE room = {}

\* A new session, up to the creation of its child.
OpenTerminal(c, s) ==
    /\ c \in Writers
    /\ ~closing
    /\ Allowed(c)
    /\ at[c] = Nothing
    /\ opening[c] = Nothing
    /\ shell[s] = "none"
    /\ \E room \in SUBSET Sessions :
          /\ MakeRoom(room)
          /\ doomed' = doomed \cup room
          /\ listed' = (listed \ room) \cup {s}
    /\ shell' = [shell EXCEPT ![s] = "starting"]
    /\ opening' = [opening EXCEPT ![c] = s]
    /\ UNCHANGED <<closed, lingering, at, projectVars, deskVars>>

\* The child runs: the browser that waited for it attaches, whatever became of
\* the session meanwhile.
TerminalStarts(c, s) ==
    /\ opening[c] = s
    /\ shell' = [shell EXCEPT ![s] = "up"]
    /\ opening' = [opening EXCEPT ![c] = Nothing]
    /\ at' = [at EXCEPT ![c] = s]
    /\ lingering' = lingering \ {s}
    /\ UNCHANGED <<closed, doomed, listed, projectVars, deskVars>>

\* OSError: the session is forgotten.
TerminalFails(c, s) ==
    /\ opening[c] = s
    /\ shell' = [shell EXCEPT ![s] = "gone"]
    /\ opening' = [opening EXCEPT ![c] = Nothing]
    /\ listed' = listed \ {s}
    /\ UNCHANGED <<at, closed, doomed, lingering, projectVars, deskVars>>

\* Seeded fault: the linger of a joined session runs on.
JoinLingering(c, s) ==
    /\ ~closing
    /\ Allowed(c)
    /\ at[c] = Nothing
    /\ opening[c] = Nothing
    /\ s \in listed \ closed
    /\ SlowOpens \/ shell[s] # "starting"
    /\ at' = [at EXCEPT ![c] = s]
    /\ UNCHANGED <<opening, shell, closed, doomed, listed, lingering, projectVars, deskVars>>

\* One more browser on a session; one that types stops the linger.
Join(c, s) ==
    /\ ~closing
    /\ Allowed(c)
    /\ at[c] = Nothing
    /\ opening[c] = Nothing
    /\ s \in listed \ closed
    /\ SlowOpens \/ shell[s] # "starting"
    /\ at' = [at EXCEPT ![c] = s]
    /\ lingering' = IF c \in Writers THEN lingering \ {s} ELSE lingering
    /\ UNCHANGED <<opening, shell, closed, doomed, listed, projectVars, deskVars>>

\* Seeded fault: a viewer left on the terminal keeps it.
LeaveKeptByViewer(c, ended) ==
    /\ at[c] # Nothing
    /\ at' = [at EXCEPT ![c] = Nothing]
    /\ LET s == at[c]
           kept == {d \in Clients : at'[d] = s} # {} \/ s \in closed
           ends == ended \/ ~Lingers
       IN  /\ doomed' = IF ~kept /\ ends THEN doomed \cup {s} ELSE doomed
           /\ lingering' = IF ~kept /\ ~ends THEN lingering \cup {s} ELSE lingering
    /\ UNCHANGED <<opening, shell, closed, listed, projectVars, deskVars>>

\* Seeded fault: a socket that never attached is detached too.
LeaveUnattached(c, ended) ==
    /\ at' = [at EXCEPT ![c] = Nothing]
    /\ LET s == at[c]
           kept == WritersOn(s, at') # {} \/ s \in closed
           ends == ended \/ ~Lingers
       IN  /\ doomed' = IF ~kept /\ ends THEN doomed \cup {s} ELSE doomed
           /\ lingering' = IF ~kept /\ ~ends THEN lingering \cup {s} ELSE lingering
    /\ UNCHANGED <<opening, shell, closed, listed, projectVars, deskVars>>

\* A browser goes (TerminalSession.detach), because its user closed the
\* terminal (`ended`) or for any other reason.
Leave(c, ended) ==
    /\ at[c] # Nothing
    /\ at' = [at EXCEPT ![c] = Nothing]
    /\ LET s == at[c]
           kept == WritersOn(s, at') # {} \/ s \in closed
           ends == ended \/ ~Lingers
       IN  /\ doomed' = IF ~kept /\ ends THEN doomed \cup {s} ELSE doomed
           /\ lingering' = IF ~kept /\ ~ends THEN lingering \cup {s} ELSE lingering
    /\ UNCHANGED <<opening, shell, closed, listed, projectVars, deskVars>>

\* TerminalSession._linger_expired.
LingerOver(s) ==
    /\ s \in lingering
    /\ lingering' = lingering \ {s}
    /\ doomed' = IF WritersOn(s, at) = {} /\ s \notin closed THEN doomed \cup {s} ELSE doomed
    /\ UNCHANGED <<shell, closed, listed, projectVars, clientVars, deskVars>>

-----------------------------------------------------------------------------
\* display_ws.

OpenDisplay(c) ==
    /\ c \in Writers
    /\ ~closing
    /\ Allowed(c)
    /\ desk[c] = "off"
    /\ desk' = [desk EXCEPT ![c] = "opening"]
    /\ UNCHANGED <<shown, projectVars, sessionVars, clientVars>>

\* The X server runs and answers: the socket is one of the project's.
DisplayShows(c) ==
    /\ desk[c] = "opening"
    /\ desk' = [desk EXCEPT ![c] = "on"]
    /\ shown' = shown \cup {c}
    /\ UNCHANGED <<projectVars, sessionVars, clientVars>>

\* The X server does not start or answer, or the browser leaves: its socket is
\* closed, nobody has to close it any more.
DisplayEnds(c) ==
    /\ desk[c] # "off"
    /\ desk' = [desk EXCEPT ![c] = "off"]
    /\ shown' = shown \ {c}
    /\ cut' = [j \in Jobs |-> cut[j] \ {c}]
    /\ UNCHANGED <<exam, closing, reaping, job, left, waits, sessionVars, clientVars>>

-----------------------------------------------------------------------------
(***************************************************************************)
(* Registry._close_terminals: the list is taken and emptied, then the      *)
(* sessions are hung up one after the other, each waited for.              *)
(***************************************************************************)

TakeTerminals(j) ==
    /\ left' = [left EXCEPT ![j] = listed]
    /\ listed' = {}

HangUpNext(j) ==
    /\ waits[j] = Nothing
    /\ \E s \in left[j] :
          /\ left' = [left EXCEPT ![j] = @ \ {s}]
          /\ HangUp(s)
          /\ waits' = [waits EXCEPT ![j] =
                          IF s \notin closed /\ shell[s] = "up" THEN s ELSE Nothing]
    /\ UNCHANGED <<exam, closing, reaping, job, cut, doomed, clientVars, deskVars>>

HungUp(j) ==
    /\ waits[j] # Nothing
    /\ shell[waits[j]] = "gone"
    /\ waits' = [waits EXCEPT ![j] = Nothing]
    /\ UNCHANGED <<exam, closing, reaping, job, left, cut, sessionVars, clientVars, deskVars>>

TerminalsGone(j) == left[j] = {} /\ waits[j] = Nothing

-----------------------------------------------------------------------------
\* DisplayManager._close_clients: the list is taken and emptied, the sockets
\* are closed one after the other.

TakeDisplays(j) ==
    /\ cut' = [cut EXCEPT ![j] = shown]
    /\ shown' = {}

CutNext(j) ==
    /\ \E c \in cut[j] :
          /\ cut' = [cut EXCEPT ![j] = @ \ {c}]
          /\ desk' = [desk EXCEPT ![c] = IF @ = "on" THEN "off" ELSE @]
    /\ UNCHANGED <<exam, closing, reaping, job, left, waits, shown, sessionVars, clientVars>>

-----------------------------------------------------------------------------
\* Schedulers.end_exam and the portal.

MayBegin == SlowOpens \/ ~Opening

\* ended_at is written; the terminals first.
EndExam ==
    /\ exam = "running"
    /\ job["end"] = "off"
    /\ MayBegin
    /\ exam' = "over"
    /\ job' = [job EXCEPT !["end"] = "terminals"]
    /\ TakeTerminals("end")
    /\ UNCHANGED <<closing, reaping, waits, cut, shell, closed, doomed, lingering, clientVars,
                   deskVars>>

\* Seeded fault: the final evaluation does not wait for the terminals.
EndTerminalsEarly ==
    /\ job["end"] = "terminals"
    /\ job' = [job EXCEPT !["end"] = "displays"]
    /\ TakeDisplays("end")
    /\ UNCHANGED <<exam, closing, reaping, left, waits, sessionVars, clientVars, desk>>

\* on_exam_ended: the displays then.
EndTerminals ==
    /\ job["end"] = "terminals"
    /\ TerminalsGone("end")
    /\ job' = [job EXCEPT !["end"] = "displays"]
    /\ TakeDisplays("end")
    /\ UNCHANGED <<exam, closing, reaping, left, waits, sessionVars, clientVars, desk>>

\* The final evaluation, under the project lock.
FinalEval ==
    /\ job["end"] = "displays"
    /\ cut["end"] = {}
    /\ LockFree
    /\ job' = [job EXCEPT !["end"] = IF closing THEN "off" ELSE "eval"]
    /\ UNCHANGED <<exam, closing, reaping, left, waits, cut, sessionVars, clientVars, deskVars>>

EvalEnds ==
    /\ job["end"] = "eval"
    /\ job' = [job EXCEPT !["end"] = "off"]
    /\ UNCHANGED <<exam, closing, reaping, left, waits, cut, sessionVars, clientVars, deskVars>>

\* exam_put: an exam on a plain project, an end in the future on an ended one.
\* Bound: while no end runs; AgentExam has the others.
ExamPut ==
    /\ ~closing
    /\ exam # "running"
    /\ job["end"] = "off"
    /\ exam' = "running"
    /\ UNCHANGED <<closing, reaping, job, left, waits, cut, sessionVars, clientVars, deskVars>>

-----------------------------------------------------------------------------
\* Schedulers.close_project, then the removal of the project by the registry.

\* close_project, up to its wait for the lock.
Close ==
    /\ closing' = TRUE
    /\ job' = [job EXCEPT !["close"] = "waiting"]
    /\ UNCHANGED <<exam, left, waits, cut, sessionVars, clientVars, deskVars>>

\* project_close by the owner or an instructor, or the stop of the agent.
CloseRequest == ~closing /\ Close /\ UNCHANGED reaping

\* Schedulers._reap_if_idle, as far as the terminals and the displays go: the
\* close is handed to the loop.
Reap ==
    /\ ~closing
    /\ ~reaping
    /\ exam # "running"
    /\ listed \subseteq lingering
    /\ shown = {}
    /\ LockFree
    /\ reaping' = TRUE
    /\ UNCHANGED <<exam, closing, job, left, waits, cut, sessionVars, clientVars, deskVars>>

\* It starts; nothing when the project is closing already.
ReapStarts ==
    /\ reaping
    /\ reaping' = FALSE
    /\ IF closing
       THEN UNCHANGED <<exam, closing, job, left, waits, cut, sessionVars, clientVars, deskVars>>
       ELSE Close

CloseBegins ==
    /\ job["close"] = "waiting"
    /\ LockFree
    /\ MayBegin
    /\ job' = [job EXCEPT !["close"] = "hangup"]
    /\ TakeTerminals("close")
    /\ UNCHANGED <<exam, closing, reaping, waits, cut, shell, closed, doomed, lingering,
                   clientVars, deskVars>>

CloseStops ==
    /\ job["close"] = "hangup"
    /\ TerminalsGone("close")
    /\ job' = [job EXCEPT !["close"] = "stop"]
    /\ UNCHANGED <<exam, closing, reaping, left, waits, cut, sessionVars, clientVars, deskVars>>

StopFails ==
    /\ job["close"] = "stop"
    /\ closing' = FALSE
    /\ job' = [job EXCEPT !["close"] = "off"]
    /\ UNCHANGED <<exam, reaping, left, waits, cut, sessionVars, clientVars, deskVars>>

\* sre stop succeeded: the registry forgets the project (_apply_scan).
Forget ==
    /\ job["close"] = "stop"
    /\ job' = [job EXCEPT !["close"] = "forget"]
    /\ TakeTerminals("close")
    /\ UNCHANGED <<exam, closing, reaping, waits, cut, shell, closed, doomed, lingering,
                   clientVars, deskVars>>

\* DisplayManager.stop, the removal hook.
ForgetDisplays ==
    /\ job["close"] = "forget"
    /\ TerminalsGone("close")
    /\ job' = [job EXCEPT !["close"] = "gone"]
    /\ TakeDisplays("close")
    /\ UNCHANGED <<exam, closing, reaping, left, waits, sessionVars, clientVars, desk>>

\* Nobody is there any more.
AtRest == job["close"] = "gone" /\ UNCHANGED vars

-----------------------------------------------------------------------------
Init ==
    /\ exam \in {"none", "running"}
    /\ closing = FALSE
    /\ reaping = FALSE
    /\ job = [j \in Jobs |-> "off"]
    /\ left = [j \in Jobs |-> {}]
    /\ waits = [j \in Jobs |-> Nothing]
    /\ cut = [j \in Jobs |-> {}]
    /\ shell = [s \in Sessions |-> "none"]
    /\ closed = {}
    /\ doomed = {}
    /\ listed = {}
    /\ lingering = {}
    /\ opening = [c \in Clients |-> Nothing]
    /\ at = [c \in Clients |-> Nothing]
    /\ desk = [c \in Clients |-> "off"]
    /\ shown = {}

JobStep(j) == HangUpNext(j) \/ HungUp(j) \/ CutNext(j)

Next ==
    \/ \E s \in Sessions : CloseRuns(s) \/ ChildExits(s) \/ LingerOver(s)
    \/ \E c \in Clients, s \in Sessions :
          OpenTerminal(c, s) \/ TerminalStarts(c, s) \/ TerminalFails(c, s) \/ Join(c, s)
    \/ \E c \in Clients, ended \in BOOLEAN : Leave(c, ended)
    \/ \E c \in Clients : OpenDisplay(c) \/ DisplayShows(c) \/ DisplayEnds(c)
    \/ \E j \in Jobs : JobStep(j)
    \/ EndExam \/ EndTerminals \/ FinalEval \/ EvalEnds
    \/ ExamPut
    \/ CloseRequest \/ Reap \/ ReapStarts \/ CloseBegins \/ CloseStops \/ StopFails
    \/ Forget \/ ForgetDisplays
    \/ AtRest

Spec == Init /\ [][Next]_vars

-----------------------------------------------------------------------------
\* Every variable keeps the shape the code gives it.
TypeOK ==
    /\ exam \in {"none", "running", "over"}
    /\ closing \in BOOLEAN
    /\ reaping \in BOOLEAN
    /\ job \in [Jobs -> {"off", "terminals", "displays", "eval",
                         "waiting", "hangup", "stop", "forget", "gone"}]
    /\ left \in [Jobs -> SUBSET Sessions]
    /\ waits \in [Jobs -> Sessions \cup {Nothing}]
    /\ cut \in [Jobs -> SUBSET Clients]
    /\ shell \in [Sessions -> Shells]
    /\ closed \subseteq Sessions
    /\ doomed \subseteq Sessions
    /\ listed \subseteq Sessions
    /\ lingering \subseteq Sessions
    /\ opening \in [Clients -> Sessions \cup {Nothing}]
    /\ at \in [Clients -> Sessions \cup {Nothing}]
    /\ desk \in [Clients -> {"off", "opening", "on"}]
    /\ shown \subseteq Clients

\* The final evaluation of an ended exam grades a machine the student cannot
\* touch any more (schedulers.py: "the student is cut off first (terminals,
\* display clients, the exam event) and the final evaluation runs").
StudentCutOff ==
    job["end"] = "eval" /\ exam = "over"
        => \A c \in Students : ~CanType(c) /\ ~CanSee(c)

\* A project never has more terminals than its cap, evictions included.
CapHolds == Cardinality(listed) <= MaxTerminals

\* The agent never loses a shell: the list of the project holds one that somebody
\* types into, or a hang-up of it is on its way; one that nobody types into has its
\* linger running, or its close scheduled (detach: "a shell nobody can type into is
\* not kept for its viewers").
NoShellIsLost ==
    \A s \in Sessions : shell[s] = "up" =>
        IF WritersOn(s, at) = {} THEN s \in lingering \cup doomed
        ELSE s \in listed \cup doomed \cup left["end"] \cup left["close"]

\* The reaper never decides to close the project under somebody who types in it,
\* but in a terminal the end of the exam is hanging up.
TypistsAreNotReaped ==
    [][Reap => \A c \in Writers : CanType(c) => at[c] \in left["end"]]_vars

\* From the end of the exam until it is put on again, the student gets no shell and no
\* desktop he did not have, whatever terminals others open and share and however the
\* end, the evaluation and closes that fail cross (end_exam: "the student is cut off
\* first"); SlowOpens lets in what he was opening already.
NobodyReturns ==
    [][exam = "over" /\ exam' = "over" =>
          \A c \in Students : (CanType(c)' => CanType(c)) /\ (CanSee(c)' => CanSee(c))]_vars

-----------------------------------------------------------------------------
\* Fairness: the loop runs what is scheduled, the linger ends, a child whose
\* master is closed exits or is killed, sre ends.
Fairness ==
    /\ \A s \in Sessions : /\ WF_vars(CloseRuns(s))
                           /\ WF_vars(shell[s] = "hung" /\ ChildExits(s))
                           /\ WF_vars(LingerOver(s))
    /\ \A c \in Clients, s \in Sessions : WF_vars(TerminalStarts(c, s) \/ TerminalFails(c, s))
    /\ \A j \in Jobs : WF_vars(JobStep(j))
    /\ WF_vars(EndTerminals)
    /\ WF_vars(FinalEval)
    /\ WF_vars(EvalEnds)

FairSpec == Spec /\ Fairness

\* A shell nobody can type into is not kept for ever, whoever still watches it
\* (detach: "a shell nobody can type into is not kept for its viewers").
IdleShellEnds ==
    \A s \in Sessions :
        (shell[s] = "up" /\ WritersOn(s, at) = {}) ~> (shell[s] # "up" \/ WritersOn(s, at) # {})

\* The cut-off of an ended exam is done in the end, whatever the terminals do.
CutOffEnds == job["end"] = "terminals" ~> job["end"] = "displays"
=============================================================================
