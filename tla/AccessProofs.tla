----------------------------- MODULE AccessProofs -----------------------------
(***************************************************************************)
(* What StudentAccess promises, for any number of sessions and browsers,   *)
(* any cap, with or without a linger.                                      *)
(*                                                                         *)
(* The argument: a shell that runs is in the list of its project, or in    *)
(* what one of the two jobs took out of it and has still to hang up        *)
(* (HeldInv), for nothing that is being created is hung up (UnbornInv),    *)
(* nothing hung up comes back (ClosedInv), and an eviction takes what      *)
(* nobody types into (LingerInv).  One that nobody types into lingers, or  *)
(* its close is scheduled (IdleInv).  Once the exam is over the student    *)
(* enters nothing, and what he is in is out of the list (OverInv); both    *)
(* jobs have nothing left when the final evaluation begins (JobInv).  Nor  *)
(* does any step let a student in by then (NobodyEnters).                  *)
(***************************************************************************)
EXTENDS StudentAccess, FiniteSetTheorems, TLAPS

\* What browsers wait for is being created, listed, and waited for by one, who
\* types nowhere yet.
OpeningInv ==
    /\ \A c \in Clients : opening[c] # Nothing => c \in Writers /\ at[c] = Nothing
    /\ \A c \in Clients : opening[c] # Nothing =>
          shell[opening[c]] = "starting" /\ opening[c] \in listed
    /\ \A c, d \in Clients : opening[c] # Nothing /\ opening[c] = opening[d] => c = d
    /\ \A s \in Sessions : shell[s] = "starting" => \E c \in Clients : opening[c] = s

Unborn == {s \in Sessions : shell[s] \in {"none", "starting"}}

\* Nobody hangs up, or is in, a session that does not run yet.
UnbornInv ==
    /\ \A s \in Unborn : s \notin closed \cup doomed \cup lingering
                                     \cup left["end"] \cup left["close"]
    /\ \A s \in listed : shell[s] # "none"
    /\ \A c \in Clients : at[c] \notin Unborn

\* A session hung up stays hung up.
ClosedInv == \A s \in closed : shell[s] \in {"hung", "gone"}

\* Nobody types into a session that lingers.
LingerInv == \A s \in lingering, c \in Writers : at[c] # s

\* A shell somebody types into is listed or taken out of the list to be hung up.
HeldInv == \A c \in Writers : CanType(c) => at[c] \in listed \cup left["end"] \cup left["close"]

\* A shell nobody types into lingers, or its close is scheduled.
IdleInv ==
    \A s \in Sessions :
        shell[s] = "up" /\ (\A c \in Writers : at[c] # s) => s \in lingering \cup doomed

\* A stream is on the list of the project, or taken out of it to be cut.
ShownInv == \A c \in Clients : CanSee(c) => c \in shown \cup cut["end"] \cup cut["close"]

\* Where the two jobs are, and what they have left there.
JobInv ==
    /\ ~closing => job["close"] = "off"
    /\ job["close"] \in {"off", "waiting", "hangup", "stop", "forget", "gone"}
    /\ job["end"] \in {"off", "terminals", "displays", "eval"}
    /\ job["close"] \in {"off", "waiting", "stop"} => left["close"] = {}
    /\ job["end"] # "terminals" => left["end"] = {}
    /\ job["close"] # "gone" => cut["close"] = {}
    /\ job["end"] # "displays" => cut["end"] = {}
    /\ job["close"] \in {"hangup", "stop", "forget", "gone"} =>
          listed = {} /\ \A c \in Clients : opening[c] = Nothing
    /\ job["end"] # "off" => exam = "over"
    /\ job["end"] = "eval" => job["close"] \in {"off", "waiting"}

\* After the end of the exam the student enters nothing new; the shells and the
\* desktop he still has are in the hands of one of the jobs.
OverInv ==
    exam = "over" => \A c \in Students :
        /\ opening[c] = Nothing
        /\ desk[c] # "opening"
        /\ CanType(c) => at[c] \notin listed
        /\ desk[c] = "on" =>
              \/ c \in cut["end"] \cup cut["close"]
              \/ c \in shown /\ job["end"] \in {"off", "terminals"}

-----------------------------------------------------------------------------
\* One lemma per part of the strengthening, one step per action it is about.

LEMMA TypeKept ==
    ASSUME TypeOK, Next
    PROVE  TypeOK'
<1> USE DEF TypeOK, Jobs, Shells, Clients, Writers, vars, projectVars, sessionVars,
       clientVars, deskVars
<1>1. ASSUME NEW s \in Sessions, CloseRuns(s) PROVE TypeOK'
    BY <1>1, AccessAssumption DEF CloseRuns, HangUp, Hung, Unlisted
<1>2. ASSUME NEW s \in Sessions, ChildExits(s) PROVE TypeOK'
    BY <1>2, AccessAssumption DEF ChildExits
<1>3. ASSUME NEW s \in Sessions, LingerOver(s) PROVE TypeOK'
    BY <1>3, AccessAssumption DEF LingerOver, WritersOn
<1>4. ASSUME NEW c \in Clients, NEW s \in Sessions, OpenTerminal(c, s) PROVE TypeOK'
    BY <1>4, AccessAssumption DEF OpenTerminal, MakeRoom, Allowed
<1>5. ASSUME NEW c \in Clients, NEW s \in Sessions, TerminalStarts(c, s) PROVE TypeOK'
    BY <1>5, AccessAssumption DEF TerminalStarts
<1>6. ASSUME NEW c \in Clients, NEW s \in Sessions, TerminalFails(c, s) PROVE TypeOK'
    BY <1>6, AccessAssumption DEF TerminalFails
<1>7. ASSUME NEW c \in Clients, NEW s \in Sessions, Join(c, s) PROVE TypeOK'
    BY <1>7, AccessAssumption DEF Join, Allowed
<1>8. ASSUME NEW c \in Clients, NEW ended \in BOOLEAN, Leave(c, ended) PROVE TypeOK'
    BY <1>8, AccessAssumption DEF Leave, WritersOn
<1>9. ASSUME NEW c \in Clients, OpenDisplay(c) PROVE TypeOK'
    BY <1>9, AccessAssumption DEF OpenDisplay, Allowed
<1>10. ASSUME NEW c \in Clients, DisplayShows(c) PROVE TypeOK'
    BY <1>10, AccessAssumption DEF DisplayShows
<1>11. ASSUME NEW c \in Clients, DisplayEnds(c) PROVE TypeOK'
    BY <1>11, AccessAssumption DEF DisplayEnds
<1>12. ASSUME NEW j \in Jobs, HangUpNext(j) PROVE TypeOK'
    BY <1>12, AccessAssumption DEF HangUpNext, HangUp, Hung, Unlisted
<1>13. ASSUME NEW j \in Jobs, HungUp(j) PROVE TypeOK'
    BY <1>13, AccessAssumption DEF HungUp
<1>14. ASSUME NEW j \in Jobs, CutNext(j) PROVE TypeOK'
    BY <1>14, AccessAssumption DEF CutNext
<1>15. ASSUME EndExam PROVE TypeOK'
    BY <1>15, AccessAssumption DEF EndExam, TakeTerminals, MayBegin, Opening
<1>16. ASSUME EndTerminals PROVE TypeOK'
    BY <1>16, AccessAssumption DEF EndTerminals, TerminalsGone, TakeDisplays
<1>17. ASSUME FinalEval PROVE TypeOK'
    BY <1>17, AccessAssumption DEF FinalEval, LockFree
<1>18. ASSUME EvalEnds PROVE TypeOK'
    BY <1>18, AccessAssumption DEF EvalEnds
<1>19. ASSUME ExamPut PROVE TypeOK'
    BY <1>19, AccessAssumption DEF ExamPut
<1>20. ASSUME CloseRequest PROVE TypeOK'
    BY <1>20, AccessAssumption DEF CloseRequest, Close
<1>21. ASSUME Reap PROVE TypeOK'
    BY <1>21, AccessAssumption DEF Reap, LockFree
<1>22. ASSUME ReapStarts PROVE TypeOK'
  <2>1. CASE closing
      BY <1>22, <2>1 DEF ReapStarts
  <2>2. CASE ~closing
    <3>1. Close /\ reaping' = FALSE
      BY <1>22, <2>2 DEF ReapStarts
    <3> QED BY <3>1, AccessAssumption DEF Close
  <2> QED
      BY <2>1, <2>2
<1>23. ASSUME CloseBegins PROVE TypeOK'
    BY <1>23, AccessAssumption DEF CloseBegins, LockFree, MayBegin, Opening, TakeTerminals
<1>24. ASSUME CloseStops PROVE TypeOK'
    BY <1>24, AccessAssumption DEF CloseStops, TerminalsGone
<1>25. ASSUME StopFails PROVE TypeOK'
    BY <1>25, AccessAssumption DEF StopFails
<1>26. ASSUME Forget PROVE TypeOK'
    BY <1>26, AccessAssumption DEF Forget, TakeTerminals
<1>27. ASSUME ForgetDisplays PROVE TypeOK'
    BY <1>27, AccessAssumption DEF ForgetDisplays, TerminalsGone, TakeDisplays
<1>28. CASE UNCHANGED vars
    BY <1>28
<1> HIDE DEF TypeOK, Shells
<1> QED
    BY <1>1, <1>2, <1>3, <1>4, <1>5, <1>6, <1>7, <1>8, <1>9, <1>10, <1>11, <1>12, <1>13,
           <1>14, <1>15, <1>16, <1>17, <1>18, <1>19, <1>20, <1>21, <1>22, <1>23, <1>24,
           <1>25, <1>26, <1>27, <1>28
       DEF Next, JobStep, AtRest

LEMMA OpeningKept ==
    ASSUME TypeOK, JobInv, UnbornInv, OpeningInv, ~SlowOpens, Next
    PROVE  OpeningInv'
<1> USE DEF TypeOK, Jobs, Clients, Writers, OpeningInv, UnbornInv, Unborn, JobInv, vars,
       projectVars, sessionVars, clientVars, deskVars
<1>1. ASSUME NEW s \in Sessions, CloseRuns(s) PROVE OpeningInv'
    BY <1>1, AccessAssumption DEF CloseRuns, HangUp, Hung, Unlisted
<1>2. ASSUME NEW s \in Sessions, ChildExits(s) PROVE OpeningInv'
    BY <1>2, AccessAssumption DEF ChildExits
<1>3. ASSUME NEW c \in Clients, NEW s \in Sessions, OpenTerminal(c, s) PROVE OpeningInv'
    BY <1>3, AccessAssumption DEF OpenTerminal, MakeRoom, Allowed
<1>4. ASSUME NEW c \in Clients, NEW s \in Sessions, TerminalStarts(c, s) PROVE OpeningInv'
    BY <1>4, AccessAssumption DEF TerminalStarts
<1>5. ASSUME NEW c \in Clients, NEW s \in Sessions, TerminalFails(c, s) PROVE OpeningInv'
    BY <1>5, AccessAssumption DEF TerminalFails
<1>6. ASSUME NEW j \in Jobs, HangUpNext(j) PROVE OpeningInv'
    BY <1>6, AccessAssumption DEF HangUpNext, HangUp, Hung, Unlisted
<1>7. ASSUME EndExam PROVE OpeningInv'
    BY <1>7, AccessAssumption DEF EndExam, TakeTerminals, MayBegin, Opening
<1>8. ASSUME CloseBegins PROVE OpeningInv'
    BY <1>8, AccessAssumption DEF CloseBegins, LockFree, MayBegin, Opening, TakeTerminals
<1>9. ASSUME Forget PROVE OpeningInv'
    BY <1>9, AccessAssumption DEF Forget, TakeTerminals
<1>10. ASSUME NEW c \in Clients, NEW s \in Sessions, Join(c, s) PROVE OpeningInv'
    BY <1>10, AccessAssumption DEF Join, Allowed
<1>11. ASSUME NEW c \in Clients, NEW ended \in BOOLEAN, Leave(c, ended) PROVE OpeningInv'
    BY <1>11, AccessAssumption DEF Leave
<1>12. CASE UNCHANGED <<opening, shell, listed, at>>
    BY <1>12
<1> HIDE DEF TypeOK, OpeningInv
<1> QED
    BY <1>1, <1>2, <1>3, <1>4, <1>5, <1>6, <1>7, <1>8, <1>9, <1>10, <1>11, <1>12
       DEF Next, JobStep, AtRest, LingerOver, OpenDisplay, DisplayShows, DisplayEnds,
              HungUp, CutNext, EndTerminals, FinalEval, EvalEnds, ExamPut, CloseRequest,
              Reap, ReapStarts, CloseStops, StopFails, ForgetDisplays, TakeDisplays, Close

LEMMA UnbornKept ==
    ASSUME TypeOK, OpeningInv, JobInv, UnbornInv, ~SlowOpens, Next
    PROVE  UnbornInv'
<1> USE DEF TypeOK, Jobs, Clients, Writers, UnbornInv, Unborn, OpeningInv, JobInv, vars,
       projectVars, sessionVars, clientVars, deskVars
<1>1. ASSUME NEW s \in Sessions, CloseRuns(s) PROVE UnbornInv'
    BY <1>1, AccessAssumption DEF CloseRuns, HangUp, Hung, Unlisted
<1>2. ASSUME NEW s \in Sessions, ChildExits(s) PROVE UnbornInv'
    BY <1>2, AccessAssumption DEF ChildExits
<1>3. ASSUME NEW s \in Sessions, LingerOver(s) PROVE UnbornInv'
    BY <1>3, AccessAssumption DEF LingerOver, WritersOn
<1>4. ASSUME NEW c \in Clients, NEW s \in Sessions, OpenTerminal(c, s) PROVE UnbornInv'
    BY <1>4, AccessAssumption DEF OpenTerminal, MakeRoom, Allowed
<1>5. ASSUME NEW c \in Clients, NEW s \in Sessions, TerminalStarts(c, s) PROVE UnbornInv'
    BY <1>5, AccessAssumption DEF TerminalStarts
<1>6. ASSUME NEW c \in Clients, NEW s \in Sessions, TerminalFails(c, s) PROVE UnbornInv'
    BY <1>6, AccessAssumption DEF TerminalFails
<1>7. ASSUME NEW c \in Clients, NEW s \in Sessions, Join(c, s) PROVE UnbornInv'
    BY <1>7, AccessAssumption DEF Join, Allowed
<1>8. ASSUME NEW c \in Clients, NEW ended \in BOOLEAN, Leave(c, ended) PROVE UnbornInv'
    BY <1>8, AccessAssumption DEF Leave, WritersOn
<1>9. ASSUME NEW j \in Jobs, HangUpNext(j) PROVE UnbornInv'
    BY <1>9, AccessAssumption DEF HangUpNext, HangUp, Hung, Unlisted
<1>10. ASSUME EndExam PROVE UnbornInv'
    BY <1>10, AccessAssumption DEF EndExam, TakeTerminals, MayBegin, Opening
<1>11. ASSUME CloseBegins PROVE UnbornInv'
    BY <1>11, AccessAssumption DEF CloseBegins, LockFree, MayBegin, Opening, TakeTerminals
<1>12. ASSUME Forget PROVE UnbornInv'
    BY <1>12, AccessAssumption DEF Forget, TakeTerminals
<1>13. CASE UNCHANGED <<shell, closed, doomed, lingering, left, listed, at>>
    BY <1>13
<1> HIDE DEF TypeOK, UnbornInv
<1> QED
    BY <1>1, <1>2, <1>3, <1>4, <1>5, <1>6, <1>7, <1>8, <1>9, <1>10, <1>11, <1>12, <1>13
       DEF Next, JobStep, AtRest, OpenDisplay, DisplayShows, DisplayEnds, HungUp, CutNext,
              EndTerminals, FinalEval, EvalEnds, ExamPut, CloseRequest, Reap, ReapStarts,
              CloseStops, StopFails, ForgetDisplays, TakeDisplays, Close

LEMMA ClosedKept ==
    ASSUME TypeOK, UnbornInv, OpeningInv, ClosedInv, ~SlowOpens, Next
    PROVE  ClosedInv'
<1> USE DEF TypeOK, Jobs, Clients, Writers, ClosedInv, Unborn, UnbornInv, OpeningInv,
       Shells, vars, projectVars, sessionVars, clientVars, deskVars
<1>1. ASSUME NEW s \in Sessions, CloseRuns(s) PROVE ClosedInv'
    BY <1>1, AccessAssumption DEF CloseRuns, HangUp, Hung, Unlisted
<1>2. ASSUME NEW s \in Sessions, ChildExits(s) PROVE ClosedInv'
    BY <1>2, AccessAssumption DEF ChildExits
<1>3. ASSUME NEW c \in Clients, NEW s \in Sessions, OpenTerminal(c, s) PROVE ClosedInv'
    BY <1>3, AccessAssumption DEF OpenTerminal, MakeRoom, Allowed
<1>4. ASSUME NEW c \in Clients, NEW s \in Sessions, TerminalStarts(c, s) PROVE ClosedInv'
    BY <1>4, AccessAssumption DEF TerminalStarts
<1>5. ASSUME NEW c \in Clients, NEW s \in Sessions, TerminalFails(c, s) PROVE ClosedInv'
    BY <1>5, AccessAssumption DEF TerminalFails
<1>6. ASSUME NEW j \in Jobs, HangUpNext(j) PROVE ClosedInv'
    BY <1>6, AccessAssumption DEF HangUpNext, HangUp, Hung, Unlisted
<1>7. CASE UNCHANGED <<closed, shell>>
    BY <1>7
<1> HIDE DEF TypeOK, ClosedInv
<1> QED
    BY <1>1, <1>2, <1>3, <1>4, <1>5, <1>6, <1>7
       DEF Next, JobStep, AtRest, LingerOver, Join, Leave, OpenDisplay, DisplayShows,
              DisplayEnds, HungUp, CutNext, EndExam, EndTerminals, FinalEval, EvalEnds,
              ExamPut, CloseRequest, Reap, ReapStarts, CloseBegins, CloseStops, StopFails,
              Forget, ForgetDisplays, TakeTerminals, TakeDisplays, Close

LEMMA LingerKept ==
    ASSUME TypeOK, OpeningInv, UnbornInv, LingerInv, ~SlowOpens, Next
    PROVE  LingerInv'
<1> USE DEF TypeOK, Jobs, Clients, Writers, LingerInv, OpeningInv, UnbornInv, Unborn, vars,
       projectVars, sessionVars, clientVars, deskVars
<1>1. ASSUME NEW s \in Sessions, CloseRuns(s) PROVE LingerInv'
    BY <1>1, AccessAssumption DEF CloseRuns, HangUp, Hung, Unlisted
<1>2. ASSUME NEW s \in Sessions, ChildExits(s) PROVE LingerInv'
    BY <1>2, AccessAssumption DEF ChildExits
<1>3. ASSUME NEW s \in Sessions, LingerOver(s) PROVE LingerInv'
    BY <1>3, AccessAssumption DEF LingerOver, WritersOn
<1>4. ASSUME NEW c \in Clients, NEW s \in Sessions, TerminalStarts(c, s) PROVE LingerInv'
    BY <1>4, AccessAssumption DEF TerminalStarts
<1>5. ASSUME NEW c \in Clients, NEW s \in Sessions, Join(c, s) PROVE LingerInv'
    BY <1>5, AccessAssumption DEF Join, Allowed
<1>6. ASSUME NEW c \in Clients, NEW ended \in BOOLEAN, Leave(c, ended) PROVE LingerInv'
    BY <1>6, AccessAssumption DEF Leave, WritersOn
<1>7. ASSUME NEW j \in Jobs, HangUpNext(j) PROVE LingerInv'
    BY <1>7, AccessAssumption DEF HangUpNext, HangUp, Hung, Unlisted
<1>8. CASE UNCHANGED <<lingering, at>>
    BY <1>8
<1> HIDE DEF TypeOK, LingerInv
<1> QED
    BY <1>1, <1>2, <1>3, <1>4, <1>5, <1>6, <1>7, <1>8
       DEF Next, JobStep, AtRest, OpenTerminal, TerminalFails, OpenDisplay, DisplayShows,
              DisplayEnds, HungUp, CutNext, EndExam, EndTerminals, FinalEval, EvalEnds,
              ExamPut, CloseRequest, Reap, ReapStarts, CloseBegins, CloseStops, StopFails,
              Forget, ForgetDisplays, TakeTerminals, TakeDisplays, Close

LEMMA HeldKept ==
    ASSUME TypeOK, OpeningInv, UnbornInv, ClosedInv, LingerInv, JobInv, HeldInv, ~SlowOpens, Next
    PROVE  HeldInv'
<1> USE DEF TypeOK, Jobs, Clients, Writers, HeldInv, CanType, OpeningInv, UnbornInv, Unborn,
       ClosedInv, LingerInv, JobInv, vars, projectVars, sessionVars, clientVars, deskVars
<1>1. ASSUME NEW s \in Sessions, CloseRuns(s) PROVE HeldInv'
    BY <1>1, AccessAssumption DEF CloseRuns, HangUp, Hung, Unlisted
<1>2. ASSUME NEW s \in Sessions, ChildExits(s) PROVE HeldInv'
    BY <1>2, AccessAssumption DEF ChildExits
<1>3. ASSUME NEW c \in Clients, NEW s \in Sessions, OpenTerminal(c, s) PROVE HeldInv'
    BY <1>3, AccessAssumption DEF OpenTerminal, MakeRoom, Allowed
<1>4. ASSUME NEW c \in Clients, NEW s \in Sessions, TerminalStarts(c, s) PROVE HeldInv'
    BY <1>4, AccessAssumption DEF TerminalStarts
<1>5. ASSUME NEW c \in Clients, NEW s \in Sessions, TerminalFails(c, s) PROVE HeldInv'
    BY <1>5, AccessAssumption DEF TerminalFails
<1>6. ASSUME NEW c \in Clients, NEW s \in Sessions, Join(c, s) PROVE HeldInv'
    BY <1>6, AccessAssumption DEF Join, Allowed
<1>7. ASSUME NEW c \in Clients, NEW ended \in BOOLEAN, Leave(c, ended) PROVE HeldInv'
    BY <1>7, AccessAssumption DEF Leave, WritersOn
<1>8. ASSUME NEW j \in Jobs, HangUpNext(j) PROVE HeldInv'
    BY <1>8, AccessAssumption DEF HangUpNext, HangUp, Hung, Unlisted
<1>9. ASSUME EndExam PROVE HeldInv'
    BY <1>9, AccessAssumption DEF EndExam, TakeTerminals, MayBegin, Opening
<1>10. ASSUME CloseBegins PROVE HeldInv'
    BY <1>10, AccessAssumption DEF CloseBegins, LockFree, MayBegin, Opening, TakeTerminals
<1>11. ASSUME Forget PROVE HeldInv'
    BY <1>11, AccessAssumption DEF Forget, TakeTerminals
<1>12. CASE UNCHANGED <<shell, at, listed, left>>
    BY <1>12
<1> HIDE DEF TypeOK, HeldInv
<1> QED
    BY <1>1, <1>2, <1>3, <1>4, <1>5, <1>6, <1>7, <1>8, <1>9, <1>10, <1>11, <1>12
       DEF Next, JobStep, AtRest, LingerOver, OpenDisplay, DisplayShows, DisplayEnds,
              HungUp, CutNext, EndTerminals, FinalEval, EvalEnds, ExamPut, CloseRequest,
              Reap, ReapStarts, CloseStops, StopFails, ForgetDisplays, TakeDisplays, Close

LEMMA JobKept ==
    ASSUME TypeOK, JobInv, ~SlowOpens, Next
    PROVE  JobInv'
<1> USE DEF TypeOK, Jobs, Clients, Writers, JobInv, vars, projectVars, sessionVars,
       clientVars, deskVars
<1>1. ASSUME NEW s \in Sessions, CloseRuns(s) PROVE JobInv'
    BY <1>1, AccessAssumption DEF CloseRuns, HangUp, Hung, Unlisted
<1>2. ASSUME NEW s \in Sessions, ChildExits(s) PROVE JobInv'
    BY <1>2, AccessAssumption DEF ChildExits
<1>3. ASSUME NEW c \in Clients, NEW s \in Sessions, OpenTerminal(c, s) PROVE JobInv'
    BY <1>3, AccessAssumption DEF OpenTerminal, MakeRoom, Allowed
<1>4. ASSUME NEW c \in Clients, NEW s \in Sessions, TerminalStarts(c, s) PROVE JobInv'
    BY <1>4, AccessAssumption DEF TerminalStarts
<1>5. ASSUME NEW c \in Clients, NEW s \in Sessions, TerminalFails(c, s) PROVE JobInv'
    BY <1>5, AccessAssumption DEF TerminalFails
<1>6. ASSUME NEW c \in Clients, DisplayEnds(c) PROVE JobInv'
    BY <1>6, AccessAssumption DEF DisplayEnds
<1>7. ASSUME NEW j \in Jobs, HangUpNext(j) PROVE JobInv'
    BY <1>7, AccessAssumption DEF HangUpNext, HangUp, Hung, Unlisted
<1>8. ASSUME NEW j \in Jobs, CutNext(j) PROVE JobInv'
    BY <1>8, AccessAssumption DEF CutNext
<1>9. ASSUME EndExam PROVE JobInv'
    BY <1>9, AccessAssumption DEF EndExam, TakeTerminals, MayBegin, Opening
<1>10. ASSUME EndTerminals PROVE JobInv'
    BY <1>10, AccessAssumption DEF EndTerminals, TerminalsGone, TakeDisplays
<1>11. ASSUME FinalEval PROVE JobInv'
    BY <1>11, AccessAssumption DEF FinalEval, LockFree
<1>12. ASSUME EvalEnds PROVE JobInv'
    BY <1>12, AccessAssumption DEF EvalEnds
<1>13. ASSUME ExamPut PROVE JobInv'
    BY <1>13, AccessAssumption DEF ExamPut
<1>14. ASSUME CloseRequest PROVE JobInv'
    BY <1>14, AccessAssumption DEF CloseRequest, Close
<1>15. ASSUME ReapStarts PROVE JobInv'
    BY <1>15, AccessAssumption DEF ReapStarts, Close
<1>16. ASSUME CloseBegins PROVE JobInv'
    BY <1>16, AccessAssumption DEF CloseBegins, LockFree, MayBegin, Opening, TakeTerminals
<1>17. ASSUME CloseStops PROVE JobInv'
    BY <1>17, AccessAssumption DEF CloseStops, TerminalsGone
<1>18. ASSUME StopFails PROVE JobInv'
    BY <1>18, AccessAssumption DEF StopFails
<1>19. ASSUME Forget PROVE JobInv'
    BY <1>19, AccessAssumption DEF Forget, TakeTerminals
<1>20. ASSUME ForgetDisplays PROVE JobInv'
    BY <1>20, AccessAssumption DEF ForgetDisplays, TerminalsGone, TakeDisplays
<1>21. CASE UNCHANGED <<closing, job, left, cut, listed, opening, exam>>
    BY <1>21
<1> HIDE DEF TypeOK, JobInv
<1> QED
    BY <1>1, <1>2, <1>3, <1>4, <1>5, <1>6, <1>7, <1>8, <1>9, <1>10, <1>11, <1>12, <1>13,
           <1>14, <1>15, <1>16, <1>17, <1>18, <1>19, <1>20, <1>21
       DEF Next, JobStep, AtRest, LingerOver, Join, Leave, OpenDisplay, DisplayShows,
              HungUp, Reap

LEMMA IdleKept ==
    ASSUME TypeOK, UnbornInv, OpeningInv, ClosedInv, IdleInv, Next
    PROVE  IdleInv'
<1> USE DEF TypeOK, Jobs, Clients, Writers, IdleInv, OpeningInv, UnbornInv, Unborn, ClosedInv,
       vars, projectVars, sessionVars, clientVars, deskVars
<1>1. ASSUME NEW s \in Sessions, CloseRuns(s) PROVE IdleInv'
    BY <1>1, AccessAssumption DEF CloseRuns, HangUp, Hung, Unlisted
<1>2. ASSUME NEW s \in Sessions, ChildExits(s) PROVE IdleInv'
    BY <1>2, AccessAssumption DEF ChildExits
<1>3. ASSUME NEW s \in Sessions, LingerOver(s) PROVE IdleInv'
    BY <1>3, AccessAssumption DEF LingerOver, WritersOn
<1>4. ASSUME NEW c \in Clients, NEW s \in Sessions, OpenTerminal(c, s) PROVE IdleInv'
    BY <1>4, AccessAssumption DEF OpenTerminal, MakeRoom, Allowed
<1>5. ASSUME NEW c \in Clients, NEW s \in Sessions, TerminalStarts(c, s) PROVE IdleInv'
    BY <1>5, AccessAssumption DEF TerminalStarts
<1>6. ASSUME NEW c \in Clients, NEW s \in Sessions, TerminalFails(c, s) PROVE IdleInv'
    BY <1>6, AccessAssumption DEF TerminalFails
<1>7. ASSUME NEW c \in Clients, NEW s \in Sessions, Join(c, s) PROVE IdleInv'
    BY <1>7, AccessAssumption DEF Join, Allowed
<1>8. ASSUME NEW c \in Clients, NEW ended \in BOOLEAN, Leave(c, ended) PROVE IdleInv'
    BY <1>8, AccessAssumption DEF Leave, WritersOn
<1>9. ASSUME NEW j \in Jobs, HangUpNext(j) PROVE IdleInv'
    BY <1>9, AccessAssumption DEF HangUpNext, HangUp, Hung, Unlisted
<1>10. CASE UNCHANGED <<shell, at, lingering, doomed>>
    BY <1>10
<1> HIDE DEF TypeOK, IdleInv
<1> QED
    BY <1>1, <1>2, <1>3, <1>4, <1>5, <1>6, <1>7, <1>8, <1>9, <1>10
       DEF Next, JobStep, AtRest, OpenDisplay, DisplayShows, DisplayEnds, HungUp, CutNext,
              EndExam, EndTerminals, FinalEval, EvalEnds, ExamPut, CloseRequest, Reap,
              ReapStarts, CloseBegins, CloseStops, StopFails, Forget, ForgetDisplays,
              TakeTerminals, TakeDisplays, Close

LEMMA ShownKept ==
    ASSUME TypeOK, JobInv, ShownInv, ~SlowOpens, Next
    PROVE  ShownInv'
<1> USE DEF TypeOK, Jobs, Clients, Writers, ShownInv, CanSee, JobInv, vars, projectVars,
       sessionVars, clientVars, deskVars
<1>1. ASSUME NEW c \in Clients, OpenDisplay(c) PROVE ShownInv'
    BY <1>1, AccessAssumption DEF OpenDisplay, Allowed
<1>2. ASSUME NEW c \in Clients, DisplayShows(c) PROVE ShownInv'
    BY <1>2, AccessAssumption DEF DisplayShows
<1>3. ASSUME NEW c \in Clients, DisplayEnds(c) PROVE ShownInv'
    BY <1>3, AccessAssumption DEF DisplayEnds
<1>4. ASSUME NEW j \in Jobs, CutNext(j) PROVE ShownInv'
    BY <1>4, AccessAssumption DEF CutNext
<1>5. ASSUME EndTerminals PROVE ShownInv'
    BY <1>5, AccessAssumption DEF EndTerminals, TerminalsGone, TakeDisplays
<1>6. ASSUME ForgetDisplays PROVE ShownInv'
    BY <1>6, AccessAssumption DEF ForgetDisplays, TerminalsGone, TakeDisplays
<1>7. CASE UNCHANGED <<desk, shown, cut>>
    BY <1>7
<1> HIDE DEF TypeOK, ShownInv
<1> QED
    BY <1>1, <1>2, <1>3, <1>4, <1>5, <1>6, <1>7
       DEF Next, JobStep, AtRest, CloseRuns, ChildExits, LingerOver, OpenTerminal,
              TerminalStarts, TerminalFails, Join, Leave, HangUpNext, HungUp, EndExam,
              FinalEval, EvalEnds, ExamPut, CloseRequest, Reap, ReapStarts, CloseBegins,
              CloseStops, StopFails, Forget, HangUp, TakeTerminals, Close

LEMMA OverKept ==
    ASSUME TypeOK, OpeningInv, UnbornInv, ClosedInv, ShownInv, JobInv, OverInv, ~SlowOpens, Next
    PROVE  OverInv'
<1> USE DEF TypeOK, Jobs, Clients, Writers, OverInv, CanType, CanSee, ShownInv, OpeningInv,
       UnbornInv, Unborn, ClosedInv, JobInv, vars, projectVars, sessionVars, clientVars,
       deskVars
<1>1. ASSUME NEW s \in Sessions, CloseRuns(s) PROVE OverInv'
    BY <1>1, AccessAssumption DEF CloseRuns, HangUp, Hung, Unlisted
<1>2. ASSUME NEW s \in Sessions, ChildExits(s) PROVE OverInv'
    BY <1>2, AccessAssumption DEF ChildExits
<1>3. ASSUME NEW c \in Clients, NEW s \in Sessions, OpenTerminal(c, s) PROVE OverInv'
    BY <1>3, AccessAssumption DEF OpenTerminal, MakeRoom, Allowed
<1>4. ASSUME NEW c \in Clients, NEW s \in Sessions, TerminalStarts(c, s) PROVE OverInv'
    BY <1>4, AccessAssumption DEF TerminalStarts
<1>5. ASSUME NEW c \in Clients, NEW s \in Sessions, TerminalFails(c, s) PROVE OverInv'
    BY <1>5, AccessAssumption DEF TerminalFails
<1>6. ASSUME NEW c \in Clients, NEW s \in Sessions, Join(c, s) PROVE OverInv'
    BY <1>6, AccessAssumption DEF Join, Allowed
<1>7. ASSUME NEW c \in Clients, NEW ended \in BOOLEAN, Leave(c, ended) PROVE OverInv'
    BY <1>7, AccessAssumption DEF Leave, WritersOn
<1>8. ASSUME NEW c \in Clients, OpenDisplay(c) PROVE OverInv'
    BY <1>8, AccessAssumption DEF OpenDisplay, Allowed
<1>9. ASSUME NEW c \in Clients, DisplayShows(c) PROVE OverInv'
    BY <1>9, AccessAssumption DEF DisplayShows
<1>10. ASSUME NEW c \in Clients, DisplayEnds(c) PROVE OverInv'
    BY <1>10, AccessAssumption DEF DisplayEnds
<1>11. ASSUME NEW j \in Jobs, HangUpNext(j) PROVE OverInv'
    BY <1>11, AccessAssumption DEF HangUpNext, HangUp, Hung, Unlisted
<1>12. ASSUME NEW j \in Jobs, CutNext(j) PROVE OverInv'
    BY <1>12, AccessAssumption DEF CutNext
<1>13. ASSUME EndExam PROVE OverInv'
    BY <1>13, AccessAssumption DEF EndExam, TakeTerminals, MayBegin, Opening
<1>14. ASSUME EndTerminals PROVE OverInv'
    BY <1>14, AccessAssumption DEF EndTerminals, TerminalsGone, TakeDisplays
<1>15. ASSUME FinalEval PROVE OverInv'
    BY <1>15, AccessAssumption DEF FinalEval, LockFree
<1>16. ASSUME EvalEnds PROVE OverInv'
    BY <1>16, AccessAssumption DEF EvalEnds
<1>17. ASSUME ExamPut PROVE OverInv'
    BY <1>17, AccessAssumption DEF ExamPut
<1>18. ASSUME CloseRequest PROVE OverInv'
    BY <1>18, AccessAssumption DEF CloseRequest, Close
<1>19. ASSUME ReapStarts PROVE OverInv'
    BY <1>19, AccessAssumption DEF ReapStarts, Close
<1>20. ASSUME CloseBegins PROVE OverInv'
    BY <1>20, AccessAssumption DEF CloseBegins, LockFree, MayBegin, Opening, TakeTerminals
<1>21. ASSUME CloseStops PROVE OverInv'
    BY <1>21, AccessAssumption DEF CloseStops, TerminalsGone
<1>22. ASSUME StopFails PROVE OverInv'
    BY <1>22, AccessAssumption DEF StopFails
<1>23. ASSUME Forget PROVE OverInv'
    BY <1>23, AccessAssumption DEF Forget, TakeTerminals
<1>24. ASSUME ForgetDisplays PROVE OverInv'
    BY <1>24, AccessAssumption DEF ForgetDisplays, TerminalsGone, TakeDisplays
<1>25. CASE UNCHANGED <<exam, opening, desk, shell, at, listed, cut, shown, job>>
    BY <1>25
<1> HIDE DEF TypeOK, OverInv
<1> QED
    BY <1>1, <1>2, <1>3, <1>4, <1>5, <1>6, <1>7, <1>8, <1>9, <1>10, <1>11, <1>12, <1>13,
           <1>14, <1>15, <1>16, <1>17, <1>18, <1>19, <1>20, <1>21, <1>22, <1>23, <1>24,
           <1>25
       DEF Next, JobStep, AtRest, LingerOver, HungUp, Reap

-----------------------------------------------------------------------------
\* The cap.

LEMMA SessionsFinite == \A S \in SUBSET Sessions : IsFiniteSet(S) /\ Cardinality(S) \in Nat
BY AccessAssumption, FS_Subset, FS_CardinalityType

LEMMA OneMore ==
    ASSUME NEW S \in SUBSET Sessions, NEW s \in Sessions
    PROVE  Cardinality(S \cup {s}) <= Cardinality(S) + 1
BY SessionsFinite, FS_AddElement

\* Only a new terminal makes the list longer, by one.
LEMMA ListGrows ==
    ASSUME TypeOK, Next
    PROVE  \/ listed' \subseteq listed
           \/ \E room \in SUBSET Sessions, s \in Sessions :
                 MakeRoom(room) /\ listed' = (listed \ room) \cup {s}
<1> USE DEF TypeOK, vars, projectVars, sessionVars, clientVars, deskVars
<1>1. ASSUME NEW s \in Sessions, CloseRuns(s) PROVE listed' \subseteq listed
    BY <1>1 DEF CloseRuns, HangUp, Hung, Unlisted
<1>2. ASSUME NEW s \in Sessions, ChildExits(s) PROVE listed' \subseteq listed
    BY <1>2 DEF ChildExits
<1>3. ASSUME NEW c \in Clients, NEW s \in Sessions, OpenTerminal(c, s)
      PROVE  \E room \in SUBSET Sessions, t \in Sessions :
                MakeRoom(room) /\ listed' = (listed \ room) \cup {t}
    BY <1>3 DEF OpenTerminal
<1>4. ASSUME NEW c \in Clients, NEW s \in Sessions, TerminalFails(c, s)
      PROVE  listed' \subseteq listed
    BY <1>4 DEF TerminalFails
<1>5. ASSUME NEW j \in Jobs, HangUpNext(j) PROVE listed' \subseteq listed
    BY <1>5 DEF HangUpNext, HangUp, Hung, Unlisted
<1>6. ASSUME EndExam PROVE listed' \subseteq listed
    BY <1>6 DEF EndExam, TakeTerminals, MayBegin, Opening
<1>7. ASSUME CloseBegins PROVE listed' \subseteq listed
    BY <1>7 DEF CloseBegins, LockFree, MayBegin, Opening, TakeTerminals
<1>8. ASSUME Forget PROVE listed' \subseteq listed
    BY <1>8 DEF Forget, TakeTerminals
<1>9. CASE UNCHANGED listed
    BY <1>9
<1> QED
    BY <1>1, <1>2, <1>3, <1>4, <1>5, <1>6, <1>7, <1>8, <1>9
       DEF Next, JobStep, AtRest, LingerOver, TerminalStarts, Join, Leave, OpenDisplay,
              DisplayShows, DisplayEnds, HungUp, CutNext, EndTerminals, FinalEval, EvalEnds,
              ExamPut, CloseRequest, Reap, ReapStarts, CloseStops, StopFails,
              ForgetDisplays, Close, TakeDisplays

LEMMA CapKept ==
    ASSUME TypeOK, CapHolds, Next
    PROVE  CapHolds'
<1> USE AccessAssumption, SessionsFinite DEF TypeOK, CapHolds
<1>1. CASE listed' \subseteq listed
    BY <1>1, FS_Subset
<1>2. ASSUME NEW room \in SUBSET Sessions, NEW s \in Sessions,
             MakeRoom(room), listed' = (listed \ room) \cup {s}
      PROVE  CapHolds'
  <2>1. Cardinality(listed \ room) < MaxTerminals
    <3>1. CASE Cardinality(listed) >= MaxTerminals
        BY <1>2, <3>1 DEF MakeRoom
    <3>2. CASE ~(Cardinality(listed) >= MaxTerminals)
      <4>1. room = {} /\ listed \ room = listed
          BY <1>2, <3>2 DEF MakeRoom
      <4> QED
          BY <3>2, <4>1
    <3> QED
        BY <3>1, <3>2
  <2>2. Cardinality((listed \ room) \cup {s}) <= Cardinality(listed \ room) + 1
      BY OneMore
  <2>3. /\ Cardinality(listed \ room) \in Nat
        /\ Cardinality((listed \ room) \cup {s}) \in Nat
      BY SessionsFinite
  <2> QED
      BY <1>2, <2>1, <2>2, <2>3
<1> QED
    BY <1>1, <1>2, ListGrows

-----------------------------------------------------------------------------
\* The strengthening, and what follows from it.

AccessInv ==
    /\ TypeOK
    /\ OpeningInv /\ UnbornInv /\ ClosedInv /\ LingerInv
    /\ HeldInv /\ IdleInv /\ ShownInv /\ JobInv /\ OverInv

LEMMA InitHolds == Init => AccessInv /\ CapHolds
<1> SUFFICES ASSUME Init PROVE AccessInv /\ CapHolds
    OBVIOUS
<1> USE AccessAssumption DEF Init, Clients, Writers, Jobs
<1>1. TypeOK
    BY DEF TypeOK, Shells
<1>2. OpeningInv /\ UnbornInv /\ ClosedInv /\ LingerInv
    BY DEF OpeningInv, UnbornInv, Unborn, ClosedInv, LingerInv
<1>3. HeldInv /\ IdleInv /\ ShownInv /\ JobInv /\ OverInv
    BY DEF HeldInv, IdleInv, ShownInv, JobInv, OverInv, CanType, CanSee
<1>4. CapHolds
    BY FS_EmptySet DEF CapHolds
<1> QED
    BY <1>1, <1>2, <1>3, <1>4 DEF AccessInv

LEMMA InvKept ==
    ASSUME ~SlowOpens, AccessInv, [Next]_vars
    PROVE  AccessInv'
<1>1. CASE Next
    BY <1>1, TypeKept, OpeningKept, UnbornKept, ClosedKept, LingerKept, HeldKept, IdleKept,
       ShownKept, JobKept, OverKept
       DEF AccessInv
<1>2. CASE UNCHANGED vars
  <2> USE <1>2 DEF vars, AccessInv
  <2>1. TypeOK'
      BY DEF TypeOK
  <2>2. OpeningInv' /\ UnbornInv' /\ ClosedInv' /\ LingerInv'
      BY DEF OpeningInv, UnbornInv, Unborn, ClosedInv, LingerInv
  <2>3. HeldInv' /\ IdleInv' /\ ShownInv' /\ JobInv' /\ OverInv'
      BY DEF HeldInv, IdleInv, ShownInv, JobInv, OverInv, CanType, CanSee
  <2> QED
      BY <2>1, <2>2, <2>3
<1> QED
    BY <1>1, <1>2

LEMMA InvAlways ==
    ASSUME ~SlowOpens
    PROVE  Spec => []AccessInv
BY InitHolds, InvKept, PTL DEF Spec

\* Every variable of the sessions, the browsers and the jobs keeps the shape
\* the code of the agent gives it.
THEOREM AccessTyped == Spec => []TypeOK
<1>1. Init => TypeOK
    BY InitHolds DEF AccessInv
<1>2. TypeOK /\ [Next]_vars => TypeOK'
  <2>1. ASSUME TypeOK, UNCHANGED vars PROVE TypeOK'
      BY <2>1 DEF TypeOK, vars
  <2> QED
      BY <2>1, TypeKept
<1> QED
    BY <1>1, <1>2, PTL DEF Spec

\* However evictions, closes and exits interleave, and however slowly terminals
\* open, a project never has more of them than its cap (terminal_ws,
\* _evict_lingering).
THEOREM CapCorrect == Spec => []CapHolds
<1>1. Init => CapHolds
    BY InitHolds
<1>2. TypeOK /\ CapHolds /\ [Next]_vars => CapHolds'
  <2>1. ASSUME CapHolds, UNCHANGED vars PROVE CapHolds'
      BY <2>1 DEF CapHolds, vars
  <2> QED
      BY <2>1, CapKept
<1> QED
    BY <1>1, <1>2, AccessTyped, PTL DEF Spec

\* While the final evaluation of an ended exam runs (end_exam), no student types
\* into a terminal or sees the desktop; nothing opens while the end or the close
\* takes its lists.
THEOREM CutOffCorrect ==
    ASSUME ~SlowOpens
    PROVE  Spec => []StudentCutOff
<1>1. AccessInv => StudentCutOff
  <2> SUFFICES ASSUME AccessInv, job["end"] = "eval", exam = "over", NEW c \in Students
               PROVE  ~CanType(c) /\ ~CanSee(c)
      BY DEF StudentCutOff
  <2>1. left["end"] = {} /\ left["close"] = {} /\ cut["end"] = {} /\ cut["close"] = {}
      BY DEF AccessInv, JobInv
  <2>2. ~CanType(c)
      BY <2>1 DEF AccessInv, HeldInv, OverInv, Writers
  <2>3. ~CanSee(c)
      BY <2>1 DEF AccessInv, OverInv, CanSee
  <2> QED
      BY <2>2, <2>3
<1> QED
    BY <1>1, InvAlways, PTL

\* No shell is lost by the agent: the list of the project has the one somebody
\* types into, or a hang-up of it is on its way, and the one nobody types into
\* lingers or is about to be closed (terminal_ws, detach, _linger_expired,
\* _evict_lingering, _close_terminals).
THEOREM ShellsAreKnown ==
    ASSUME ~SlowOpens
    PROVE  Spec => []NoShellIsLost
<1>1. AccessInv => NoShellIsLost
  <2> SUFFICES ASSUME AccessInv, NEW s \in Sessions, shell[s] = "up"
               PROVE  IF WritersOn(s, at) = {} THEN s \in lingering \cup doomed
                      ELSE s \in listed \cup doomed \cup left["end"] \cup left["close"]
      BY DEF NoShellIsLost
  <2>1. ASSUME WritersOn(s, at) = {} PROVE s \in lingering \cup doomed
      BY <2>1 DEF WritersOn, AccessInv, IdleInv
  <2>2. ASSUME WritersOn(s, at) # {}
        PROVE  s \in listed \cup left["end"] \cup left["close"]
    <3>1. PICK c \in Writers : at[c] = s
        BY <2>2 DEF WritersOn
    <3>2. CanType(c)
        BY <3>1, AccessAssumption DEF CanType
    <3> QED
        BY <3>1, <3>2 DEF AccessInv, HeldInv
  <2> QED
      BY <2>1, <2>2
<1> QED
    BY <1>1, InvAlways, PTL

\* The idle reaper never decides to close a project under somebody who types in
\* it (_reap_if_idle).
THEOREM NotReapedCorrect ==
    ASSUME ~SlowOpens
    PROVE  Spec => TypistsAreNotReaped
<1>1. ASSUME AccessInv, Reap, NEW c \in Writers, CanType(c)
      PROVE  at[c] \in left["end"]
  <2>1. left["close"] = {} /\ listed \subseteq lingering
      BY <1>1 DEF Reap, AccessInv, JobInv
  <2>2. at[c] \notin listed
      BY <1>1, <2>1 DEF AccessInv, LingerInv
  <2> QED
      BY <1>1, <2>1, <2>2 DEF AccessInv, HeldInv
<1>2. AccessInv => (Reap => \A c \in Writers : CanType(c) => at[c] \in left["end"])
    BY <1>1
<1> QED
    BY <1>2, InvAlways, PTL DEF TypistsAreNotReaped, Spec

-----------------------------------------------------------------------------
\* After the end, nothing starts for the student: no session he waits for or is in
\* comes up, no desktop of his is connected.

LEMMA NobodyEnters ==
    ASSUME AccessInv, Next, exam = "over", NEW c \in Students
    PROVE  (CanType(c)' => CanType(c)) /\ (CanSee(c)' => CanSee(c))
<1> USE DEF projectVars, sessionVars, clientVars, deskVars
<1>1. c \in Clients /\ c \in Writers /\ c \notin Teachers
    BY AccessAssumption DEF Clients, Writers
<1>2. /\ opening[c] = Nothing /\ desk[c] # "opening"
      /\ at[c] \notin Unborn
    BY <1>1 DEF AccessInv, OverInv, UnbornInv
<1>3. at[c] \in Sessions \cup {Nothing} /\ Nothing \notin Sessions
    BY <1>1, AccessAssumption DEF AccessInv, TypeOK
<1>4. at'[c] \in {at[c], Nothing}
  <2>1. ASSUME NEW d \in Clients, NEW s \in Sessions,
               OpenTerminal(d, s) \/ TerminalStarts(d, s) \/ TerminalFails(d, s) \/ Join(d, s)
        PROVE  at'[c] = at[c]
      BY <1>1, <1>2, <1>3, <2>1
         DEF OpenTerminal, TerminalStarts, TerminalFails, Join, Allowed, AccessInv, TypeOK
  <2>2. ASSUME NEW d \in Clients, NEW ended \in BOOLEAN, Leave(d, ended)
        PROVE  at'[c] \in {at[c], Nothing}
      BY <1>1, <2>2 DEF Leave, AccessInv, TypeOK
  <2>3. CASE UNCHANGED at
      BY <2>3
  <2> QED
      BY <2>1, <2>2, <2>3
         DEF Next, JobStep, AtRest, CloseRuns, ChildExits, LingerOver, OpenDisplay, DisplayShows,
             DisplayEnds, HangUpNext, HungUp, CutNext, EndExam, EndTerminals, FinalEval, EvalEnds,
             ExamPut, CloseRequest, Reap, ReapStarts, CloseBegins, CloseStops, StopFails, Forget,
             ForgetDisplays, Close, vars
<1>5. ASSUME at[c] \in Sessions, shell'[at[c]] = "up" PROVE shell[at[c]] = "up"
  <2> DEFINE s == at[c]
  <2>1. shell[s] \in {"up", "hung", "gone"}
      BY <1>2, <1>5 DEF Unborn, AccessInv, TypeOK, Shells
  <2>2. ASSUME NEW d \in Clients, NEW r \in Sessions, TerminalStarts(d, r)
        PROVE  shell'[s] = shell[s]
    <3>1. shell[r] = "starting"
        BY <1>3, <2>2 DEF TerminalStarts, AccessInv, OpeningInv
    <3> QED
        BY <1>5, <2>1, <2>2, <3>1 DEF TerminalStarts, AccessInv, TypeOK
  <2>3. ASSUME NEW d \in Clients, NEW r \in Sessions,
               OpenTerminal(d, r) \/ TerminalFails(d, r) \/ Join(d, r)
        PROVE  shell'[s] \in {shell[s], "starting", "gone"}
      BY <1>5, <2>3 DEF OpenTerminal, TerminalFails, Join, AccessInv, TypeOK
  <2>4. ASSUME NEW r \in Sessions, CloseRuns(r) \/ ChildExits(r)
        PROVE  shell'[s] \in {shell[s], "hung", "gone"}
      BY <1>5, <2>4 DEF CloseRuns, ChildExits, HangUp, Hung, AccessInv, TypeOK
  <2>5. ASSUME NEW j \in Jobs, HangUpNext(j)
        PROVE  shell'[s] \in {shell[s], "hung"}
      BY <1>5, <2>5 DEF HangUpNext, HangUp, Hung, AccessInv, TypeOK
  <2>6. CASE UNCHANGED shell
      BY <1>5, <2>6
  <2> QED
      BY <1>5, <2>2, <2>3, <2>4, <2>5, <2>6
         DEF Next, JobStep, AtRest, LingerOver, Leave, OpenDisplay, DisplayShows,
             DisplayEnds, HungUp, CutNext, EndExam, EndTerminals, FinalEval, EvalEnds,
             ExamPut, CloseRequest, Reap, ReapStarts, CloseBegins, CloseStops, StopFails, Forget,
             ForgetDisplays, Close, vars
<1>6. desk'[c] = "on" => desk[c] = "on"
  <2>1. ASSUME NEW d \in Clients, OpenDisplay(d) \/ DisplayShows(d) \/ DisplayEnds(d)
        PROVE  desk'[c] = "on" => desk[c] = "on"
      BY <1>1, <1>2, <2>1 DEF OpenDisplay, DisplayShows, DisplayEnds, AccessInv, TypeOK
  <2>2. ASSUME NEW j \in Jobs, CutNext(j)
        PROVE  desk'[c] = "on" => desk[c] = "on"
      BY <1>1, <2>2 DEF CutNext, AccessInv, TypeOK
  <2>3. CASE UNCHANGED desk
      BY <2>3
  <2> QED
      BY <2>1, <2>2, <2>3
         DEF Next, JobStep, AtRest, CloseRuns, ChildExits, LingerOver, OpenTerminal,
             TerminalStarts, TerminalFails, Join, Leave, HangUpNext, HungUp, EndExam,
             EndTerminals, FinalEval, EvalEnds, ExamPut, CloseRequest, Reap, ReapStarts,
             CloseBegins, CloseStops, StopFails, Forget, ForgetDisplays, Close, vars
<1>7. CanType(c)' => CanType(c)
    BY <1>1, <1>3, <1>4, <1>5 DEF CanType
<1> QED
    BY <1>6, <1>7 DEF CanSee

\* From the end of the exam on the student gets no shell and no desktop he did not
\* have (end_exam, check_exam_action), whatever terminals instructors open after it and
\* closes do meanwhile, if nothing was opening when it ended.
THEOREM NobodyReturnsCorrect ==
    ASSUME ~SlowOpens
    PROVE  Spec => NobodyReturns
<1>1. ASSUME AccessInv, [Next]_vars, exam = "over", NEW c \in Students
      PROVE  (CanType(c)' => CanType(c)) /\ (CanSee(c)' => CanSee(c))
  <2>1. CASE UNCHANGED vars
      BY <2>1 DEF vars, CanType, CanSee
  <2> QED
      BY <1>1, <2>1, NobodyEnters
<1>2. AccessInv /\ [Next]_vars =>
          [exam = "over" /\ exam' = "over" =>
              \A c \in Students : (CanType(c)' => CanType(c)) /\ (CanSee(c)' => CanSee(c))]_vars
    BY <1>1
<1> QED
    BY <1>2, InvAlways, PTL DEF NobodyReturns, Spec

-----------------------------------------------------------------------------
\* A job that waits for a child waits for one that was hung up.
WaitsInv == \A j \in Jobs : waits[j] # Nothing => shell[waits[j]] \in {"hung", "gone"}

LEMMA WaitsKept ==
    ASSUME AccessInv, WaitsInv, Next
    PROVE  WaitsInv'
<1> USE DEF AccessInv, TypeOK, OpeningInv, WaitsInv, vars, projectVars, sessionVars, clientVars,
       deskVars
<1>1. ASSUME NEW s \in Sessions, CloseRuns(s) PROVE WaitsInv'
    BY <1>1 DEF CloseRuns, HangUp, Hung
<1>2. ASSUME NEW s \in Sessions, ChildExits(s) PROVE WaitsInv'
    BY <1>2 DEF ChildExits
<1>3. ASSUME NEW c \in Clients, NEW s \in Sessions, OpenTerminal(c, s) PROVE WaitsInv'
    BY <1>3 DEF OpenTerminal
<1>4. ASSUME NEW c \in Clients, NEW s \in Sessions,
             TerminalStarts(c, s) \/ TerminalFails(c, s)
      PROVE  WaitsInv'
    BY <1>4, AccessAssumption DEF TerminalStarts, TerminalFails
<1>5. ASSUME NEW j \in Jobs, HangUpNext(j) PROVE WaitsInv'
    BY <1>5, AccessAssumption DEF HangUpNext, HangUp, Hung
<1>6. ASSUME NEW j \in Jobs, HungUp(j) PROVE WaitsInv'
    BY <1>6 DEF HungUp
<1>7. CASE UNCHANGED <<shell, waits>>
    BY <1>7
<1> HIDE DEF TypeOK, WaitsInv
<1> QED
    BY <1>1, <1>2, <1>3, <1>4, <1>5, <1>6, <1>7
       DEF Next, JobStep, AtRest, LingerOver, Join, Leave, OpenDisplay, DisplayShows,
              DisplayEnds, CutNext, EndExam, EndTerminals, FinalEval, EvalEnds, ExamPut,
              CloseRequest, Reap, ReapStarts, CloseBegins, CloseStops, StopFails, Forget,
              ForgetDisplays, TakeTerminals, TakeDisplays, Close

\* The end of the exam, or the close, that waits in the middle of the terminals
\* waits for a child whose master is closed, which exits by itself or is killed
\* (_close_terminals, PtySession.close), whoever hangs up, opens or leaves meanwhile.
THEOREM WaitsEnd ==
    ASSUME ~SlowOpens
    PROVE  Spec => []WaitsInv
<1>1. Init => WaitsInv
    BY DEF Init, WaitsInv
<1>2. AccessInv /\ WaitsInv /\ [Next]_vars => WaitsInv'
  <2>1. ASSUME WaitsInv, UNCHANGED vars PROVE WaitsInv'
      BY <2>1 DEF WaitsInv, vars
  <2> QED
      BY <2>1, WaitsKept
<1> QED
    BY <1>1, <1>2, InvAlways, PTL DEF Spec
=============================================================================
