------------------------------ MODULE AgentExam ------------------------------
(***************************************************************************)
(* The exam life cycle of one project on an agent: the object the portal   *)
(* sets on it, the cut-off and the final evaluation at its end, the        *)
(* periodic evaluation, the idle reaper, the closing of the project and    *)
(* the project lock they all take (src/sreweb/agent: schedulers.py,        *)
(* exam.py, the handlers of app.py, the state file of registry.py).        *)
(*                                                                         *)
(* The agent is one asyncio loop: what runs between two awaits is one      *)
(* action.  Instants are kept as what the code compares them with the      *)
(* present for: an end is "ahead" or "reached", a timer is running or      *)
(* over.                                                                   *)
(***************************************************************************)
EXTENDS Naturals, Sequences

CONSTANTS
    NoExam,          \* the value of project.exam for a plain project
    ExamInterval,    \* whether the exams ask for a periodic evaluation
    LabInterval,     \* whether the lab asks for one outside the exams
    EvalBeforeExit,  \* the lab's eval_before_exit
    Reaps,           \* whether the idle timeout is positive
    PutWhileEnding,  \* whether the portal changes the exam while its end runs
    MaxRestarts      \* bound: restarts of the agent in a behaviour

Exams == [end: {"unset", "ahead", "reached"}, ended: BOOLEAN, final: BOOLEAN]

ASSUME ConstantsAssumption ==
    /\ NoExam \notin Exams
    /\ {ExamInterval, LabInterval, EvalBeforeExit, Reaps, PutWhileEnding} \subseteq BOOLEAN
    /\ MaxRestarts \in Nat

VARIABLES
    exam,        \* project.exam
    saved,       \* the exam in the state file
    ending,      \* project.exam_ending
    retry,       \* project.exam_retry_at: none, running, over
    nextEval,    \* project.next_eval_at: none, running, over
    idle,        \* whether the idle clock is past the timeout
    pages,       \* project.subscribers, by who opened the page
    closing,     \* project.closing
    gone,        \* sre stop succeeded: the directory is removed
    planned,     \* the coroutines a tick handed to the loop, not started yet
    pc,          \* where each coroutine that takes the project lock is
    holder,      \* who holds project.lock
    queue,       \* who waits for it, in order
    restarts,
    sinceEnd,    \* history: the final evaluation running began after ended_at
    graded,      \* history: one that began after the last ended_at succeeded
    closeTried   \* history: close_project ran its own evaluation

lockVars == <<holder, queue>>
history == <<sinceEnd, graded, closeTried>>
vars == <<exam, saved, ending, retry, nextEval, idle, pages, closing, gone, planned,
          pc, holder, queue, restarts, sinceEnd, graded, closeTried>>

Jobs == {"end", "close", "periodic", "user"}
Nobody == "nobody"
Timers == {"none", "running", "over"}
InSre == {"hangup", "eval", "stop"}   \* the places reached with the lock held
PCs == InSre \cup {"off", "cutting", "waiting", "telling", "dead"}

-----------------------------------------------------------------------------
\* The exam of a project.

Over(e) == e # NoExam /\ e.ended
Running(e) == e # NoExam /\ ~e.ended

\* Schedulers.eval_interval, as whether there is one.
HasInterval(e) ==
    IF e = NoExam THEN LabInterval ELSE ~e.ended /\ e.end # "unset" /\ ExamInterval

\* Schedulers.arm.
Arm(e) == nextEval' = IF HasInterval(e) THEN "running" ELSE "none"

\* Seeded fault: only a failed evaluation of this very process is owed.
EndDueAfterFailureOnly ==
    /\ exam # NoExam
    /\ ~ending
    /\ IF exam.ended THEN ~exam.final /\ retry = "over" ELSE exam.end = "reached"

\* Seeded fault: an end waits for a page of the project to be open.
EndDueWhileWatched ==
    /\ exam # NoExam
    /\ ~ending
    /\ IF exam.ended THEN ~exam.final /\ retry # "running"
       ELSE exam.end = "reached" /\ pages # {}

\* Seeded fault: an end finally evaluated is due again.
EndDueAgain ==
    /\ exam # NoExam
    /\ ~ending
    /\ IF exam.ended THEN retry # "running" ELSE exam.end = "reached"

\* Schedulers.exam_end_due.
EndDue ==
    /\ exam # NoExam
    /\ ~ending
    /\ IF exam.ended THEN ~exam.final /\ retry # "running" ELSE exam.end = "reached"

\* The exam as the passing of time makes it.
Aged(e) == IF e # NoExam /\ e.end = "ahead" THEN [e EXCEPT !.end = "reached"] ELSE e

\* Seeded faults: the stored object loses a field; the end recorded is always
\* dropped; a resumed exam keeps the mark of its final evaluation.
ReplacedShort(old, end) == [end |-> end, ended |-> Over(old)]
ReplacedAfresh(old, end) == [end |-> end, ended |-> FALSE, final |-> FALSE]
ReplacedKeepingFinal(old, end) ==
    [end |-> end, ended |-> Over(old) /\ end # "ahead", final |-> Over(old) /\ old.final]

\* What exam_put stores for a new end: an ended exam stays ended unless the
\* new end is in the future.
Replaced(old, end) ==
    IF Over(old) /\ end # "ahead"
    THEN [end |-> end, ended |-> TRUE, final |-> old.final]
    ELSE [end |-> end, ended |-> FALSE, final |-> FALSE]

-----------------------------------------------------------------------------
(***************************************************************************)
(* project.lock, an asyncio.Lock: first come, first served; a release      *)
(* leaves it unlocked until the first waiter runs again, and nobody        *)
(* overtakes that waiter.                                                  *)
(***************************************************************************)

Free == holder = Nobody /\ queue = <<>>

\* Seeded fault: the coroutine goes on without the lock.
LockIgnored(job, at) ==
    /\ pc' = [pc EXCEPT ![job] = at]
    /\ holder' = job
    /\ UNCHANGED queue

\* async with project.lock: the coroutine goes on at `at` at once or waits.
Lock(job, at) ==
    IF Free
    THEN /\ holder' = job
         /\ pc' = [pc EXCEPT ![job] = at]
         /\ UNCHANGED queue
    ELSE /\ queue' = Append(queue, job)
         /\ pc' = [pc EXCEPT ![job] = "waiting"]
         /\ UNCHANGED holder

Unlock(job, at) ==
    /\ holder' = Nobody
    /\ pc' = [pc EXCEPT ![job] = at]
    /\ UNCHANGED queue

\* Seeded fault: the end of an exam evaluates a project that closed meanwhile.
GrantWhateverClosed ==
    /\ holder = Nobody
    /\ queue # <<>>
    /\ queue' = Tail(queue)
    /\ LET job == Head(queue)
           void == job = "end" /\ exam = NoExam
       IN  /\ holder' = IF void THEN Nobody ELSE job
           /\ pc' = [pc EXCEPT ![job] = IF void THEN "off"
                                        ELSE IF job = "close" THEN "hangup" ELSE "eval"]
           /\ ending' = IF void THEN FALSE ELSE ending
           /\ sinceEnd' = IF job = "end" /\ ~void THEN exam.ended ELSE sinceEnd
    /\ UNCHANGED <<exam, saved, retry, nextEval, idle, pages, closing, gone, planned,
                   restarts, graded, closeTried>>

\* The first waiter wakes up; the end of an exam finds nothing to evaluate on a
\* project that is closing or has no exam any more.
Grant ==
    /\ holder = Nobody
    /\ queue # <<>>
    /\ queue' = Tail(queue)
    /\ LET job == Head(queue)
           void == job = "end" /\ (closing \/ exam = NoExam)
       IN  /\ holder' = IF void THEN Nobody ELSE job
           /\ pc' = [pc EXCEPT ![job] = IF void THEN "off"
                                        ELSE IF job = "close" THEN "hangup" ELSE "eval"]
           /\ ending' = IF void THEN FALSE ELSE ending
           /\ sinceEnd' = IF job = "end" /\ ~void THEN exam.ended ELSE sinceEnd
    /\ UNCHANGED <<exam, saved, retry, nextEval, idle, pages, closing, gone, planned,
                   restarts, graded, closeTried>>

-----------------------------------------------------------------------------
(***************************************************************************)
(* Registry.tick and Schedulers.on_tick: what is due is handed to the loop *)
(* with ensure_future, in this order, and starts before the next tick.     *)
(***************************************************************************)

Reapable ==
    /\ ~Running(exam)
    /\ Reaps
    /\ idle
    /\ pages \ (IF Over(exam) THEN {"owner"} ELSE {}) = {}
    /\ holder = Nobody

PeriodicDue == nextEval = "over" /\ HasInterval(exam) /\ holder = Nobody

Tick ==
    /\ ~closing
    /\ ~gone
    /\ planned = {}
    /\ planned' = {job \in {"end", "periodic", "close"} :
                      \/ job = "end" /\ EndDue
                      \/ job = "periodic" /\ PeriodicDue
                      \/ job = "close" /\ Reapable}
    /\ IF nextEval = "over" THEN Arm(exam) ELSE UNCHANGED nextEval
    /\ UNCHANGED <<exam, saved, ending, retry, idle, pages, closing, gone, pc,
                   lockVars, restarts, history>>

-----------------------------------------------------------------------------
\* Schedulers.end_exam, checked again at its start.

\* The first await of the end of an exam: ended_at is written, the idle clock
\* starts again and no periodic evaluation is left.
EndExam ==
    /\ "end" \in planned
    /\ EndDue
    /\ ~exam.ended
    /\ planned' = planned \ {"end"}
    /\ exam' = [exam EXCEPT !.ended = TRUE]
    /\ saved' = exam'
    /\ ending' = TRUE
    /\ idle' = FALSE
    /\ Arm(exam')
    /\ pc' = [pc EXCEPT !["end"] = "cutting"]
    /\ graded' = FALSE
    /\ sinceEnd' = FALSE
    /\ UNCHANGED <<retry, pages, closing, gone, lockVars, restarts, closeTried>>

\* A final evaluation still owed goes straight to the lock.
ResumeEnd ==
    /\ "end" \in planned
    /\ EndDue
    /\ exam.ended
    /\ planned' = planned \ {"end"}
    /\ IF Free /\ closing
       THEN UNCHANGED <<ending, pc, lockVars, sinceEnd>>
       ELSE /\ ending' = TRUE
            /\ Lock("end", "eval")
            /\ sinceEnd' = IF Free THEN TRUE ELSE sinceEnd
    /\ UNCHANGED <<exam, saved, retry, nextEval, idle, pages, closing, gone,
                   restarts, graded, closeTried>>

EndNotDue ==
    /\ "end" \in planned
    /\ ~EndDue
    /\ planned' = planned \ {"end"}
    /\ UNCHANGED <<exam, saved, ending, retry, nextEval, idle, pages, closing, gone, pc,
                   lockVars, restarts, history>>

\* The terminals and the displays are closed, the pages told (_exam_changed);
\* then the lock.
CutOff ==
    /\ pc["end"] = "cutting"
    /\ Arm(exam)
    /\ saved' = exam
    /\ IF Free /\ (closing \/ exam = NoExam)
       THEN /\ ending' = FALSE
            /\ pc' = [pc EXCEPT !["end"] = "off"]
            /\ UNCHANGED <<lockVars, sinceEnd>>
       ELSE /\ Lock("end", "eval")
            /\ sinceEnd' = IF Free THEN exam.ended ELSE sinceEnd
            /\ UNCHANGED ending
    /\ UNCHANGED <<exam, retry, idle, pages, closing, gone, planned, restarts, graded,
                   closeTried>>

\* final_eval_at is written on whatever exam the project has by then; on a
\* project whose exam was removed meanwhile the assignment raises TypeError.
FinalEvalSucceeds ==
    /\ pc["end"] = "eval"
    /\ IF exam = NoExam
       THEN /\ Unlock("end", "off")
            /\ ending' = FALSE
            /\ UNCHANGED <<exam, saved, retry>>
       ELSE /\ Unlock("end", "telling")
            /\ exam' = [exam EXCEPT !.final = TRUE]
            /\ saved' = exam'
            /\ retry' = "none"
            /\ UNCHANGED ending
    /\ graded' = (graded \/ sinceEnd)
    /\ sinceEnd' = FALSE
    /\ UNCHANGED <<nextEval, idle, pages, closing, gone, planned, restarts, closeTried>>

FinalEvalFails ==
    /\ pc["end"] = "eval"
    /\ retry' = "running"
    /\ ending' = FALSE
    /\ Unlock("end", "off")
    /\ sinceEnd' = FALSE
    /\ UNCHANGED <<exam, saved, nextEval, idle, pages, closing, gone, planned, restarts,
                   graded, closeTried>>

\* on_evaluated is awaited after the lock, still inside the try.
EndTold ==
    /\ pc["end"] = "telling"
    /\ ending' = FALSE
    /\ pc' = [pc EXCEPT !["end"] = "off"]
    /\ UNCHANGED <<exam, saved, retry, nextEval, idle, pages, closing, gone, planned,
                   lockVars, restarts, history>>

-----------------------------------------------------------------------------
\* Schedulers._run_eval, after the end of an exam planned by the same tick.
\* Bound: one periodic evaluation at a time waits for the lock.
StartPeriodicEval ==
    /\ "periodic" \in planned
    /\ "end" \notin planned
    /\ planned' = planned \ {"periodic"}
    /\ IF holder # Nobody \/ closing \/ pc["periodic"] # "off"
       THEN UNCHANGED <<pc, lockVars>>
       ELSE Lock("periodic", "eval")
    /\ UNCHANGED <<exam, saved, ending, retry, nextEval, idle, pages, closing, gone,
                   restarts, history>>

\* The evaluation ended, or sre failed: neither leaves a trace on the project.
EvalDone(job) ==
    /\ job \in {"periodic", "user"}
    /\ pc[job] = "eval"
    /\ Unlock(job, "off")
    /\ UNCHANGED <<exam, saved, ending, retry, nextEval, idle, pages, closing, gone, planned,
                   restarts, history>>

\* eval_post and state_post: 404 while closing, 409 when the lock is held, and
\* for the owner of an exam project; an instructor is privileged.
\* Bound: one such command at a time.
UserCommand(privileged) ==
    /\ ~closing
    /\ pc["user"] = "off"
    /\ holder = Nobody
    /\ privileged \/ exam = NoExam
    /\ idle' = FALSE
    /\ Lock("user", "eval")
    /\ UNCHANGED <<exam, saved, ending, retry, nextEval, pages, closing, gone, planned,
                   restarts, history>>

-----------------------------------------------------------------------------
\* Schedulers.close_project.

Close ==
    /\ closing' = TRUE
    /\ Lock("close", "hangup")
    /\ closeTried' = FALSE
    /\ UNCHANGED <<exam, saved, ending, retry, nextEval, pages, gone, restarts, sinceEnd, graded>>

\* What the reaper planned; nothing when the project is closing already.
Reap ==
    /\ planned = {"close"}
    /\ planned' = {}
    /\ UNCHANGED idle
    /\ IF closing
       THEN UNCHANGED <<exam, saved, ending, retry, nextEval, pages, closing, gone, pc,
                        lockVars, restarts, history>>
       ELSE Close

\* project_close: the owner (refused on an exam project), or an instructor.
CloseRequest(privileged) ==
    /\ ~closing
    /\ privileged \/ exam = NoExam
    /\ idle' = FALSE
    /\ Close
    /\ UNCHANGED planned

\* Application.close_managed_projects: the agent stops; an exam in progress is
\* closed only when the whole machine goes down.
StopRequest(systemStopping) ==
    /\ ~closing
    /\ systemStopping \/ ~Running(exam)
    /\ Close
    /\ UNCHANGED <<idle, planned>>

\* Seeded fault: the lab alone decides, the exam is not looked at.
HungUpByLab ==
    /\ pc["close"] = "hangup"
    /\ pc' = [pc EXCEPT !["close"] = IF EvalBeforeExit THEN "eval" ELSE "stop"]
    /\ closeTried' = EvalBeforeExit
    /\ UNCHANGED <<exam, saved, ending, retry, nextEval, idle, pages, closing, gone, planned,
                   lockVars, restarts, sinceEnd, graded>>

\* The terminals are closed; then whether to evaluate is decided.
HungUp ==
    /\ pc["close"] = "hangup"
    /\ LET evaluate == IF exam # NoExam THEN ~exam.ended ELSE EvalBeforeExit
       IN  /\ pc' = [pc EXCEPT !["close"] = IF evaluate THEN "eval" ELSE "stop"]
           /\ closeTried' = evaluate
    /\ UNCHANGED <<exam, saved, ending, retry, nextEval, idle, pages, closing, gone, planned,
                   lockVars, restarts, sinceEnd, graded>>

\* A failed evaluation (CommandError) is only logged.
CloseEvaluated ==
    /\ pc["close"] = "eval"
    /\ pc' = [pc EXCEPT !["close"] = "stop"]
    /\ UNCHANGED <<exam, saved, ending, retry, nextEval, idle, pages, closing, gone, planned,
                   lockVars, restarts, history>>

Stopped ==
    /\ pc["close"] = "stop"
    /\ gone' = TRUE
    /\ Unlock("close", "off")
    /\ UNCHANGED <<exam, saved, ending, retry, nextEval, idle, pages, closing, planned,
                   restarts, history>>

\* Seeded fault: a project whose sre stop failed stays closing.
StopFailsForGood ==
    /\ pc["close"] = "stop"
    /\ Unlock("close", "off")
    /\ UNCHANGED <<exam, saved, ending, retry, nextEval, idle, pages, closing, gone, planned,
                   restarts, history>>

StopFails ==
    /\ pc["close"] = "stop"
    /\ closing' = FALSE
    /\ Unlock("close", "off")
    /\ UNCHANGED <<exam, saved, ending, retry, nextEval, idle, pages, gone, planned,
                   restarts, history>>

\* sre cannot be run at all (FileNotFoundError): nobody catches it and
\* project.closing stays set.
CloseDies ==
    /\ pc["close"] \in {"eval", "stop"}
    /\ Unlock("close", "dead")
    /\ UNCHANGED <<exam, saved, ending, retry, nextEval, idle, pages, closing, gone, planned,
                   restarts, history>>

-----------------------------------------------------------------------------
\* The portal: exam_put and exam_delete, then _exam_changed.

MayChangeExam == ~closing /\ (PutWhileEnding \/ ~ending)

\* Seeded fault: the state file is left as it was.
ExamChangedUnsaved(e) ==
    /\ exam' = e
    /\ retry' = "none"
    /\ Arm(e)
    /\ UNCHANGED <<saved, ending, idle, pages, closing, gone, planned, pc, lockVars, restarts,
                   history>>

ExamChanged(e) ==
    /\ exam' = e
    /\ saved' = e
    /\ retry' = "none"
    /\ Arm(e)
    /\ UNCHANGED <<ending, idle, pages, closing, gone, planned, pc, lockVars, restarts, history>>

ExamPut(end) == MayChangeExam /\ ExamChanged(Replaced(exam, end))

ExamDelete == MayChangeExam /\ exam # NoExam /\ ExamChanged(NoExam)

-----------------------------------------------------------------------------
\* The pages: events_ws and the idle clock (Application._project).  The owner
\* of an ended exam does not start the clock again.

Touches(who) == ~(who = "owner" /\ Over(exam))

PageOpens(who) ==
    /\ ~closing
    /\ who \notin pages
    /\ pages' = pages \cup {who}
    /\ idle' = IF Touches(who) THEN FALSE ELSE idle
    /\ UNCHANGED <<exam, saved, ending, retry, nextEval, closing, gone, planned, pc,
                   lockVars, restarts, history>>

PageCloses(who) ==
    /\ who \in pages
    /\ pages' = pages \ {who}
    /\ UNCHANGED <<exam, saved, ending, retry, nextEval, idle, closing, gone, planned, pc,
                   lockVars, restarts, history>>

\* A frame of a page starts the clock again, whoever sent it.
PageSpeaks(who) ==
    /\ who \in pages
    /\ idle' = FALSE
    /\ UNCHANGED <<exam, saved, ending, retry, nextEval, pages, closing, gone, planned, pc,
                   lockVars, restarts, history>>

-----------------------------------------------------------------------------
\* Time.

EndComes ==
    /\ ~gone
    /\ exam # Aged(exam)
    /\ exam' = Aged(exam)
    /\ saved' = Aged(saved)
    /\ UNCHANGED <<ending, retry, nextEval, idle, pages, closing, gone, planned, pc,
                   lockVars, restarts, history>>

RetryElapses ==
    /\ ~gone
    /\ retry = "running"
    /\ retry' = "over"
    /\ UNCHANGED <<exam, saved, ending, nextEval, idle, pages, closing, gone, planned, pc,
                   lockVars, restarts, history>>

IntervalElapses ==
    /\ ~gone
    /\ nextEval = "running"
    /\ nextEval' = "over"
    /\ UNCHANGED <<exam, saved, ending, retry, idle, pages, closing, gone, planned, pc,
                   lockVars, restarts, history>>

IdleElapses ==
    /\ ~gone
    /\ ~idle
    /\ idle' = TRUE
    /\ UNCHANGED <<exam, saved, ending, retry, nextEval, pages, closing, gone, planned, pc,
                   lockVars, restarts, history>>

\* info.json changed (Registry.refresh_info): the next evaluation is planned again.
InfoChanges ==
    /\ ~gone
    /\ Arm(exam)
    /\ UNCHANGED <<exam, saved, ending, retry, idle, pages, closing, gone, planned, pc,
                   lockVars, restarts, history>>

-----------------------------------------------------------------------------
\* The agent dies at any point, its sre commands with it, and comes back: the
\* registry finds the project again (_new_project, _load_state, arm).  The
\* stored idle clock is the one the state file holds.
Restart ==
    /\ ~gone
    /\ restarts < MaxRestarts
    /\ restarts' = restarts + 1
    /\ exam' = saved
    /\ Arm(saved)
    /\ ending' = FALSE
    /\ retry' = "none"
    /\ pages' = {}
    /\ closing' = FALSE
    /\ planned' = {}
    /\ pc' = [job \in Jobs |-> "off"]
    /\ holder' = Nobody
    /\ queue' = <<>>
    /\ sinceEnd' = FALSE
    /\ UNCHANGED <<saved, idle, gone, graded, closeTried>>

\* Nothing happens to the project any more: the registry forgot it, or the
\* close died and every request and tick ignores a closing project.
AtRest == (gone \/ pc["close"] = "dead") /\ UNCHANGED vars

-----------------------------------------------------------------------------
\* A project just adopted (_stream_creation), plain or with its exam.
Init ==
    /\ exam \in {NoExam} \cup [end: {"unset", "ahead"}, ended: {FALSE}, final: {FALSE}]
    /\ saved = exam
    /\ ending = FALSE
    /\ retry = "none"
    /\ nextEval = IF HasInterval(exam) THEN "running" ELSE "none"
    /\ idle = FALSE
    /\ pages = {}
    /\ closing = FALSE
    /\ gone = FALSE
    /\ planned = {}
    /\ pc = [job \in Jobs |-> "off"]
    /\ holder = Nobody
    /\ queue = <<>>
    /\ restarts = 0
    /\ sinceEnd = FALSE
    /\ graded = FALSE
    /\ closeTried = FALSE

\* What the loop of the agent does by itself.
EndStep == EndExam \/ ResumeEnd \/ EndNotDue \/ CutOff \/ EndTold
CloseStep == Reap \/ HungUp \/ CloseEvaluated \/ Stopped \/ StopFails \/ CloseDies
Elapses == EndComes \/ RetryElapses \/ IntervalElapses \/ IdleElapses

Next ==
    \/ Tick
    \/ Grant
    \/ EndStep
    \/ FinalEvalSucceeds
    \/ FinalEvalFails
    \/ StartPeriodicEval
    \/ \E job \in {"periodic", "user"} : EvalDone(job)
    \/ \E privileged \in BOOLEAN : UserCommand(privileged) \/ CloseRequest(privileged)
    \/ \E stopping \in BOOLEAN : StopRequest(stopping)
    \/ CloseStep
    \/ \E end \in {"unset", "ahead", "reached"} : ExamPut(end)
    \/ ExamDelete
    \/ \E who \in {"owner", "instructor"} : PageOpens(who) \/ PageCloses(who) \/ PageSpeaks(who)
    \/ InfoChanges
    \/ Elapses
    \/ Restart
    \/ AtRest

Spec == Init /\ [][Next]_vars

-----------------------------------------------------------------------------
\* Every variable keeps the shape the code gives it.
TypeOK ==
    /\ exam \in Exams \cup {NoExam}
    /\ saved \in Exams \cup {NoExam}
    /\ ending \in BOOLEAN
    /\ retry \in Timers
    /\ nextEval \in Timers
    /\ idle \in BOOLEAN
    /\ pages \subseteq {"owner", "instructor"}
    /\ closing \in BOOLEAN
    /\ gone \in BOOLEAN
    /\ planned \subseteq {"end", "periodic", "close"}
    /\ pc \in [Jobs -> PCs]
    /\ holder \in Jobs \cup {Nobody}
    /\ queue \in Seq(Jobs)
    /\ restarts \in 0..MaxRestarts
    /\ sinceEnd \in BOOLEAN
    /\ graded \in BOOLEAN
    /\ closeTried \in BOOLEAN

-----------------------------------------------------------------------------
\* Two sre commands never run on the project at once: a command is only inside
\* sre while its coroutine holds project.lock (schedulers.py: "Everything that
\* runs sre on a project takes its lock").
OneCommand == \A job \in Jobs : pc[job] \in InSre => holder = job

\* Once sre stop succeeded no sre command runs on the project any more, those
\* that waited for the lock behind it included.
StoppedIsQuiet == gone => \A job \in Jobs : pc[job] \notin InSre

\* A restart loses nothing of the exam: whenever the loop yields, the state
\* file holds the exam of the project.
StateFileCurrent == saved = exam

\* A recorded final evaluation is the end's: the exam is over, and an
\* evaluation that began after ended_at was recorded succeeded.
FinalMeansEvaluated ==
    exam # NoExam /\ exam.final => exam.ended /\ graded

\* A final evaluation is recorded once for each end: a resume and its new end,
\* failures, retries and restarts between them never have an exam evaluated
\* again, or marked, that was or that is not over (end_exam, exam_end_due).
MarkedOnce ==
    [][FinalEvalSucceeds /\ exam # NoExam => exam.ended /\ ~exam.final]_vars

\* A project stopped before the end of its exam was evaluated by the close.
StoppedExamWasEvaluated == gone /\ Running(exam) => closeTried

\* A project stopped after the end of its exam got its final evaluation
\* (close_project: "one closed after the end got its final evaluation already").
StoppedExamIsFinal == gone /\ Over(exam) => exam.final

\* The end of an exam stands, across restarts too: only the portal undoes it,
\* with an end in the future or by removing the exam.
EndStands ==
    [][Over(exam) => exam' = NoExam \/ exam'.ended \/ exam'.end = "ahead"]_vars

\* The exam as the portal sees it: what ExamContract speaks of.
Phase ==
    IF exam = NoExam THEN "plain"
    ELSE IF ~exam.ended THEN "running"
    ELSE IF exam.final THEN "final" ELSE "over"

Contract == INSTANCE ExamContract WITH phase <- Phase, tried <- closeTried, stopped <- gone

\* Whatever races for the lock and however often the agent dies, each step of
\* the agent is one of the contract or invisible to it: a restart never shows,
\* the final evaluation is the one of an exam that is over on a project that
\* still stands, and only the portal leads back.
ContractHolds == Contract!Spec

-----------------------------------------------------------------------------
\* Fairness: the loop runs what is ready, the timers fire, sre ends, and an
\* evaluation tried again and again succeeds in the end.  Nothing is assumed of
\* the portal, the users or the restarts.
Fairness ==
    /\ WF_vars(Tick)
    /\ WF_vars(Grant)
    /\ WF_vars(EndStep)
    /\ WF_vars(FinalEvalSucceeds \/ FinalEvalFails)
    /\ SF_vars(FinalEvalSucceeds)
    /\ WF_vars(StartPeriodicEval)
    /\ \A job \in {"periodic", "user"} : WF_vars(EvalDone(job))
    /\ WF_vars(CloseStep)
    /\ WF_vars(RetryElapses)

FairSpec == Spec /\ Fairness

\* An end that is reached is run, unless the portal moves or removes it or the
\* project closes.
EndIsRun ==
    (Running(exam) /\ exam.end = "reached")
        ~> (exam = NoExam \/ exam.ended \/ exam.end # "reached" \/ closing)

\* The final evaluation owed after the end is done in the end, whatever failed
\* and however often the agent restarted, unless the exam is resumed or removed
\* or the project closes.
FinalEvalIsDone ==
    (Over(exam) /\ ~exam.final) ~> (~Over(exam) \/ exam.final \/ closing)

\* A close that began ends: the project is stopped or open again, or sre cannot
\* be run on this host at all.
ClosingEnds == closing ~> (gone \/ ~closing \/ pc["close"] = "dead")
=============================================================================
