--------------------------- MODULE AgentExamSafety ---------------------------
(***************************************************************************)
(* The safety properties of AgentExam for every value of its constants:    *)
(* one sre command at a time, the quiet of a stopped project, the state    *)
(* file, the end that stands, the evaluation of a close, and a final       *)
(* evaluation recorded once and only for an exam that is over.             *)
(*                                                                         *)
(* The strengthening: a job is inside sre exactly when it holds the lock,  *)
(* the queue holds each waiting job once, and behind a close there is only *)
(* the end of the exam, which finds the project closing and gives up.      *)
(***************************************************************************)
EXTENDS AgentExamProofs

LockInv == \A job \in Jobs : pc[job] \in InSre <=> holder = job

QueueInv ==
    /\ \A i \in 1..Len(queue) : pc[queue[i]] = "waiting"
    /\ \A i, j \in 1..Len(queue) : queue[i] = queue[j] => i = j

\* Behind a close, waiting or holding, only the end of the exam waits.
BehindClose ==
    /\ \A i, j \in 1..Len(queue) : i < j /\ queue[i] = "close" => queue[j] = "end"
    /\ holder = "close" => \A i \in 1..Len(queue) : queue[i] = "end"

FlagInv ==
    /\ pc["end"] # "off" => ending
    /\ pc["close"] # "off" => closing
    /\ gone => /\ closing
               /\ pc["close"] = "off"
               /\ holder = Nobody
               /\ \A i \in 1..Len(queue) : queue[i] = "end"

LifeInv == LockInv /\ QueueInv /\ BehindClose /\ FlagInv

\* Past the decision of a close, an exam still running was evaluated by it.
CloseInv == pc["close"] = "stop" \/ pc["close"] = "eval" \/ gone => (Running(exam) => closeTried)

\* The end of an exam was written, its final evaluation is to come.
Ending == pc["end"] \in {"cutting", "waiting", "eval"}

\* Meanwhile the exam, if the project still has one, is over and not final; its
\* evaluation began after that.
EndInv ==
    /\ Ending /\ exam # NoExam => exam.ended /\ ~exam.final
    /\ pc["end"] = "eval" /\ exam # NoExam => sinceEnd

\* The portal does not give the project a running exam while an end is under way:
\* neither a resume of the exam nor, after its removal, another one.
Unresumed == Ending /\ Running(exam') => Running(exam)
NotResumed == [][Unresumed]_vars

\* The final evaluation of an exam that is over is still to be made.
Owed == Over(exam) /\ ~exam.final

-----------------------------------------------------------------------------
\* The lock.

LEMMA Places == InSre = {"hangup", "eval", "stop"} /\ "waiting" \notin InSre
                /\ "off" \notin InSre /\ "cutting" \notin InSre /\ "telling" \notin InSre
                /\ "dead" \notin InSre
BY DEF InSre

\* A job that comes for the lock, from outside, holds it or waits at the end
\* of the queue; only the end of the exam may come once a close did.
LEMMA LockKeeps ==
    ASSUME TypeOK, LockInv, QueueInv, BehindClose,
           NEW job \in Jobs, NEW at \in InSre, Lock(job, at),
           pc[job] \notin InSre, pc[job] # "waiting",
           job = "end" \/ (pc["close"] \notin InSre /\ pc["close"] # "waiting")
    PROVE  LockInv' /\ QueueInv' /\ BehindClose'
<1> USE Places, JobNames
<1>1. pc \in [Jobs -> PCs] /\ queue \in Seq(Jobs) /\ holder \in Jobs \cup {Nobody}
  BY DEF TypeOK
<1>2. CASE Free
  <2>1. holder' = job /\ pc' = [pc EXCEPT ![job] = at] /\ queue' = queue
    BY <1>2 DEF Lock
  <2>2. holder = Nobody /\ queue = <<>>
    BY <1>2 DEF Free
  <2>3. LockInv'
    BY <1>1, <2>1, <2>2 DEF LockInv
  <2>4. Len(queue') = 0
    BY <2>1, <2>2
  <2> QED BY <2>3, <2>4 DEF QueueInv, BehindClose
<1>3. CASE ~Free
  <2>1. holder' = holder /\ pc' = [pc EXCEPT ![job] = "waiting"] /\ queue' = Append(queue, job)
    BY <1>3 DEF Lock
  <2>2. holder # job
    BY DEF LockInv
  <2>3. LockInv'
    BY <1>1, <2>1, <2>2 DEF LockInv
  <2>4. /\ Len(queue) \in Nat /\ Len(queue') = Len(queue) + 1
        /\ queue'[Len(queue) + 1] = job
        /\ \A i \in 1..Len(queue) : queue'[i] = queue[i] /\ queue[i] \in Jobs
    BY <1>1, <2>1
  <2>5. \A i \in 1..Len(queue) : queue[i] # job
    BY DEF QueueInv
  <2>6. QueueInv'
    BY <1>1, <2>1, <2>4, <2>5 DEF QueueInv
  <2>7. job # "end" => holder # "close" /\ \A i \in 1..Len(queue) : queue[i] # "close"
    BY DEF LockInv, QueueInv
  <2>8. BehindClose'
    BY <2>1, <2>4, <2>7 DEF BehindClose
  <2> QED BY <2>3, <2>6, <2>8
<1> QED BY <1>2, <1>3

\* A job inside sre gives the lock back.
LEMMA UnlockKeeps ==
    ASSUME TypeOK, LockInv, QueueInv, BehindClose,
           NEW job \in Jobs, NEW at \in PCs, Unlock(job, at),
           pc[job] \in InSre, at \notin InSre, at # "waiting"
    PROVE  LockInv' /\ QueueInv' /\ BehindClose'
<1> USE Places, JobNames
<1>1. pc \in [Jobs -> PCs] /\ queue \in Seq(Jobs) /\ holder \in Jobs \cup {Nobody}
  BY DEF TypeOK
<1>2. holder' = Nobody /\ pc' = [pc EXCEPT ![job] = at] /\ queue' = queue
  BY DEF Unlock
<1>3. LockInv'
  BY <1>1, <1>2 DEF LockInv
<1>4. \A i \in 1..Len(queue) : queue[i] # job
  BY DEF QueueInv
<1>5. QueueInv'
  BY <1>1, <1>2, <1>4 DEF QueueInv
<1>6. BehindClose'
  BY <1>2 DEF BehindClose
<1> QED BY <1>3, <1>5, <1>6

\* A job that moves without touching the lock.
LEMMA MoveKeeps ==
    ASSUME TypeOK, LockInv, QueueInv, BehindClose,
           NEW job \in Jobs, NEW at \in PCs,
           pc' = [pc EXCEPT ![job] = at], UNCHANGED <<holder, queue>>,
           pc[job] # "waiting", at \in InSre <=> pc[job] \in InSre
    PROVE  LockInv' /\ QueueInv' /\ BehindClose'
<1> USE Places, JobNames
<1>1. pc \in [Jobs -> PCs] /\ queue \in Seq(Jobs)
  BY DEF TypeOK
<1>2. holder' = holder /\ queue' = queue
  OBVIOUS
<1>3. LockInv'
  BY <1>1, <1>2 DEF LockInv
<1>4. \A i \in 1..Len(queue) : queue[i] # job
  BY DEF QueueInv
<1>5. QueueInv'
  BY <1>1, <1>2, <1>4 DEF QueueInv
<1>6. BehindClose'
  BY <1>2 DEF BehindClose
<1> QED BY <1>3, <1>5, <1>6

\* Nobody moves.
LEMMA StillKeeps ==
    ASSUME LockInv, QueueInv, BehindClose, UNCHANGED <<pc, holder, queue>>
    PROVE  LockInv' /\ QueueInv' /\ BehindClose'
BY DEF LockInv, QueueInv, BehindClose

\* The first waiter runs again.
LEMMA GrantKeeps ==
    ASSUME TypeOK, LifeInv, Grant
    PROVE  LifeInv'
<1> USE Places, JobNames
<1> DEFINE first == Head(queue)
           void == first = "end" /\ (closing \/ exam = NoExam)
           at == IF void THEN "off" ELSE IF first = "close" THEN "hangup" ELSE "eval"
<1>1. pc \in [Jobs -> PCs] /\ queue \in Seq(Jobs) /\ queue # <<>>
  BY DEF TypeOK, Grant
<1>2. /\ holder' = (IF void THEN Nobody ELSE first)
      /\ pc' = [pc EXCEPT ![first] = at]
      /\ queue' = Tail(queue)
      /\ ending' = (IF void THEN FALSE ELSE ending)
      /\ closing' = closing /\ gone' = gone /\ holder = Nobody
  BY DEF Grant
<1>3. /\ Len(queue) \in Nat \ {0} /\ Len(queue') = Len(queue) - 1
      /\ first = queue[1] /\ first \in Jobs
      /\ \A i \in 1..Len(queue') : queue'[i] = queue[i + 1]
  BY <1>1, <1>2
<1> HIDE DEF first
<1>4. pc[first] = "waiting"
  BY <1>3 DEF LifeInv, QueueInv
<1>5. LockInv'
  BY <1>1, <1>2, <1>3, <1>4 DEF LifeInv, LockInv
<1>6. \A i \in 1..Len(queue') : i + 1 \in 1..Len(queue) /\ queue'[i] # first
  BY <1>3 DEF LifeInv, QueueInv
<1>7. \A i \in 1..Len(queue') : queue'[i] \in Jobs /\ pc'[queue'[i]] = "waiting"
  BY <1>1, <1>2, <1>3, <1>6 DEF LifeInv, QueueInv
<1>8. \A i, j \in 1..Len(queue') : queue'[i] = queue'[j] => i = j
  BY <1>3, <1>6 DEF LifeInv, QueueInv
<1>9. BehindClose'
  <2>1. \A i, j \in 1..Len(queue') : i < j /\ queue'[i] = "close" => queue'[j] = "end"
    BY <1>3, <1>6 DEF LifeInv, BehindClose
  <2>2. ASSUME first = "close", NEW i \in 1..Len(queue')
        PROVE  queue'[i] = "end"
    <3>1. 1 \in 1..Len(queue) /\ i + 1 \in 1..Len(queue) /\ 1 < i + 1 /\ queue[1] = "close"
      BY <1>3, <1>6, <2>2
    <3>2. queue[i + 1] = "end"
      BY <3>1 DEF LifeInv, BehindClose
    <3> QED BY <1>3, <3>2
  <2>3. holder' = "close" => first = "close"
    BY <1>2
  <2> QED BY <2>1, <2>2, <2>3 DEF BehindClose
<1>10. pc'["end"] # "off" => ending'
  BY <1>1, <1>2, <1>3, <1>4 DEF LifeInv, FlagInv
<1>11. pc'["close"] # "off" => closing'
  BY <1>1, <1>2, <1>3, <1>4 DEF LifeInv, FlagInv
<1>12. gone' => /\ closing' /\ pc'["close"] = "off" /\ holder' = Nobody
                /\ \A i \in 1..Len(queue') : queue'[i] = "end"
  BY <1>1, <1>2, <1>3, <1>4, <1>6 DEF LifeInv, FlagInv
<1> QED BY <1>5, <1>7, <1>8, <1>9, <1>10, <1>11, <1>12 DEF LifeInv, QueueInv, FlagInv

-----------------------------------------------------------------------------
\* The invariant of the jobs.

LEMMA LifeInit == Init => LifeInv
BY Places, JobNames DEF Init, LifeInv, LockInv, QueueInv, BehindClose, FlagInv

LEMMA LifeStep ==
    ASSUME TypeOK, LifeInv, [Next]_vars
    PROVE  LifeInv'
<1> USE Places, JobNames
<1>0. /\ pc \in [Jobs -> PCs] /\ queue \in Seq(Jobs) /\ holder \in Jobs \cup {Nobody}
      /\ LockInv /\ QueueInv /\ BehindClose /\ FlagInv
      /\ {"off", "telling", "dead", "waiting", "eval", "stop", "hangup"} \subseteq PCs
  BY DEF TypeOK, LifeInv, PCs
<1>1. ASSUME UNCHANGED <<pc, holder, queue, ending, closing, gone>>
      PROVE  LifeInv'
  <2>1. UNCHANGED <<pc, holder, queue>> /\ UNCHANGED <<ending, closing, gone>>
    BY <1>1
  <2>2. LockInv' /\ QueueInv' /\ BehindClose'
    BY <1>0, <2>1, StillKeeps
  <2>3. FlagInv'
    BY <1>0, <2>1 DEF FlagInv
  <2> QED BY <2>2, <2>3 DEF LifeInv
\* What follows for the flags from a job that comes for the lock.
<1>2. ASSUME NEW job \in Jobs, NEW at \in InSre, Lock(job, at), pc[job] = "off",
             ending' = ending, closing' = closing, gone' = gone, ~closing,
             job \notin {"end", "close"}
      PROVE  LifeInv'
  <2>1. pc["close"] = "off" /\ ~gone
    BY <1>0, <1>2 DEF FlagInv
  <2>2. LockInv' /\ QueueInv' /\ BehindClose'
    BY <1>0, <1>2, <2>1, LockKeeps
  <2>3. pc'["end"] = pc["end"] /\ pc'["close"] = pc["close"]
    BY <1>0, <1>2 DEF Lock
  <2>4. FlagInv'
    BY <1>0, <1>2, <2>1, <2>3 DEF FlagInv
  <2> QED BY <2>2, <2>4 DEF LifeInv
<1>3. ASSUME Lock("end", "eval"), pc["end"] \in {"off", "cutting"}, ending', closing' = closing,
             gone' = gone, gone => ~Free
      PROVE  LifeInv'
  <2>1. LockInv' /\ QueueInv' /\ BehindClose'
    BY <1>0, <1>3, LockKeeps
  <2>2. pc'["close"] = pc["close"]
    BY <1>0, <1>3 DEF Lock
  <2>3. gone => /\ holder' = holder
                /\ \A i \in 1..Len(queue') : queue'[i] = "end"
    BY <1>0, <1>3 DEF Lock, FlagInv
  <2>4. FlagInv'
    BY <1>0, <1>3, <2>2, <2>3 DEF FlagInv
  <2> QED BY <2>1, <2>4 DEF LifeInv
<1>4. ASSUME Close, ~closing
      PROVE  LifeInv'
  <2>1. pc["close"] = "off" /\ ~gone
    BY <1>0, <1>4 DEF FlagInv
  <2>2. Lock("close", "hangup") /\ closing' /\ gone' = gone /\ ending' = ending
    BY <1>4 DEF Close
  <2>3. LockInv' /\ QueueInv' /\ BehindClose'
    BY <1>0, <2>1, <2>2, LockKeeps
  <2>4. pc'["end"] = pc["end"]
    BY <1>0, <2>2 DEF Lock
  <2>5. FlagInv'
    BY <1>0, <2>1, <2>2, <2>4 DEF FlagInv
  <2> QED BY <2>3, <2>5 DEF LifeInv
\* A job other than the close gives the lock back.
<1>5. ASSUME NEW job \in Jobs \ {"close"}, NEW at \in {"off", "telling"}, Unlock(job, at),
             pc[job] \in InSre, closing' = closing, gone' = gone,
             ending' = ending \/ (job = "end" /\ at = "off")
      PROVE  LifeInv'
  <2>1. LockInv' /\ QueueInv' /\ BehindClose'
    BY <1>0, <1>5, UnlockKeeps
  <2>2. pc'["close"] = pc["close"] /\ ~gone
    BY <1>0, <1>5 DEF Unlock, FlagInv, LockInv
  <2>3. pc'["end"] # "off" => ending'
    BY <1>0, <1>5 DEF Unlock, FlagInv
  <2>4. FlagInv'
    BY <1>0, <1>5, <2>2, <2>3 DEF FlagInv
  <2> QED BY <2>1, <2>4 DEF LifeInv
\* A job moves and leaves the lock alone.
<1>6. ASSUME NEW job \in Jobs, NEW at \in PCs, pc' = [pc EXCEPT ![job] = at],
             UNCHANGED <<holder, queue, closing, gone>>,
             pc[job] # "waiting", at \in InSre <=> pc[job] \in InSre,
             job = "close" => closing /\ ~gone,
             pc'["end"] # "off" => ending'
      PROVE  LifeInv'
  <2>1. LockInv' /\ QueueInv' /\ BehindClose'
    BY <1>0, <1>6, MoveKeeps
  <2>2. job # "close" => pc'["close"] = pc["close"]
    BY <1>0, <1>6
  <2>3. UNCHANGED <<holder, queue>>
    BY <1>6
  <2>4. FlagInv'
    BY <1>0, <1>6, <2>2, <2>3 DEF FlagInv
  <2> QED BY <2>1, <2>4 DEF LifeInv
<1>7. CASE Tick
  BY <1>1, <1>7 DEF Tick, lockVars
<1>8. CASE Grant
  BY <1>8, GrantKeeps
<1>9. CASE EndExam
  <2>1. ~ending /\ pc["end"] = "off"
    BY <1>0, <1>9 DEF EndExam, EndDue, FlagInv
  <2>2. pc'["end"] # "off" => ending'
    BY <1>9 DEF EndExam
  <2>3. "cutting" \in PCs
    BY DEF PCs
  <2> QED BY <1>6, <1>9, <2>1, <2>2, <2>3 DEF EndExam, lockVars
<1>10. CASE ResumeEnd
  <2>1. ~ending /\ pc["end"] = "off"
    BY <1>0, <1>10 DEF ResumeEnd, EndDue, FlagInv
  <2>2. CASE Free /\ closing
    BY <1>1, <1>10, <2>2 DEF ResumeEnd, lockVars
  <2>3. CASE ~(Free /\ closing)
    <3>1. gone => ~Free
      BY <1>0, <2>3 DEF FlagInv
    <3> QED BY <1>3, <1>10, <2>1, <2>3, <3>1 DEF ResumeEnd
  <2> QED BY <2>2, <2>3
<1>11. CASE EndNotDue
  BY <1>1, <1>11 DEF EndNotDue, lockVars
<1>12. CASE CutOff
  <2>1. pc["end"] = "cutting" /\ closing' = closing /\ gone' = gone
    BY <1>12 DEF CutOff
  <2>2. CASE Free /\ (closing \/ exam = NoExam)
    <3>1. /\ pc' = [pc EXCEPT !["end"] = "off"]
          /\ UNCHANGED <<holder, queue, closing, gone>>
      BY <1>12, <2>2 DEF CutOff, lockVars
    <3>2. pc'["end"] = "off"
      BY <1>0, <3>1
    <3> QED BY <1>0, <1>6, <2>1, <3>1, <3>2
  <2>3. CASE ~(Free /\ (closing \/ exam = NoExam))
    <3>1. Lock("end", "eval") /\ ending' = ending
      BY <1>12, <2>3 DEF CutOff
    <3>2. ending /\ (gone => ~Free)
      BY <1>0, <2>1, <2>3 DEF FlagInv
    <3> QED BY <1>3, <2>1, <3>1, <3>2
  <2> QED BY <2>2, <2>3
<1>13. CASE FinalEvalSucceeds
  BY <1>5, <1>13 DEF FinalEvalSucceeds
<1>14. CASE FinalEvalFails
  BY <1>5, <1>14 DEF FinalEvalFails
<1>15. CASE EndTold
  <2>1. pc["end"] = "telling" /\ pc' = [pc EXCEPT !["end"] = "off"]
    BY <1>15 DEF EndTold
  <2>2. pc'["end"] = "off"
    BY <1>0, <2>1
  <2> QED BY <1>0, <1>6, <1>15, <2>1, <2>2 DEF EndTold, lockVars
<1>16. CASE StartPeriodicEval
  <2>1. CASE holder # Nobody \/ closing \/ pc["periodic"] # "off"
    BY <1>1, <1>16, <2>1 DEF StartPeriodicEval, lockVars
  <2>2. CASE ~(holder # Nobody \/ closing \/ pc["periodic"] # "off")
    BY <1>2, <1>16, <2>2 DEF StartPeriodicEval
  <2> QED BY <2>1, <2>2
<1>17. ASSUME NEW job \in {"periodic", "user"}, EvalDone(job)
       PROVE  LifeInv'
  BY <1>5, <1>17 DEF EvalDone
<1>18. ASSUME NEW privileged \in BOOLEAN, UserCommand(privileged)
       PROVE  LifeInv'
  BY <1>2, <1>18 DEF UserCommand
<1>19. ASSUME NEW privileged \in BOOLEAN, CloseRequest(privileged)
       PROVE  LifeInv'
  BY <1>4, <1>19 DEF CloseRequest
<1>20. ASSUME NEW stopping \in BOOLEAN, StopRequest(stopping)
       PROVE  LifeInv'
  BY <1>4, <1>20 DEF StopRequest
<1>21. CASE Reap
  BY <1>1, <1>4, <1>21 DEF Reap, lockVars
<1>22. CASE HungUp
  <2>1. closing /\ ~gone
    BY <1>0, <1>22 DEF HungUp, FlagInv
  <2>2. PICK at \in {"eval", "stop"} : pc' = [pc EXCEPT !["close"] = at]
    BY <1>22 DEF HungUp
  <2>3. pc'["end"] # "off" => ending'
    BY <1>0, <1>22, <2>2 DEF HungUp, FlagInv
  <2> QED BY <1>0, <1>6, <1>22, <2>1, <2>2, <2>3 DEF HungUp, lockVars
<1>23. CASE CloseEvaluated
  <2>1. closing /\ ~gone
    BY <1>0, <1>23 DEF CloseEvaluated, FlagInv
  <2>2. pc'["end"] # "off" => ending'
    BY <1>0, <1>23 DEF CloseEvaluated, FlagInv
  <2> QED BY <1>0, <1>6, <1>23, <2>1, <2>2 DEF CloseEvaluated, lockVars
<1>24. ASSUME NEW at \in {"off", "dead"}, Unlock("close", at), pc["close"] \in {"eval", "stop"},
              ending' = ending, pc'["close"] # "off" => closing',
              gone' => closing' /\ at = "off"
       PROVE  LifeInv'
  <2>1. LockInv' /\ QueueInv' /\ BehindClose'
    BY <1>0, <1>24, UnlockKeeps
  <2>2. holder = "close" /\ holder' = Nobody /\ queue' = queue /\ pc' = [pc EXCEPT !["close"] = at]
    BY <1>0, <1>24 DEF LockInv, Unlock
  <2>3. \A i \in 1..Len(queue) : queue[i] = "end"
    BY <1>0, <2>2 DEF BehindClose
  <2>4. FlagInv'
    BY <1>0, <1>24, <2>2, <2>3 DEF FlagInv
  <2> QED BY <2>1, <2>4 DEF LifeInv
<1>25. CASE Stopped
  BY <1>0, <1>24, <1>25 DEF Stopped, FlagInv
<1>26. CASE StopFails
  <2>1. ~gone /\ pc'["close"] = "off"
    BY <1>0, <1>26 DEF StopFails, FlagInv, Unlock
  <2> QED BY <1>24, <1>26, <2>1 DEF StopFails
<1>27. CASE CloseDies
  BY <1>0, <1>24, <1>27 DEF CloseDies, FlagInv
<1>28. ASSUME NEW e, ExamChanged(e)
       PROVE  LifeInv'
  BY <1>1, <1>28 DEF ExamChanged, lockVars
<1>29. ASSUME NEW who \in {"owner", "instructor"},
             PageOpens(who) \/ PageCloses(who) \/ PageSpeaks(who)
       PROVE  LifeInv'
  BY <1>1, <1>29 DEF PageOpens, PageCloses, PageSpeaks, lockVars
<1>30. CASE Elapses \/ InfoChanges
  BY <1>1, <1>30 DEF InfoChanges, Elapses, EndComes, RetryElapses, IntervalElapses,
                     IdleElapses, lockVars
<1>31. CASE Restart
  BY <1>31 DEF Restart, LifeInv, LockInv, QueueInv, BehindClose, FlagInv
<1>32. CASE UNCHANGED vars
  BY <1>1, <1>32 DEF vars
<1>33. CASE AtRest
  BY <1>32, <1>33 DEF AtRest
<1> QED
  BY <1>7, <1>8, <1>9, <1>10, <1>11, <1>12, <1>13, <1>14, <1>15, <1>16, <1>17, <1>18, <1>19,
     <1>20, <1>21, <1>22, <1>23, <1>25, <1>26, <1>27, <1>28, <1>29, <1>30, <1>31, <1>32, <1>33
     DEF Next, EndStep, CloseStep, ExamPut, ExamDelete

\* No step of any coroutine breaks the discipline of the lock.
THEOREM LifeCorrect == Spec => []LifeInv
<1>1. TypeOK /\ LifeInv /\ [Next]_vars => LifeInv'
  BY LifeStep
<1> QED BY LifeInit, <1>1, TypeCorrect, PTL DEF Spec

\* Two sre commands never run on the project at once.
THEOREM OneCommandCorrect == Spec => []OneCommand
<1>1. LifeInv => OneCommand
  BY DEF LifeInv, LockInv, OneCommand
<1> QED BY LifeCorrect, <1>1, PTL

\* Once sre stop succeeded no sre command runs on the project any more.
THEOREM StoppedIsQuietCorrect == Spec => []StoppedIsQuiet
<1>1. LifeInv => StoppedIsQuiet
  BY JobNames DEF LifeInv, LockInv, FlagInv, StoppedIsQuiet
<1> QED BY LifeCorrect, <1>1, PTL

-----------------------------------------------------------------------------
\* Nothing is forgotten: what liveness needs of the states.

\* A flag is up only while the coroutine that takes it down runs, and who waits
\* for the lock is in its queue.
FlagsAttended ==
    /\ ending => pc["end"] # "off"
    /\ closing => gone \/ pc["close"] # "off"

WaitersQueued ==
    \A job \in Jobs : pc[job] = "waiting" => \E i \in 1..Len(queue) : queue[i] = job

\* A job that comes for the lock leaves nobody out of the queue...
LEMMA LockQueues ==
    ASSUME TypeOK, WaitersQueued, NEW job \in Jobs, NEW at \in InSre, Lock(job, at)
    PROVE  WaitersQueued'
<1>1. pc \in [Jobs -> PCs] /\ queue \in Seq(Jobs)
  BY DEF TypeOK
<1>2. CASE Free
  BY <1>1, <1>2, Places DEF Lock, WaitersQueued
<1>3. CASE ~Free
  <2>1. pc' = [pc EXCEPT ![job] = "waiting"] /\ queue' = Append(queue, job)
    BY <1>3 DEF Lock
  <2>2. /\ Len(queue) \in Nat /\ Len(queue') = Len(queue) + 1
        /\ queue'[Len(queue) + 1] = job
        /\ \A i \in 1..Len(queue) : queue'[i] = queue[i] /\ i \in 1..Len(queue')
        /\ Len(queue) + 1 \in 1..Len(queue')
    BY <1>1, <2>1
  <2>3. ASSUME NEW other \in Jobs, pc'[other] = "waiting"
        PROVE  \E i \in 1..Len(queue') : queue'[i] = other
    <3>1. CASE other = job
      BY <2>2, <3>1
    <3>2. CASE other # job
      <4>1. pc[other] = "waiting"
        BY <1>1, <2>1, <2>3, <3>2
      <4>2. PICK i \in 1..Len(queue) : queue[i] = other
        BY <4>1 DEF WaitersQueued
      <4> QED BY <2>2, <4>2
    <3> QED BY <3>1, <3>2
  <2> QED BY <2>3 DEF WaitersQueued
<1> QED BY <1>2, <1>3

\* ... nor does the first waiter, which runs again.
LEMMA GrantQueues ==
    ASSUME TypeOK, WaitersQueued, Grant
    PROVE  WaitersQueued'
<1> DEFINE head == Head(queue)
<1>1. /\ pc \in [Jobs -> PCs] /\ queue \in Seq(Jobs) /\ queue # <<>>
      /\ queue' = Tail(queue)
  BY DEF TypeOK, Grant
<1>2. PICK at \in {"off", "hangup", "eval"} : pc' = [pc EXCEPT ![head] = at]
  BY DEF Grant
<1>3. /\ Len(queue) \in Nat \ {0} /\ Len(queue') = Len(queue) - 1
      /\ head = queue[1]
      /\ \A i \in 1..(Len(queue) - 1) : queue'[i] = queue[i + 1]
  BY <1>1
<1>4. ASSUME NEW other \in Jobs, pc'[other] = "waiting"
      PROVE  \E i \in 1..Len(queue') : queue'[i] = other
  <2>1. other # head /\ pc[other] = "waiting"
    BY <1>1, <1>2, <1>4
  <2>2. PICK i \in 1..Len(queue) : queue[i] = other
    BY <2>1 DEF WaitersQueued
  <2>3. i # 1 /\ i - 1 \in 1..Len(queue')
    BY <1>3, <2>1, <2>2
  <2>4. queue'[i - 1] = other
    BY <1>3, <2>2, <2>3
  <2> QED BY <2>3, <2>4
<1> QED BY <1>4 DEF WaitersQueued

LEMMA AttendStep ==
    ASSUME TypeOK, LifeInv, FlagsAttended, WaitersQueued, [Next]_vars
    PROVE  FlagsAttended' /\ WaitersQueued'
<1> USE Places, JobNames DEF FlagsAttended
<1>0. /\ pc \in [Jobs -> PCs] /\ queue \in Seq(Jobs) /\ holder \in Jobs \cup {Nobody}
      /\ FlagInv /\ LockInv
  BY DEF TypeOK, LifeInv
<1>1. ASSUME UNCHANGED <<pc, queue, ending, closing, gone>>
      PROVE  FlagsAttended' /\ WaitersQueued'
  BY <1>1 DEF WaitersQueued
\* A job moves and leaves the queue alone.
<1>2. ASSUME NEW job \in Jobs, NEW at \in PCs \ {"waiting"}, pc' = [pc EXCEPT ![job] = at],
             UNCHANGED queue
      PROVE  WaitersQueued'
  BY <1>0, <1>2 DEF WaitersQueued
<1>3. {"off", "telling", "dead", "waiting", "eval", "stop", "hangup", "cutting"} \subseteq PCs
  BY DEF PCs
\* A job comes for the lock.
<1>4. ASSUME NEW job \in Jobs, NEW at \in InSre, Lock(job, at)
      PROVE  pc'[job] # "off" /\ \A other \in Jobs \ {job} : pc'[other] = pc[other]
  BY <1>0, <1>4 DEF Lock
<1>5. CASE Tick
  BY <1>1, <1>5 DEF Tick, lockVars
<1>6. CASE Grant
  <2>1. queue # <<>> /\ Head(queue) \in Jobs
    BY <1>0, <1>6 DEF Grant
  <2>2. FlagsAttended'
    BY <1>0, <1>6, <2>1 DEF Grant
  <2> QED BY <1>6, <2>2, GrantQueues
<1>7. CASE EndExam
  BY <1>0, <1>2, <1>3, <1>7 DEF EndExam, lockVars
<1>8. CASE ResumeEnd
  <2>1. CASE Free /\ closing
    BY <1>1, <1>8, <2>1 DEF ResumeEnd, lockVars
  <2>2. CASE ~(Free /\ closing)
    BY <1>4, <1>8, <2>2, LockQueues DEF ResumeEnd
  <2> QED BY <2>1, <2>2
<1>9. CASE EndNotDue
  BY <1>1, <1>9 DEF EndNotDue, lockVars
<1>10. CASE CutOff
  <2>1. CASE Free /\ (closing \/ exam = NoExam)
    BY <1>0, <1>2, <1>3, <1>10, <2>1 DEF CutOff, lockVars
  <2>2. CASE ~(Free /\ (closing \/ exam = NoExam))
    BY <1>4, <1>10, <2>2, LockQueues DEF CutOff
  <2> QED BY <2>1, <2>2
<1>11. CASE FinalEvalSucceeds
  BY <1>0, <1>2, <1>3, <1>11 DEF FinalEvalSucceeds, Unlock
<1>12. CASE FinalEvalFails
  BY <1>0, <1>2, <1>3, <1>12 DEF FinalEvalFails, Unlock
<1>13. CASE EndTold
  BY <1>0, <1>2, <1>3, <1>13 DEF EndTold, lockVars
<1>14. CASE StartPeriodicEval
  <2>1. CASE holder # Nobody \/ closing \/ pc["periodic"] # "off"
    BY <1>1, <1>14, <2>1 DEF StartPeriodicEval, lockVars
  <2>2. CASE ~(holder # Nobody \/ closing \/ pc["periodic"] # "off")
    BY <1>4, <1>14, <2>2, LockQueues DEF StartPeriodicEval
  <2> QED BY <2>1, <2>2
<1>15. ASSUME NEW job \in {"periodic", "user"}, EvalDone(job)
       PROVE  FlagsAttended' /\ WaitersQueued'
  BY <1>0, <1>2, <1>3, <1>15 DEF EvalDone, Unlock
<1>16. ASSUME NEW privileged \in BOOLEAN, UserCommand(privileged)
       PROVE  FlagsAttended' /\ WaitersQueued'
  BY <1>4, <1>16, LockQueues DEF UserCommand
<1>17. ASSUME Close
       PROVE  FlagsAttended' /\ WaitersQueued'
  BY <1>4, <1>17, LockQueues DEF Close
<1>18. ASSUME (\E privileged \in BOOLEAN : CloseRequest(privileged))
              \/ (\E stopping \in BOOLEAN : StopRequest(stopping))
       PROVE  FlagsAttended' /\ WaitersQueued'
  BY <1>17, <1>18 DEF CloseRequest, StopRequest
<1>19. CASE Reap
  BY <1>1, <1>17, <1>19 DEF Reap, lockVars
<1>20. CASE HungUp
  BY <1>0, <1>2, <1>3, <1>20 DEF HungUp, lockVars
<1>21. CASE CloseEvaluated
  BY <1>0, <1>2, <1>3, <1>21 DEF CloseEvaluated, lockVars
<1>22. CASE Stopped
  BY <1>0, <1>2, <1>3, <1>22 DEF Stopped, Unlock
<1>23. CASE StopFails
  BY <1>0, <1>2, <1>3, <1>23 DEF StopFails, Unlock
<1>24. CASE CloseDies
  BY <1>0, <1>2, <1>3, <1>24 DEF CloseDies, Unlock
<1>25. ASSUME NEW e, ExamChanged(e)
       PROVE  FlagsAttended' /\ WaitersQueued'
  BY <1>1, <1>25 DEF ExamChanged, lockVars
<1>26. ASSUME NEW who \in {"owner", "instructor"},
              PageOpens(who) \/ PageCloses(who) \/ PageSpeaks(who)
       PROVE  FlagsAttended' /\ WaitersQueued'
  BY <1>1, <1>26 DEF PageOpens, PageCloses, PageSpeaks, lockVars
<1>27. CASE Elapses \/ InfoChanges
  BY <1>1, <1>27 DEF InfoChanges, Elapses, EndComes, RetryElapses, IntervalElapses,
                     IdleElapses, lockVars
<1>28. CASE Restart
  BY <1>28 DEF Restart, WaitersQueued
<1>29. CASE UNCHANGED vars \/ AtRest
  BY <1>1, <1>29 DEF vars, AtRest
<1> QED
  BY <1>5, <1>6, <1>7, <1>8, <1>9, <1>10, <1>11, <1>12, <1>13, <1>14, <1>15, <1>16, <1>18,
     <1>19, <1>20, <1>21, <1>22, <1>23, <1>24, <1>25, <1>26, <1>27, <1>28, <1>29
     DEF Next, EndStep, CloseStep, ExamPut, ExamDelete

\* What the loop owes the project is due, under way, or waits for a timer that
\* runs: an end that is reached, the final evaluation of one that is over, the
\* close that set `closing`, the lock for who waits.
NothingIsStuck ==
    /\ Running(exam) /\ exam.end = "reached" => EndDue \/ pc["end"] # "off"
    /\ Over(exam) /\ ~exam.final => EndDue \/ retry = "running" \/ pc["end"] # "off"
    /\ closing => gone \/ pc["close"] # "off"
    /\ \A job \in Jobs : pc[job] = "waiting" =>
          IF holder = Nobody THEN \E i \in 1..Len(queue) : queue[i] = job
          ELSE pc[holder] \in InSre

\* However the coroutines race, sre fails and the agent restarts, none of the
\* flags exam_ending and closing outlives the coroutine that set it, a final
\* evaluation that is owed is due again or being retried, and the lock is never
\* left taken (end_exam: "finally: project.exam_ending = False").
THEOREM NothingIsStuckCorrect == Spec => []NothingIsStuck
<1>1. Init => FlagsAttended /\ WaitersQueued
  BY JobNames DEF Init, FlagsAttended, WaitersQueued
<1>2. TypeOK /\ LifeInv /\ FlagsAttended /\ WaitersQueued /\ [Next]_vars
          => FlagsAttended' /\ WaitersQueued'
  BY AttendStep
<1>3. TypeOK /\ LifeInv /\ FlagsAttended /\ WaitersQueued => NothingIsStuck
  <2> SUFFICES ASSUME TypeOK, LifeInv, FlagsAttended, WaitersQueued PROVE NothingIsStuck
    OBVIOUS
  <2>1. ~EndDue /\ Running(exam) /\ exam.end = "reached" => ending
    BY DEF EndDue, Running
  <2>2. ~EndDue /\ Over(exam) /\ ~exam.final => ending \/ retry = "running"
    BY DEF EndDue, Over
  <2>3. ASSUME NEW job \in Jobs, pc[job] = "waiting"
        PROVE  IF holder = Nobody THEN \E i \in 1..Len(queue) : queue[i] = job
               ELSE pc[holder] \in InSre
    BY <2>3 DEF TypeOK, LifeInv, LockInv, WaitersQueued
  <2> QED BY <2>1, <2>2, <2>3 DEF FlagsAttended, NothingIsStuck
<1> QED BY <1>1, <1>2, <1>3, LifeCorrect, TypeCorrect, PTL DEF Spec

-----------------------------------------------------------------------------
\* The state file.

LEMMA SavedStep ==
    ASSUME StateFileCurrent, [Next]_vars
    PROVE  StateFileCurrent'
<1> USE DEF StateFileCurrent
<1>1. ASSUME UNCHANGED <<exam, saved>>
      PROVE  StateFileCurrent'
  BY <1>1
<1>2. CASE FinalEvalSucceeds
  BY <1>2 DEF FinalEvalSucceeds
<1>3. CASE EndExam \/ CutOff
  BY <1>3 DEF EndExam, CutOff
<1>4. CASE EndComes
  BY <1>4 DEF EndComes
<1>5. CASE Restart
  BY <1>5 DEF Restart
<1>6. ASSUME NEW e, ExamChanged(e)
      PROVE  StateFileCurrent'
  BY <1>6 DEF ExamChanged
<1>7. CASE Tick \/ Grant \/ FinalEvalFails \/ StartPeriodicEval
  BY <1>1, <1>7 DEF Tick, Grant, FinalEvalFails, StartPeriodicEval
<1>8. CASE ResumeEnd \/ EndNotDue \/ EndTold
  BY <1>1, <1>8 DEF ResumeEnd, EndNotDue, EndTold
<1>9. ASSUME NEW job \in {"periodic", "user"}, EvalDone(job)
      PROVE  StateFileCurrent'
  BY <1>1, <1>9 DEF EvalDone
<1>10. ASSUME NEW flag \in BOOLEAN, UserCommand(flag) \/ CloseRequest(flag) \/ StopRequest(flag)
       PROVE  StateFileCurrent'
  BY <1>1, <1>10 DEF UserCommand, CloseRequest, StopRequest, Close
<1>11. CASE CloseStep
  BY <1>1, <1>11 DEF CloseStep, Reap, Close, HungUp, CloseEvaluated, Stopped, StopFails, CloseDies
<1>12. ASSUME NEW who \in {"owner", "instructor"},
             PageOpens(who) \/ PageCloses(who) \/ PageSpeaks(who)
       PROVE  StateFileCurrent'
  BY <1>1, <1>12 DEF PageOpens, PageCloses, PageSpeaks
<1>13. CASE InfoChanges \/ RetryElapses \/ IntervalElapses \/ IdleElapses
  BY <1>1, <1>13 DEF InfoChanges, RetryElapses, IntervalElapses, IdleElapses
<1>14. CASE UNCHANGED vars \/ AtRest
  BY <1>1, <1>14 DEF vars, AtRest
<1> QED
  BY <1>2, <1>3, <1>4, <1>5, <1>6, <1>7, <1>8, <1>9, <1>10, <1>11, <1>12, <1>13, <1>14
     DEF Next, EndStep, Elapses, ExamPut, ExamDelete

\* Whenever the loop yields, the state file holds the exam of the project.
THEOREM StateFileCorrect == Spec => []StateFileCurrent
<1>1. Init => StateFileCurrent
  BY DEF Init, StateFileCurrent
<1>2. StateFileCurrent /\ [Next]_vars => StateFileCurrent'
  BY SavedStep
<1> QED BY <1>1, <1>2, PTL DEF Spec

-----------------------------------------------------------------------------
\* The end of an exam.

\* What a step may do to the exam.
ExamMoves ==
    \/ UNCHANGED exam
    \/ EndExam
    \/ exam # NoExam /\ exam' = [exam EXCEPT !.final = TRUE] /\ FinalEvalSucceeds
    \/ exam' = Aged(exam) /\ EndComes
    \/ MayChangeExam /\ (\/ exam' = NoExam
                         \/ \E end \in {"unset", "ahead", "reached"} : exam' = Replaced(exam, end))

LEMMA ExamStep ==
    ASSUME StateFileCurrent, [Next]_vars
    PROVE  ExamMoves
<1> USE DEF ExamMoves
<1>1. CASE FinalEvalSucceeds
  BY <1>1 DEF FinalEvalSucceeds
<1>2. CASE EndExam \/ EndComes
  BY <1>2 DEF EndComes
<1>3. CASE Restart
  BY <1>3 DEF Restart, StateFileCurrent
<1>4. ASSUME NEW end \in {"unset", "ahead", "reached"}, ExamPut(end)
      PROVE  ExamMoves
  BY <1>4 DEF ExamPut, ExamChanged
<1>5. CASE ExamDelete
  BY <1>5 DEF ExamDelete, ExamChanged
<1>6. CASE Tick \/ Grant \/ FinalEvalFails \/ StartPeriodicEval
  BY <1>6 DEF Tick, Grant, FinalEvalFails, StartPeriodicEval
<1>7. CASE ResumeEnd \/ EndNotDue \/ EndTold \/ CutOff
  BY <1>7 DEF ResumeEnd, EndNotDue, EndTold, CutOff
<1>8. ASSUME NEW job \in {"periodic", "user"}, EvalDone(job)
      PROVE  ExamMoves
  BY <1>8 DEF EvalDone
<1>9. ASSUME NEW flag \in BOOLEAN, UserCommand(flag) \/ CloseRequest(flag) \/ StopRequest(flag)
      PROVE  ExamMoves
  BY <1>9 DEF UserCommand, CloseRequest, StopRequest, Close
<1>10. CASE CloseStep
  BY <1>10 DEF CloseStep, Reap, Close, HungUp, CloseEvaluated, Stopped, StopFails, CloseDies
<1>11. ASSUME NEW who \in {"owner", "instructor"},
             PageOpens(who) \/ PageCloses(who) \/ PageSpeaks(who)
       PROVE  ExamMoves
  BY <1>11 DEF PageOpens, PageCloses, PageSpeaks
<1>12. CASE InfoChanges \/ RetryElapses \/ IntervalElapses \/ IdleElapses
  BY <1>12 DEF InfoChanges, RetryElapses, IntervalElapses, IdleElapses
<1>13. CASE UNCHANGED vars \/ AtRest
  BY <1>13 DEF vars, AtRest
<1> QED
  BY <1>1, <1>2, <1>3, <1>4, <1>5, <1>6, <1>7, <1>8, <1>9, <1>10, <1>11, <1>12, <1>13
     DEF Next, EndStep, Elapses

\* What the recorded end becomes.
LEMMA EndedStep ==
    ASSUME TypeOK, ExamMoves, Over(exam), exam' # NoExam
    PROVE  exam'.ended \/ (MayChangeExam /\ exam'.end = "ahead")
<1>1. exam \in Exams /\ exam.ended
  BY DEF TypeOK, Over
<1>2. CASE UNCHANGED exam
  BY <1>1, <1>2
<1>3. CASE EndExam
  BY <1>1, <1>3 DEF EndExam
<1>4. CASE exam' = [exam EXCEPT !.final = TRUE]
  BY <1>1, <1>4 DEF Exams
<1>5. CASE exam' = Aged(exam)
  BY <1>1, <1>5 DEF Aged, Exams
<1>6. ASSUME MayChangeExam, NEW end \in {"unset", "ahead", "reached"}, exam' = Replaced(exam, end)
      PROVE  exam'.ended \/ exam'.end = "ahead"
  BY <1>1, <1>6 DEF Replaced, Over
<1> QED BY <1>2, <1>3, <1>4, <1>5, <1>6 DEF ExamMoves

\* The end of an exam stands, whatever fails and restarts: only the portal
\* undoes it, with an end in the future or by removing the exam.
THEOREM EndStandsCorrect == Spec => EndStands
<1>1. TypeOK /\ StateFileCurrent /\ [Next]_vars
         => [Over(exam) => exam' = NoExam \/ exam'.ended \/ exam'.end = "ahead"]_vars
  BY ExamStep, EndedStep
<1> QED BY <1>1, TypeCorrect, StateFileCorrect, PTL DEF Spec, EndStands

-----------------------------------------------------------------------------
\* The evaluation of a close.

\* Only the portal makes an exam run.
LEMMA RunsNoMore ==
    ASSUME TypeOK, ExamMoves, ~MayChangeExam, Running(exam')
    PROVE  Running(exam)
<1>1. exam' # NoExam /\ ~exam'.ended /\ exam \in Exams \cup {NoExam}
  BY DEF TypeOK, Running
<1>2. CASE UNCHANGED exam
  BY <1>1, <1>2 DEF Running
<1>3. CASE EndExam
  BY <1>1, <1>3 DEF EndExam, Running, EndDue
<1>4. CASE exam # NoExam /\ exam' = [exam EXCEPT !.final = TRUE]
  BY <1>1, <1>4 DEF Exams, Running
<1>5. CASE exam' = Aged(exam)
  BY <1>1, <1>5 DEF Aged, Exams, Running
<1> QED BY <1>2, <1>3, <1>4, <1>5 DEF ExamMoves

\* Only the portal gives a project an exam, or takes back a final evaluation.
LEMMA FinalStays ==
    ASSUME TypeOK, ExamMoves, ~MayChangeExam, exam' # NoExam
    PROVE  exam # NoExam /\ (exam.final => exam'.final)
<1>1. exam \in Exams \cup {NoExam}
  BY DEF TypeOK
<1>2. CASE UNCHANGED exam
  BY <1>2
<1>3. CASE EndExam
  BY <1>1, <1>3 DEF EndExam, EndDue, Exams
<1>4. CASE exam # NoExam /\ exam' = [exam EXCEPT !.final = TRUE]
  BY <1>1, <1>4 DEF Exams
<1>5. CASE exam' = Aged(exam)
  BY <1>1, <1>5 DEF Aged, Exams
<1> QED BY <1>2, <1>3, <1>4, <1>5 DEF ExamMoves

Decided == pc["close"] = "stop" \/ pc["close"] = "eval" \/ gone

LEMMA DecidedCloses ==
    ASSUME LifeInv, Decided
    PROVE  closing /\ ~MayChangeExam
BY DEF LifeInv, FlagInv, Decided, MayChangeExam

\* The close decides whether to evaluate at one place only.
LEMMA DecidesOnce ==
    ASSUME TypeOK, LifeInv, [Next]_vars
    PROVE  \/ HungUp
           \/ ~Decided'
           \/ Decided /\ closeTried' = closeTried
<1> USE JobNames
<1> DEFINE Goal == \/ HungUp
                   \/ ~Decided'
                   \/ Decided /\ closeTried' = closeTried
<1>0. pc \in [Jobs -> PCs] /\ (Decided => closing)
  BY DecidedCloses DEF TypeOK
<1>1. ASSUME Decided' => Decided, closeTried' = closeTried
      PROVE  Goal
  BY <1>1
<1>2. ASSUME ~Decided'
      PROVE  Goal
  BY <1>2
<1>3. ASSUME NEW job \in Jobs \ {"close"}, NEW at, pc' = [pc EXCEPT ![job] = at],
             gone' = gone, closeTried' = closeTried
      PROVE  Goal
  BY <1>0, <1>1, <1>3 DEF Decided
<1>4. ASSUME NEW job \in Jobs \ {"close"}, NEW at, Lock(job, at) \/ Unlock(job, at),
             gone' = gone, closeTried' = closeTried
      PROVE  Goal
  BY <1>3, <1>4 DEF Lock, Unlock
<1>5. ASSUME UNCHANGED <<pc, gone, closeTried>>
      PROVE  Goal
  BY <1>1, <1>5 DEF Decided
<1>6. ASSUME Close, ~closing
      PROVE  Goal
  <2>1. ~gone /\ gone' = gone
    BY <1>0, <1>6 DEF Close, Decided
  <2>2. pc'["close"] \in {"hangup", "waiting"}
    BY <1>0, <1>6 DEF Close, Lock
  <2> QED BY <1>2, <2>1, <2>2 DEF Decided
<1>7. CASE HungUp
  BY <1>7
<1>8. CASE Grant
  <2>1. gone' = gone /\ closeTried' = closeTried /\ Head(queue) \in Jobs
    BY <1>8 DEF Grant, TypeOK
  <2>2. CASE Head(queue) = "close"
    BY <1>0, <1>1, <1>8, <2>1, <2>2 DEF Grant, Decided
  <2>3. CASE Head(queue) # "close"
    BY <1>3, <1>8, <2>1, <2>3 DEF Grant
  <2> QED BY <2>2, <2>3
<1>9. CASE CloseEvaluated \/ StopFails \/ CloseDies
  BY <1>0, <1>1, <1>9 DEF CloseEvaluated, StopFails, CloseDies, Unlock, Decided, history
<1>10. CASE Stopped
  BY <1>0, <1>1, <1>10 DEF Stopped, Decided, history
<1>11. CASE Restart
  BY <1>2, <1>11 DEF Restart, Decided
<1>12. CASE Tick \/ EndNotDue \/ InfoChanges \/ Elapses
  BY <1>5, <1>12 DEF Tick, EndNotDue, InfoChanges, Elapses, EndComes, RetryElapses, IntervalElapses,
                     IdleElapses, history
<1>13. CASE EndExam \/ EndTold
  BY <1>3, <1>13 DEF EndExam, EndTold, history
<1>14. CASE ResumeEnd
  BY <1>4, <1>5, <1>14 DEF ResumeEnd
<1>15. CASE CutOff
  BY <1>3, <1>4, <1>15 DEF CutOff
<1>16. CASE FinalEvalSucceeds \/ FinalEvalFails
  BY <1>4, <1>16 DEF FinalEvalSucceeds, FinalEvalFails
<1>17. CASE StartPeriodicEval
  BY <1>4, <1>5, <1>17 DEF StartPeriodicEval, history
<1>18. ASSUME NEW job \in {"periodic", "user"}, EvalDone(job)
       PROVE  Goal
  BY <1>4, <1>18 DEF EvalDone, history
<1>19. ASSUME NEW privileged \in BOOLEAN, UserCommand(privileged)
       PROVE  Goal
  BY <1>4, <1>19 DEF UserCommand, history
<1>20. ASSUME NEW flag \in BOOLEAN, CloseRequest(flag) \/ StopRequest(flag)
       PROVE  Goal
  BY <1>6, <1>20 DEF CloseRequest, StopRequest
<1>21. CASE Reap
  BY <1>5, <1>6, <1>21 DEF Reap, history
<1>22. ASSUME NEW e, ExamChanged(e)
       PROVE  Goal
  BY <1>5, <1>22 DEF ExamChanged, history
<1>23. ASSUME NEW who \in {"owner", "instructor"},
             PageOpens(who) \/ PageCloses(who) \/ PageSpeaks(who)
       PROVE  Goal
  BY <1>5, <1>23 DEF PageOpens, PageCloses, PageSpeaks, history
<1>24. CASE UNCHANGED vars \/ AtRest
  BY <1>5, <1>24 DEF vars, AtRest
<1> QED
  BY <1>7, <1>8, <1>9, <1>10, <1>11, <1>12, <1>13, <1>14, <1>15, <1>16, <1>17, <1>18, <1>19,
     <1>20, <1>21, <1>22, <1>23, <1>24
     DEF Next, EndStep, CloseStep, ExamPut, ExamDelete

LEMMA CloseStepKeeps ==
    ASSUME TypeOK, LifeInv, StateFileCurrent, CloseInv, [Next]_vars
    PROVE  CloseInv'
<1>1. CASE HungUp
  BY <1>1 DEF HungUp, CloseInv, Running
<1>2. CASE ~Decided'
  BY <1>2 DEF CloseInv, Decided
<1>3. CASE Decided /\ closeTried' = closeTried
  <2>1. Running(exam') => Running(exam)
    BY <1>3, ExamStep, DecidedCloses, RunsNoMore
  <2> QED BY <1>3, <2>1 DEF CloseInv, Decided
<1> QED BY <1>1, <1>2, <1>3, DecidesOnce

\* A project stopped before the end of its exam was evaluated by the close.
THEOREM StoppedExamCorrect == Spec => []StoppedExamWasEvaluated
<1>1. Init => CloseInv
  BY JobNames DEF Init, CloseInv
<1>2. TypeOK /\ LifeInv /\ StateFileCurrent /\ CloseInv /\ [Next]_vars => CloseInv'
  BY CloseStepKeeps
<1>3. CloseInv => StoppedExamWasEvaluated
  BY DEF CloseInv, StoppedExamWasEvaluated
<1> QED BY <1>1, <1>2, <1>3, TypeCorrect, LifeCorrect, StateFileCorrect, PTL DEF Spec

\* Past the decision of a close, the exam was evaluated by it or by its end.
DecidedInv == Decided /\ exam # NoExam => closeTried \/ exam.final

\* No exam is stopped without an evaluation, as long as no close decides while a
\* final evaluation is owed: that decision, which looks at ended_at alone
\* (close_project: "one closed after the end got its final evaluation already"),
\* is the one way to the loss the run exam_final_lost shows, whatever races for the
\* lock, fails, restarts and is set on the exam before and after it.
THEOREM StoppedIsEvaluated ==
    Spec /\ [][HungUp => ~Owed]_vars => [](gone /\ exam # NoExam => exam.final \/ closeTried)
<1>1. Init => DecidedInv
  BY JobNames DEF Init, DecidedInv, Decided
<1>2. TypeOK /\ LifeInv /\ StateFileCurrent /\ DecidedInv /\ [Next]_vars /\ [HungUp => ~Owed]_vars
         => DecidedInv'
  <2> SUFFICES ASSUME TypeOK, LifeInv, StateFileCurrent, DecidedInv, [Next]_vars,
                      [HungUp => ~Owed]_vars
               PROVE  DecidedInv'
    OBVIOUS
  <2>1. CASE UNCHANGED vars
    BY <2>1 DEF vars, DecidedInv, Decided
  <2>2. CASE HungUp /\ ~Owed
    BY <2>2 DEF HungUp, Owed, Over, DecidedInv
  <2>3. CASE ~Decided'
    BY <2>3 DEF DecidedInv
  <2>4. CASE Decided /\ closeTried' = closeTried
    <3>1. exam' # NoExam => exam # NoExam /\ (exam.final => exam'.final)
      BY <2>4, ExamStep, DecidedCloses, FinalStays
    <3> QED BY <2>4, <3>1 DEF DecidedInv
  <2> QED BY <2>1, <2>2, <2>3, <2>4, DecidesOnce
<1>3. DecidedInv => (gone /\ exam # NoExam => exam.final \/ closeTried)
  BY DEF DecidedInv, Decided
<1> QED BY <1>1, <1>2, <1>3, TypeCorrect, LifeCorrect, StateFileCorrect, PTL DEF Spec

-----------------------------------------------------------------------------
\* The final evaluation, when no end meets a running exam.

LEMMA EndStepKeeps ==
    ASSUME TypeOK, LifeInv, StateFileCurrent, EndInv, FinalMeansEvaluated,
           [Next]_vars, [Unresumed]_vars
    PROVE  EndInv' /\ FinalMeansEvaluated'
<1> USE JobNames
<1>0. pc \in [Jobs -> PCs] /\ exam \in Exams \cup {NoExam} /\ (Ending => ending)
  BY DEF TypeOK, LifeInv, FlagInv, Ending
<1>1. ExamMoves
  BY ExamStep
<1>2. Unresumed
  BY DEF vars, Unresumed, Running
\* An exam whose end is under way is over and not final, and stays so.
<1>3. ASSUME Ending, ~FinalEvalSucceeds, exam' # NoExam
      PROVE  exam # NoExam /\ exam'.ended /\ ~exam'.final
  <2>1. ~Running(exam) /\ exam'.ended
    BY <1>2, <1>3 DEF EndInv, Unresumed, Running
  <2>2. ~EndExam
    BY <1>0, <1>3 DEF EndExam, EndDue
  <2>3. CASE UNCHANGED exam
    BY <1>3, <2>3 DEF EndInv
  <2>4. CASE exam' = Aged(exam)
    BY <1>0, <1>3, <2>4 DEF EndInv, Aged, Exams
  <2>5. ASSUME NEW end \in {"unset", "ahead", "reached"}, exam' = Replaced(exam, end)
        PROVE  exam # NoExam /\ exam'.ended /\ ~exam'.final
    <3>1. Over(exam) /\ exam' = [end |-> end, ended |-> TRUE, final |-> exam.final]
      BY <2>1, <2>5 DEF Replaced
    <3> QED BY <1>3, <3>1 DEF EndInv, Over
  <2> QED BY <1>1, <1>3, <2>2, <2>3, <2>4, <2>5 DEF ExamMoves
\* Steps that neither move the end's coroutine forward nor touch the history.
<1>4. ASSUME \/ pc'["end"] = pc["end"] /\ sinceEnd' = sinceEnd /\ ~FinalEvalSucceeds
             \/ pc'["end"] \notin {"cutting", "waiting", "eval"}
      PROVE  EndInv'
  <2>1. CASE pc'["end"] \notin {"cutting", "waiting", "eval"}
    BY <2>1 DEF EndInv, Ending
  <2>2. CASE pc'["end"] = pc["end"] /\ sinceEnd' = sinceEnd /\ ~FinalEvalSucceeds
    <3>1. Ending' => Ending
      BY <2>2 DEF Ending
    <3>2. pc'["end"] = "eval" => Ending
      BY <2>2 DEF Ending
    <3> QED BY <1>3, <2>2, <3>1, <3>2 DEF EndInv
  <2> QED BY <1>4, <2>1, <2>2
<1>5. ASSUME graded' = graded, ~EndExam, ~FinalEvalSucceeds
      PROVE  FinalMeansEvaluated'
  <2>1. CASE exam' = Aged(exam)
    BY <1>0, <1>5, <2>1 DEF FinalMeansEvaluated, Aged, Exams
  <2>2. ASSUME NEW end \in {"unset", "ahead", "reached"}, exam' = Replaced(exam, end)
        PROVE  FinalMeansEvaluated'
    BY <1>0, <1>5, <2>2 DEF FinalMeansEvaluated, Replaced, Over, Exams
  <2>3. CASE exam' = NoExam \/ UNCHANGED exam
    BY <1>5, <2>3 DEF FinalMeansEvaluated
  <2> QED BY <1>1, <1>5, <2>1, <2>2, <2>3 DEF ExamMoves
<1>6. CASE EndExam
  <2>1. /\ exam \in Exams /\ ~exam.ended /\ ~exam.final
        /\ exam' = [exam EXCEPT !.ended = TRUE]
        /\ pc' = [pc EXCEPT !["end"] = "cutting"]
    BY <1>0, <1>6 DEF EndExam, EndDue, FinalMeansEvaluated, Exams
  <2>2. exam' \in Exams /\ exam'.ended /\ ~exam'.final
    BY <2>1 DEF Exams
  <2>3. pc'["end"] = "cutting"
    BY <1>0, <2>1
  <2> QED BY <2>2, <2>3 DEF EndInv, FinalMeansEvaluated
<1>7. CASE FinalEvalSucceeds
  <2>1. pc["end"] = "eval" /\ Ending
    BY <1>7 DEF FinalEvalSucceeds, Ending
  <2>2. CASE exam = NoExam
    <3>1. pc'["end"] = "off" /\ exam' = NoExam
      BY <1>0, <1>7, <2>2 DEF FinalEvalSucceeds, Unlock
    <3> QED BY <1>4, <3>1 DEF FinalMeansEvaluated
  <2>3. CASE exam # NoExam
    <3>1. exam \in Exams /\ exam.ended /\ sinceEnd
      BY <1>0, <2>1, <2>3 DEF EndInv
    <3>2. pc'["end"] = "telling" /\ exam' = [exam EXCEPT !.final = TRUE] /\ graded'
      BY <1>0, <1>7, <2>3, <3>1 DEF FinalEvalSucceeds, Unlock
    <3>3. exam'.ended
      BY <3>1, <3>2 DEF Exams
    <3> QED BY <1>4, <3>2, <3>3 DEF FinalMeansEvaluated
  <2> QED BY <2>2, <2>3
<1>8. ASSUME ~EndExam, ~FinalEvalSucceeds
      PROVE  EndInv' /\ graded' = graded
  <2>1. ASSUME NEW job \in Jobs \ {"end"}, NEW at, Lock(job, at) \/ Unlock(job, at),
               UNCHANGED <<sinceEnd, graded>>
        PROVE  EndInv' /\ graded' = graded
    <3>1. pc'["end"] = pc["end"]
      BY <1>0, <2>1 DEF Lock, Unlock
    <3> QED BY <1>4, <1>8, <2>1, <3>1
  <2>2. ASSUME UNCHANGED <<pc, sinceEnd, graded>>
        PROVE  EndInv' /\ graded' = graded
    BY <1>4, <1>8, <2>2
  \* The end of the exam comes for the lock; the exam is over.
  <2>3. ASSUME Lock("end", "eval"), exam' = exam, graded' = graded,
               exam # NoExam => exam.ended /\ ~exam.final,
               Free => exam # NoExam,
               sinceEnd' = IF Free THEN exam.ended ELSE sinceEnd
        PROVE  EndInv' /\ graded' = graded
    <3>1. CASE Free
      BY <2>3, <3>1 DEF EndInv
    <3>2. CASE ~Free
      <4>1. pc'["end"] = "waiting"
        BY <1>0, <2>3, <3>2 DEF Lock
      <4> QED BY <2>3, <4>1 DEF EndInv
    <3> QED BY <3>1, <3>2
  <2>4. CASE ResumeEnd
    <3>1. exam # NoExam /\ exam.ended /\ ~exam.final /\ exam' = exam /\ graded' = graded
      BY <2>4 DEF ResumeEnd, EndDue
    <3>2. CASE Free /\ closing
      BY <2>2, <2>4, <3>2 DEF ResumeEnd
    <3>3. CASE ~(Free /\ closing)
      <4>1. Lock("end", "eval") /\ sinceEnd' = IF Free THEN TRUE ELSE sinceEnd
        BY <2>4, <3>3 DEF ResumeEnd
      <4>2. exam.ended = TRUE
        BY <1>0, <3>1 DEF Exams
      <4> QED BY <2>3, <3>1, <4>1, <4>2
    <3> QED BY <3>2, <3>3
  <2>5. CASE CutOff
    <3>1. /\ exam # NoExam => exam.ended /\ ~exam.final
          /\ exam' = exam /\ graded' = graded
      BY <2>5 DEF CutOff, EndInv, Ending
    <3>2. CASE Free /\ (closing \/ exam = NoExam)
      <4>1. pc'["end"] = "off"
        BY <1>0, <2>5, <3>2 DEF CutOff
      <4> QED BY <1>4, <3>1, <4>1
    <3>3. CASE ~(Free /\ (closing \/ exam = NoExam))
      <4>1. Lock("end", "eval") /\ sinceEnd' = IF Free THEN exam.ended ELSE sinceEnd
        BY <2>5, <3>3 DEF CutOff
      <4> QED BY <2>3, <3>1, <3>3, <4>1
    <3> QED BY <3>2, <3>3
  <2>6. CASE Grant
    <3>1. exam' = exam /\ graded' = graded /\ Head(queue) \in Jobs
      BY <2>6 DEF Grant, TypeOK
    <3>2. CASE Head(queue) # "end"
      <4>1. pc'["end"] = pc["end"] /\ sinceEnd' = sinceEnd
        BY <1>0, <2>6, <3>2 DEF Grant
      <4> QED BY <1>4, <1>8, <3>1, <4>1
    <3>3. CASE Head(queue) = "end"
      <4>1. queue \in Seq(Jobs) /\ queue # <<>>
        BY <2>6 DEF TypeOK, Grant
      <4>2. 1 \in 1..Len(queue) /\ queue[1] = "end"
        BY <3>3, <4>1
      <4>3. pc["end"] = "waiting"
        BY <4>2 DEF LifeInv, QueueInv
      <4>4. CASE closing \/ exam = NoExam
        <5>1. pc'["end"] = "off"
          BY <1>0, <2>6, <3>3, <4>4 DEF Grant
        <5> QED BY <1>4, <3>1, <5>1
      <4>5. CASE ~(closing \/ exam = NoExam)
        <5>1. exam.ended /\ ~exam.final
          BY <4>3, <4>5 DEF EndInv, Ending
        <5>2. sinceEnd' = exam.ended
          BY <2>6, <3>3, <4>5 DEF Grant
        <5> QED BY <3>1, <5>1, <5>2 DEF EndInv
      <4> QED BY <4>4, <4>5
    <3> QED BY <3>2, <3>3
  <2>7. CASE FinalEvalFails
    <3>1. pc'["end"] = "off" /\ graded' = graded
      BY <1>0, <2>7 DEF FinalEvalFails, Unlock
    <3> QED BY <1>4, <3>1
  <2>8. CASE EndTold
    <3>1. pc'["end"] = "off" /\ graded' = graded
      BY <1>0, <2>8 DEF EndTold, history
    <3> QED BY <1>4, <3>1
  <2>9. CASE Restart
    <3>1. pc'["end"] = "off" /\ graded' = graded
      BY <2>9 DEF Restart
    <3> QED BY <1>4, <3>1
  <2>10. CASE StartPeriodicEval
    BY <2>1, <2>2, <2>10 DEF StartPeriodicEval, history
  <2>11. ASSUME NEW job \in {"periodic", "user"}, EvalDone(job)
         PROVE  EndInv' /\ graded' = graded
    BY <2>1, <2>11 DEF EvalDone, history
  <2>12. ASSUME NEW privileged \in BOOLEAN, UserCommand(privileged)
         PROVE  EndInv' /\ graded' = graded
    BY <2>1, <2>12 DEF UserCommand, history
  <2>13. ASSUME Close
         PROVE  EndInv' /\ graded' = graded
    BY <2>1, <2>13 DEF Close
  <2>14. ASSUME NEW flag \in BOOLEAN, CloseRequest(flag) \/ StopRequest(flag)
         PROVE  EndInv' /\ graded' = graded
    BY <2>13, <2>14 DEF CloseRequest, StopRequest
  <2>15. CASE Reap
    BY <2>2, <2>13, <2>15 DEF Reap, history
  <2>16. CASE HungUp \/ CloseEvaluated
    <3>1. pc'["end"] = pc["end"] /\ sinceEnd' = sinceEnd /\ graded' = graded
      BY <1>0, <2>16 DEF HungUp, CloseEvaluated, history
    <3> QED BY <1>4, <1>8, <3>1
  <2>17. CASE Stopped \/ StopFails \/ CloseDies
    BY <2>1, <2>17 DEF Stopped, StopFails, CloseDies, history
  <2>18. ASSUME NEW e, ExamChanged(e)
         PROVE  EndInv' /\ graded' = graded
    BY <2>2, <2>18 DEF ExamChanged, history
  <2>19. ASSUME NEW who \in {"owner", "instructor"},
             PageOpens(who) \/ PageCloses(who) \/ PageSpeaks(who)
         PROVE  EndInv' /\ graded' = graded
    BY <2>2, <2>19 DEF PageOpens, PageCloses, PageSpeaks, history
  <2>20. CASE Tick \/ EndNotDue \/ InfoChanges \/ Elapses
    BY <2>2, <2>20 DEF Tick, EndNotDue, InfoChanges, Elapses, EndComes, RetryElapses,
                       IntervalElapses, IdleElapses, history
  <2>21. CASE UNCHANGED vars \/ AtRest
    BY <2>2, <2>21 DEF vars, AtRest
  <2> QED
    BY <1>8, <2>4, <2>5, <2>6, <2>7, <2>8, <2>9, <2>10, <2>11, <2>12, <2>14, <2>15, <2>16,
       <2>17, <2>18, <2>19, <2>20, <2>21
       DEF Next, EndStep, CloseStep, ExamPut, ExamDelete
<1> QED BY <1>5, <1>6, <1>7, <1>8

\* A recorded final evaluation is the end's, provided the portal never gives the
\* project a running exam while an end is under way: what it removes, reschedules
\* in the past or sends again meanwhile does no harm.
THEOREM FinalEvalCorrect == Spec /\ NotResumed => []FinalMeansEvaluated
<1>1. Init => EndInv /\ FinalMeansEvaluated
  BY JobNames DEF Init, EndInv, Ending, FinalMeansEvaluated
<1>2. TypeOK /\ LifeInv /\ StateFileCurrent /\ EndInv /\ FinalMeansEvaluated /\ [Next]_vars
         /\ [Unresumed]_vars => EndInv' /\ FinalMeansEvaluated'
  BY EndStepKeeps
<1> QED
  BY <1>1, <1>2, TypeCorrect, LifeCorrect, StateFileCorrect, PTL DEF Spec, NotResumed

\* An end is evaluated and marked once, under the same proviso.
THEOREM MarkedOnceCorrect == Spec /\ NotResumed => MarkedOnce
<1>1. Init => EndInv /\ FinalMeansEvaluated
  BY JobNames DEF Init, EndInv, Ending, FinalMeansEvaluated
<1>2. TypeOK /\ LifeInv /\ StateFileCurrent /\ EndInv /\ FinalMeansEvaluated /\ [Next]_vars
         /\ [Unresumed]_vars => EndInv' /\ FinalMeansEvaluated'
  BY EndStepKeeps
<1>3. EndInv => [FinalEvalSucceeds /\ exam # NoExam => exam.ended /\ ~exam.final]_vars
  BY DEF EndInv, Ending, FinalEvalSucceeds
<1> QED
  BY <1>1, <1>2, <1>3, TypeCorrect, LifeCorrect, StateFileCorrect, PTL
     DEF Spec, NotResumed, MarkedOnce

\* The proviso is met by a portal that changes no exam while its end runs.
THEOREM LeftAloneCorrect ==
    ASSUME ~PutWhileEnding
    PROVE  Spec => NotResumed
<1>1. TypeOK /\ LifeInv /\ StateFileCurrent /\ [Next]_vars => [Unresumed]_vars
  <2> SUFFICES ASSUME TypeOK, LifeInv, StateFileCurrent, [Next]_vars, Ending, Running(exam')
               PROVE  Running(exam)
    BY DEF Unresumed
  <2>1. ~MayChangeExam
    BY JobNames DEF LifeInv, FlagInv, Ending, MayChangeExam
  <2> QED BY <2>1, ExamStep, RunsNoMore
<1> QED BY <1>1, TypeCorrect, LifeCorrect, StateFileCorrect, PTL DEF Spec, NotResumed
=============================================================================
