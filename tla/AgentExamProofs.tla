--------------------------- MODULE AgentExamProofs ---------------------------
(***************************************************************************)
(* The variables of AgentExam keep their types, for every value of its     *)
(* constants: the lock and its queue, the exam that time and a PUT give,   *)
(* then one step per action.                                               *)
(***************************************************************************)
EXTENDS AgentExam, TLAPS

-----------------------------------------------------------------------------
\* Types.

LEMMA JobNames == Jobs = {"end", "close", "periodic", "user"} /\ Nobody \notin Jobs
BY DEF Jobs, Nobody

\* Time and a PUT give exams again.
LEMMA ExamTypes ==
    /\ \A e \in Exams \cup {NoExam} : Aged(e) \in Exams \cup {NoExam}
    /\ \A e \in Exams \cup {NoExam} : \A end \in {"unset", "ahead", "reached"} :
          Replaced(e, end) \in Exams
BY ConstantsAssumption DEF Aged, Replaced, Over, Exams

\* A coroutine that takes the lock, or waits for it, leaves its shape alone.
LEMMA LockTypes ==
    ASSUME pc \in [Jobs -> PCs], holder \in Jobs \cup {Nobody}, queue \in Seq(Jobs),
           NEW job \in Jobs, NEW at \in PCs,
           Lock(job, at) \/ Unlock(job, at)
    PROVE  pc' \in [Jobs -> PCs] /\ holder' \in Jobs \cup {Nobody} /\ queue' \in Seq(Jobs)
<1>1. "waiting" \in PCs
  BY DEF PCs
<1>2. CASE Lock(job, at)
  BY <1>1, <1>2 DEF Lock
<1>3. CASE Unlock(job, at)
  BY <1>3 DEF Unlock
<1> QED BY <1>2, <1>3

LEMMA GrantTypes ==
    ASSUME TypeOK, Grant
    PROVE  TypeOK'
<1>1. Head(queue) \in Jobs /\ Tail(queue) \in Seq(Jobs)
  BY DEF TypeOK, Grant
<1>2. pc' \in [Jobs -> PCs] /\ holder' \in Jobs \cup {Nobody} /\ queue' \in Seq(Jobs)
  BY <1>1 DEF TypeOK, Grant, PCs, InSre
<1>3. ending' \in BOOLEAN
  BY DEF TypeOK, Grant
<1>4. sinceEnd' \in BOOLEAN
  <2>1. CASE Head(queue) = "end" /\ ~(closing \/ exam = NoExam)
    <3>1. exam \in Exams
      BY <2>1 DEF TypeOK
    <3> QED BY <2>1, <3>1 DEF Grant, Exams
  <2>2. CASE ~(Head(queue) = "end" /\ ~(closing \/ exam = NoExam))
    BY <2>2 DEF TypeOK, Grant
  <2> QED BY <2>1, <2>2
<1> QED BY <1>2, <1>3, <1>4 DEF TypeOK, Grant

\* The type invariant holds of every reachable state.
THEOREM TypeCorrect == Spec => []TypeOK
<1>1. Init => TypeOK
  <2> SUFFICES ASSUME Init
               PROVE  TypeOK
    OBVIOUS
  <2>1. exam \in Exams \cup {NoExam} /\ saved \in Exams \cup {NoExam}
    BY DEF Init, Exams
  <2>2. nextEval \in Timers /\ retry \in Timers
    BY DEF Init, Timers
  <2>3. pc \in [Jobs -> PCs]
    BY DEF Init, PCs
  <2>4. queue \in Seq(Jobs) /\ restarts \in 0..MaxRestarts
    BY ConstantsAssumption DEF Init
  <2>5. /\ ending \in BOOLEAN /\ idle \in BOOLEAN /\ closing \in BOOLEAN /\ gone \in BOOLEAN
        /\ sinceEnd \in BOOLEAN /\ graded \in BOOLEAN /\ closeTried \in BOOLEAN
        /\ pages = {} /\ planned = {} /\ holder = Nobody
    BY DEF Init
  <2> QED BY <2>1, <2>2, <2>3, <2>4, <2>5 DEF TypeOK
<1>2. TypeOK /\ [Next]_vars => TypeOK'
  <2> SUFFICES ASSUME TypeOK, [Next]_vars
               PROVE  TypeOK'
    OBVIOUS
  <2> USE ConstantsAssumption, JobNames
  <2>1. CASE Tick
    BY <2>1 DEF TypeOK, Tick, Arm, Timers, lockVars, history
  <2>2. CASE Grant
    BY <2>2, GrantTypes
  <2>3. CASE EndExam
    <3>1. exam' \in Exams
      BY <2>3 DEF TypeOK, EndExam, EndDue, Exams
    <3> QED BY <2>3, <3>1 DEF TypeOK, EndExam, Arm, Timers, PCs, lockVars
  <2>4. CASE ResumeEnd
    <3>1. CASE Free /\ closing
      BY <2>4, <3>1 DEF TypeOK, ResumeEnd, lockVars
    <3>2. CASE ~(Free /\ closing)
      <4>1. "eval" \in PCs /\ "end" \in Jobs
        BY DEF PCs, InSre
      <4>2. pc' \in [Jobs -> PCs] /\ holder' \in Jobs \cup {Nobody} /\ queue' \in Seq(Jobs)
        BY <2>4, <3>2, <4>1, LockTypes DEF TypeOK, ResumeEnd
      <4> QED BY <2>4, <3>2, <4>2 DEF TypeOK, ResumeEnd
    <3> QED BY <3>1, <3>2
  <2>5. CASE EndNotDue
    BY <2>5 DEF TypeOK, EndNotDue, lockVars, history
  <2>6. CASE CutOff
    <3>1. nextEval' \in Timers
      BY <2>6 DEF CutOff, Arm, Timers
    <3>2. CASE Free /\ (closing \/ exam = NoExam)
      <4>1. pc' \in [Jobs -> PCs] /\ ending' \in BOOLEAN
        <5>1. pc' = [pc EXCEPT !["end"] = "off"] /\ ending' = FALSE
          BY <2>6, <3>2 DEF CutOff
        <5> QED BY <5>1 DEF TypeOK, PCs
      <4>2. holder' = holder /\ queue' = queue /\ sinceEnd' = sinceEnd
        BY <2>6, <3>2 DEF CutOff, lockVars
      <4>3. UNCHANGED <<exam, retry, idle, pages, closing, gone, planned, restarts, graded,
                        closeTried>>
        BY <2>6 DEF CutOff
      <4>4. saved' = exam
        BY <2>6 DEF CutOff
      <4> QED BY <3>1, <4>1, <4>2, <4>3, <4>4 DEF TypeOK
    <3>3. CASE ~(Free /\ (closing \/ exam = NoExam))
      <4>1. "eval" \in PCs /\ "end" \in Jobs
        BY DEF PCs, InSre
      <4>2. pc' \in [Jobs -> PCs] /\ holder' \in Jobs \cup {Nobody} /\ queue' \in Seq(Jobs)
        BY <2>6, <3>3, <4>1, LockTypes DEF TypeOK, CutOff
      <4>3. sinceEnd' \in BOOLEAN
        BY <2>6, <3>3 DEF TypeOK, CutOff, Exams
      <4> QED BY <2>6, <3>1, <3>3, <4>2, <4>3 DEF TypeOK, CutOff
    <3> QED BY <3>2, <3>3
  <2>7. CASE FinalEvalSucceeds
    <3>1. "off" \in PCs /\ "telling" \in PCs
      BY DEF PCs
    <3>2. pc' \in [Jobs -> PCs] /\ holder' \in Jobs \cup {Nobody} /\ queue' \in Seq(Jobs)
      BY <2>7, <3>1, LockTypes DEF TypeOK, FinalEvalSucceeds
    <3>3. exam' \in Exams \cup {NoExam} /\ saved' \in Exams \cup {NoExam}
      <4>1. CASE exam = NoExam
        BY <2>7, <4>1 DEF TypeOK, FinalEvalSucceeds
      <4>2. CASE exam # NoExam
        <5>1. exam' = [exam EXCEPT !.final = TRUE] /\ saved' = exam'
          BY <2>7, <4>2 DEF FinalEvalSucceeds
        <5> QED BY <4>2, <5>1 DEF TypeOK, Exams
      <4> QED BY <4>1, <4>2
    <3> QED BY <2>7, <3>2, <3>3 DEF TypeOK, FinalEvalSucceeds, Timers
  <2>8. CASE FinalEvalFails
    BY <2>8 DEF TypeOK, FinalEvalFails, Unlock, PCs, Timers
  <2>9. CASE EndTold
    BY <2>9 DEF TypeOK, EndTold, PCs, lockVars, history
  <2>10. CASE StartPeriodicEval
    <3>1. CASE holder # Nobody \/ closing \/ pc["periodic"] # "off"
      BY <2>10, <3>1 DEF TypeOK, StartPeriodicEval, lockVars, history
    <3>2. CASE ~(holder # Nobody \/ closing \/ pc["periodic"] # "off")
      <4>1. "eval" \in PCs /\ "periodic" \in Jobs
        BY DEF PCs, InSre
      <4>2. pc' \in [Jobs -> PCs] /\ holder' \in Jobs \cup {Nobody} /\ queue' \in Seq(Jobs)
        BY <2>10, <3>2, <4>1, LockTypes DEF TypeOK, StartPeriodicEval
      <4> QED BY <2>10, <4>2 DEF TypeOK, StartPeriodicEval, history
    <3> QED BY <3>1, <3>2
  <2>11. ASSUME NEW job \in {"periodic", "user"}, EvalDone(job)
         PROVE  TypeOK'
    BY <2>11 DEF TypeOK, EvalDone, Unlock, PCs, history
  <2>12. ASSUME NEW privileged \in BOOLEAN, UserCommand(privileged)
         PROVE  TypeOK'
    <3>1. "eval" \in PCs /\ "user" \in Jobs
      BY DEF PCs, InSre
    <3>2. pc' \in [Jobs -> PCs] /\ holder' \in Jobs \cup {Nobody} /\ queue' \in Seq(Jobs)
      BY <2>12, <3>1, LockTypes DEF TypeOK, UserCommand
    <3> QED BY <2>12, <3>2 DEF TypeOK, UserCommand, history
  <2>13. ASSUME Close, planned' \subseteq planned, idle' \in BOOLEAN
         PROVE  TypeOK'
    <3>1. "hangup" \in PCs /\ "close" \in Jobs
      BY DEF PCs, InSre
    <3>2. pc' \in [Jobs -> PCs] /\ holder' \in Jobs \cup {Nobody} /\ queue' \in Seq(Jobs)
      BY <2>13, <3>1, LockTypes DEF TypeOK, Close
    <3> QED BY <2>13, <3>2 DEF TypeOK, Close
  <2>14. ASSUME NEW privileged \in BOOLEAN, CloseRequest(privileged)
         PROVE  TypeOK'
    BY <2>13, <2>14 DEF CloseRequest
  <2>15. ASSUME NEW stopping \in BOOLEAN, StopRequest(stopping)
         PROVE  TypeOK'
    BY <2>13, <2>15 DEF StopRequest, TypeOK
  <2>16. CASE Reap
    <3>1. CASE closing
      BY <2>16, <3>1 DEF Reap, TypeOK, lockVars, history
    <3>2. CASE ~closing
      BY <2>13, <2>16, <3>2 DEF Reap, TypeOK
    <3> QED BY <3>1, <3>2
  <2>17. CASE HungUp
    <3>1. pc' \in [Jobs -> PCs]
      BY <2>17 DEF TypeOK, HungUp, PCs, InSre
    <3>2. closeTried' \in BOOLEAN
      <4>1. CASE exam = NoExam
        BY <2>17, <4>1 DEF HungUp
      <4>2. CASE exam # NoExam
        BY <2>17, <4>2 DEF TypeOK, HungUp, Exams
      <4> QED BY <4>1, <4>2
    <3> QED BY <2>17, <3>1, <3>2 DEF TypeOK, HungUp, lockVars
  <2>18. CASE CloseEvaluated
    BY <2>18 DEF TypeOK, CloseEvaluated, PCs, InSre, lockVars, history
  <2>19. CASE Stopped
    BY <2>19 DEF TypeOK, Stopped, Unlock, PCs, history
  <2>20. CASE StopFails
    BY <2>20 DEF TypeOK, StopFails, Unlock, PCs, history
  <2>21. CASE CloseDies
    BY <2>21 DEF TypeOK, CloseDies, Unlock, PCs, history
  <2>22. ASSUME NEW end \in {"unset", "ahead", "reached"}, ExamPut(end)
         PROVE  TypeOK'
    <3>1. Replaced(exam, end) \in Exams
      BY ExamTypes DEF TypeOK
    <3> QED BY <2>22, <3>1 DEF TypeOK, ExamPut, ExamChanged, Arm, Timers, lockVars, history
  <2>23. CASE ExamDelete
    BY <2>23 DEF TypeOK, ExamDelete, ExamChanged, Arm, Timers, lockVars, history
  <2>24. ASSUME NEW who \in {"owner", "instructor"},
                PageOpens(who) \/ PageCloses(who) \/ PageSpeaks(who)
         PROVE  TypeOK'
    <3>1. pages' \subseteq {"owner", "instructor"}
      BY <2>24 DEF TypeOK, PageOpens, PageCloses, PageSpeaks
    <3>2. idle' \in BOOLEAN
      BY <2>24 DEF TypeOK, PageOpens, PageCloses, PageSpeaks
    <3>3. UNCHANGED <<exam, saved, ending, retry, nextEval, closing, gone, planned, pc,
                      lockVars, restarts, history>>
      BY <2>24 DEF PageOpens, PageCloses, PageSpeaks
    <3> QED BY <3>1, <3>2, <3>3 DEF TypeOK, lockVars, history
  <2>25. CASE EndComes
    <3>1. exam' \in Exams \cup {NoExam} /\ saved' \in Exams \cup {NoExam}
      BY <2>25, ExamTypes DEF TypeOK, EndComes
    <3> QED BY <2>25, <3>1 DEF TypeOK, EndComes, lockVars, history
  <2>26. CASE RetryElapses
    BY <2>26 DEF TypeOK, RetryElapses, Timers, lockVars, history
  <2>27. CASE IntervalElapses
    BY <2>27 DEF TypeOK, IntervalElapses, Timers, lockVars, history
  <2>28. CASE IdleElapses
    BY <2>28 DEF TypeOK, IdleElapses, lockVars, history
  <2>29. CASE Restart
    <3>1. pc' \in [Jobs -> PCs] /\ queue' \in Seq(Jobs)
      BY <2>29 DEF Restart, PCs
    <3>2. restarts' \in 0..MaxRestarts
      BY <2>29 DEF TypeOK, Restart
    <3>3. nextEval' \in Timers /\ retry' \in Timers
      BY <2>29 DEF Restart, Arm, Timers
    <3> QED BY <2>29, <3>1, <3>2, <3>3 DEF TypeOK, Restart
  <2>30. CASE InfoChanges
    BY <2>30 DEF TypeOK, InfoChanges, Arm, Timers, lockVars, history
  <2>31. CASE UNCHANGED vars
    BY <2>31 DEF TypeOK, vars
  <2>32. CASE AtRest
    BY <2>31, <2>32 DEF AtRest
  <2> QED
    BY <2>1, <2>2, <2>3, <2>4, <2>5, <2>6, <2>7, <2>8, <2>9, <2>10, <2>11, <2>12, <2>14,
       <2>15, <2>16, <2>17, <2>18, <2>19, <2>20, <2>21, <2>22, <2>23, <2>24, <2>25, <2>26,
       <2>27, <2>28, <2>29, <2>30, <2>31, <2>32
       DEF Next, EndStep, CloseStep, Elapses
<1> QED BY <1>1, <1>2, PTL DEF Spec
=============================================================================
