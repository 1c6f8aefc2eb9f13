-------------------------- MODULE AgentExamContract --------------------------
(***************************************************************************)
(* AgentExam implements ExamContract, for every value of its constants, as *)
(* long as the portal gives the project no running exam during an end.     *)
(*                                                                         *)
(* A step of the agent moves the exam or what is known of the close, never *)
(* both; what it does to the exam is one of ExamMoves.                     *)
(***************************************************************************)
EXTENDS AgentExamSafety

ImplInv ==
    /\ TypeOK
    /\ LifeInv
    /\ StateFileCurrent
    /\ CloseInv
    /\ EndInv
    /\ FinalMeansEvaluated

Phases == {"plain", "running", "over", "final"}

-----------------------------------------------------------------------------
\* What a step may do to what is known of the close.
LEMMA CloseMoves ==
    ASSUME TypeOK, LifeInv, [Next]_vars
    PROVE  \/ UNCHANGED <<closeTried, gone>>
           \/ UNCHANGED <<exam, gone>> /\ ~gone /\ closeTried' \in BOOLEAN
           \/ Stopped
<1> DEFINE Kept == UNCHANGED <<closeTried, gone>>
           Decides == UNCHANGED <<exam, gone>> /\ ~gone /\ closeTried' \in BOOLEAN
<1>0. /\ gone => closing /\ pc["close"] = "off"
      /\ exam \in Exams \cup {NoExam}
  BY DEF LifeInv, FlagInv, TypeOK
<1>1. ASSUME Close, ~closing
      PROVE  Decides
  BY <1>0, <1>1 DEF Close
<1>2. CASE HungUp
  <2>1. exam # NoExam => exam.ended \in BOOLEAN
    BY <1>0 DEF Exams
  <2> QED BY <1>0, <1>2, <2>1, ConstantsAssumption DEF HungUp
<1>3. CASE Tick \/ Grant \/ FinalEvalSucceeds \/ FinalEvalFails \/ StartPeriodicEval
  BY <1>3 DEF Tick, Grant, FinalEvalSucceeds, FinalEvalFails, StartPeriodicEval, history
<1>4. CASE EndStep
  BY <1>4 DEF EndStep, EndExam, ResumeEnd, EndNotDue, CutOff, EndTold, history
<1>5. ASSUME NEW job \in {"periodic", "user"}, EvalDone(job)
      PROVE  Kept
  BY <1>5 DEF EvalDone, history
<1>6. ASSUME NEW privileged \in BOOLEAN, UserCommand(privileged)
      PROVE  Kept
  BY <1>6 DEF UserCommand, history
<1>7. ASSUME NEW flag \in BOOLEAN, CloseRequest(flag) \/ StopRequest(flag)
      PROVE  Decides
  BY <1>1, <1>7 DEF CloseRequest, StopRequest
<1>8. CASE Reap
  BY <1>1, <1>8 DEF Reap, history
<1>9. CASE CloseEvaluated \/ StopFails \/ CloseDies
  BY <1>9 DEF CloseEvaluated, StopFails, CloseDies, history
<1>10. ASSUME NEW e, ExamChanged(e)
       PROVE  Kept
  BY <1>10 DEF ExamChanged, history
<1>11. ASSUME NEW who \in {"owner", "instructor"},
              PageOpens(who) \/ PageCloses(who) \/ PageSpeaks(who)
       PROVE  Kept
  BY <1>11 DEF PageOpens, PageCloses, PageSpeaks, history
<1>12. CASE InfoChanges \/ Elapses
  BY <1>12 DEF InfoChanges, Elapses, EndComes, RetryElapses, IntervalElapses, IdleElapses, history
<1>13. CASE Restart \/ AtRest \/ UNCHANGED vars
  BY <1>13 DEF Restart, AtRest, vars
<1> QED
  BY <1>2, <1>3, <1>4, <1>5, <1>6, <1>7, <1>8, <1>9, <1>10, <1>11, <1>12, <1>13
     DEF Next, CloseStep, ExamPut, ExamDelete

\* What a step may do to the exam, seen from the portal.
LEMMA PhaseMoves ==
    ASSUME ImplInv, [Next]_vars
    PROVE  \/ Phase' = Phase
           \/ Phase = "running" /\ Phase' = "over"
           \/ Phase = "over" /\ Phase' = "final" /\ ~gone
           \/ Phase' \in {"plain", "running"} /\ ~gone
<1>0. /\ exam \in Exams \cup {NoExam} /\ NoExam \notin Exams
      /\ gone => closing /\ holder = Nobody
      /\ exam # NoExam /\ exam.final => exam.ended
  BY ConstantsAssumption DEF ImplInv, TypeOK, LifeInv, FlagInv, FinalMeansEvaluated
<1>1. ExamMoves
  BY ExamStep DEF ImplInv
<1>2. CASE UNCHANGED exam
  BY <1>2 DEF Phase
<1>3. CASE EndExam
  <2>1. exam \in Exams /\ ~exam.ended /\ ~exam.final /\ exam' = [exam EXCEPT !.ended = TRUE]
    BY <1>0, <1>3 DEF EndExam, EndDue
  <2>2. exam' \in Exams /\ exam'.ended /\ ~exam'.final
    BY <2>1 DEF Exams
  <2> QED BY <1>0, <2>1, <2>2 DEF Phase
<1>4. CASE exam # NoExam /\ exam' = [exam EXCEPT !.final = TRUE] /\ FinalEvalSucceeds
  <2>1. pc["end"] = "eval" /\ Ending
    BY <1>4 DEF FinalEvalSucceeds, Ending
  <2>2. holder = "end" /\ exam.ended /\ ~exam.final
    BY <1>4, <2>1, JobNames DEF ImplInv, LifeInv, LockInv, EndInv, InSre
  <2>3. exam' \in Exams /\ exam'.ended /\ exam'.final
    BY <1>0, <1>4, <2>2 DEF Exams
  <2>4. ~gone
    BY <1>0, <2>2, JobNames
  <2> QED BY <1>0, <1>4, <2>2, <2>3, <2>4 DEF Phase
<1>5. CASE exam' = Aged(exam)
  <2>1. CASE exam # NoExam /\ exam.end = "ahead"
    <3>1. exam' \in Exams /\ exam'.ended = exam.ended /\ exam'.final = exam.final
      BY <1>0, <1>5, <2>1 DEF Aged, Exams
    <3> QED BY <1>0, <2>1, <3>1 DEF Phase
  <2>2. CASE ~(exam # NoExam /\ exam.end = "ahead")
    BY <1>5, <2>2 DEF Aged, Phase
  <2> QED BY <2>1, <2>2
<1>6. CASE MayChangeExam /\ exam' = NoExam
  BY <1>0, <1>6 DEF MayChangeExam, Phase
<1>7. ASSUME MayChangeExam, NEW end \in {"unset", "ahead", "reached"}, exam' = Replaced(exam, end)
      PROVE  Phase' = Phase \/ (Phase' = "running" /\ ~gone)
  <2>1. CASE Over(exam) /\ end # "ahead"
    <3>1. exam' = [end |-> end, ended |-> TRUE, final |-> exam.final]
      BY <1>7, <2>1 DEF Replaced
    <3>2. exam' \in Exams
      BY <1>0, <2>1, <3>1 DEF Exams, Over
    <3> QED BY <1>0, <2>1, <3>1, <3>2 DEF Phase, Over
  <2>2. CASE ~(Over(exam) /\ end # "ahead")
    <3>1. exam' = [end |-> end, ended |-> FALSE, final |-> FALSE]
      BY <1>7, <2>2 DEF Replaced
    <3>2. exam' \in Exams
      BY <3>1 DEF Exams
    <3>3. exam' # NoExam /\ ~exam'.ended
      BY <1>0, <3>1, <3>2
    <3>4. ~gone
      BY <1>0, <1>7 DEF MayChangeExam
    <3> QED BY <3>3, <3>4 DEF Phase
  <2> QED BY <2>1, <2>2
<1> QED BY <1>1, <1>2, <1>3, <1>4, <1>5, <1>6, <1>7 DEF ExamMoves

\* Each step of the agent is a step of the contract or invisible to it.
LEMMA ContractStep ==
    ASSUME ImplInv, [Next]_vars
    PROVE  [Contract!Next]_(Contract!vars)
<1> USE DEF Contract!Next, Contract!vars, Contract!Resume, Contract!Remove, Contract!End,
            Contract!Grade, Contract!Try, Contract!Stop
<1>0. Phase' = Phase \/ Phase' # Phase
  OBVIOUS
<1>1. CASE UNCHANGED <<closeTried, gone>>
  BY <1>1, PhaseMoves
<1>2. CASE UNCHANGED <<exam, gone>> /\ ~gone /\ closeTried' \in BOOLEAN
  BY <1>2 DEF Phase
<1>3. CASE Stopped
  <2>1. pc["close"] = "stop" /\ gone' = TRUE /\ exam' = exam /\ closeTried' = closeTried
    BY <1>3 DEF Stopped, history
  <2>2. ~gone
    BY <2>1 DEF ImplInv, LifeInv, FlagInv
  <2>3. Phase' = Phase /\ (Phase = "running" => closeTried)
    BY <2>1 DEF Phase, ImplInv, CloseInv, Running
  <2> QED BY <2>1, <2>2, <2>3
<1> QED BY <1>1, <1>2, <1>3, CloseMoves DEF ImplInv

-----------------------------------------------------------------------------
\* The agent keeps the contract of an exam, provided the portal never gives the
\* project a running exam while an end is under way.
THEOREM ContractCorrect == Spec /\ NotResumed => ContractHolds
<1>1. Init => Contract!Init
  BY JobNames DEF Init, Contract!Init, Phase
<1>2. Init => EndInv /\ FinalMeansEvaluated /\ CloseInv
  BY JobNames DEF Init, EndInv, Ending, FinalMeansEvaluated, CloseInv
<1>3. TypeOK /\ LifeInv /\ StateFileCurrent /\ EndInv /\ FinalMeansEvaluated /\ [Next]_vars
         /\ [Unresumed]_vars => EndInv' /\ FinalMeansEvaluated'
  BY EndStepKeeps
<1>4. TypeOK /\ LifeInv /\ StateFileCurrent /\ CloseInv /\ [Next]_vars => CloseInv'
  BY CloseStepKeeps
<1>5. TypeOK /\ LifeInv /\ StateFileCurrent /\ CloseInv /\ EndInv /\ FinalMeansEvaluated
         /\ [Next]_vars => [Contract!Next]_(Contract!vars)
  BY ContractStep DEF ImplInv
<1> QED
  BY <1>1, <1>2, <1>3, <1>4, <1>5, TypeCorrect, LifeCorrect, StateFileCorrect, PTL
     DEF Spec, NotResumed, ContractHolds, Contract!Spec
=============================================================================
