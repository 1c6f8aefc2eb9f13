---------------------------- MODULE ExamContract ----------------------------
(***************************************************************************)
(* What an agent promises about the exam of a project, whatever coroutines *)
(* race for the project and however often the agent dies: an exam runs, is *)
(* over, and is final once its final evaluation was made, in this order;   *)
(* it goes back only by being resumed or removed, never half way; an exam  *)
(* that is not over is only stopped after an evaluation was tried; and     *)
(* nothing but the passing of its end happens to the exam of a stopped     *)
(* project.  AgentExam implements it.                                      *)
(***************************************************************************)
VARIABLES
    phase,    \* plain, running, over, final
    tried,    \* whether the close of the project evaluated it
    stopped   \* whether sre stop succeeded

vars == <<phase, tried, stopped>>

Init ==
    /\ phase \in {"plain", "running"}
    /\ tried = FALSE
    /\ stopped = FALSE

\* The portal gives the project an exam, or resumes an exam that is over with
\* a later end.
Resume ==
    /\ ~stopped
    /\ phase' = "running"
    /\ UNCHANGED <<tried, stopped>>

\* The portal takes the exam away.
Remove ==
    /\ ~stopped
    /\ phase' = "plain"
    /\ UNCHANGED <<tried, stopped>>

\* Its end is run.
End ==
    /\ phase = "running"
    /\ phase' = "over"
    /\ UNCHANGED <<tried, stopped>>

\* The final evaluation, of a project that still stands, after its end.
Grade ==
    /\ ~stopped
    /\ phase = "over"
    /\ phase' = "final"
    /\ UNCHANGED <<tried, stopped>>

\* A close that begins, and one that decides whether to evaluate.
Try ==
    /\ ~stopped
    /\ tried' \in BOOLEAN
    /\ UNCHANGED <<phase, stopped>>

Stop ==
    /\ ~stopped
    /\ phase = "running" => tried
    /\ stopped' = TRUE
    /\ UNCHANGED <<phase, tried>>

Next == Resume \/ Remove \/ End \/ Grade \/ Try \/ Stop

Spec == Init /\ [][Next]_vars
=============================================================================
