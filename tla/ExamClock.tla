----------------------------- MODULE ExamClock -----------------------------
(***************************************************************************)
(* The clock of a student in a programmed exam: when it ends, the phase of *)
(* the student, and what an exam may be defined as                         *)
(* (src/sreweb/portal/exams.py).  Times are whole numbers, a time that is  *)
(* not set is None.  An exam x has the fields duration, start_after,       *)
(* end_before and ended_at ("End now" for everybody), the record m of a    *)
(* student started_at, extra, ended_at ("End now" for them) and            *)
(* dismissed_at.                                                           *)
(***************************************************************************)
EXTENDS Integers

CONSTANTS
    None,       \* a time that is not set
    Lead,       \* how long before the start the students are bound
    PreStart    \* how long before the start their projects may be started

ASSUME ClockAssumption == None \notin Int /\ {Lead, PreStart} \subseteq Nat

Phases == {"scheduled", "waiting", "starting", "past", "active", "ended", "done"}

\* The earlier of two limits, None being no limit.
Earlier(s, t) == IF s = None \/ (t # None /\ t < s) THEN t ELSE s

Later(s, t) == IF s < t THEN t ELSE s

\* min(started + duration, end_before)
Allowed(x, m) ==
    Earlier(IF x.duration = None THEN None ELSE m.started_at + x.duration, x.end_before)

\* Exam.end_at.
EndAt(x, m) ==
    IF m.started_at = None \/ Allowed(x, m) = None THEN None
    ELSE Earlier(Earlier(Later(Allowed(x, m) + m.extra, m.started_at), x.ended_at), m.ended_at)

Begun(x, now) == x.start_after = None \/ now >= x.start_after

\* The exam takes nobody any more: an End now, or the window closed.
Closed(x, now) == x.ended_at # None \/ (x.end_before # None /\ now >= x.end_before)

\* Seeded fault: the window is looked at before the clock of the student.
PhaseByWindow(x, m, now) ==
    IF x.start_after # None /\ now < x.start_after - Lead THEN "scheduled"
    ELSE IF Closed(x, now) THEN IF m.dismissed_at # None THEN "done" ELSE "past"
    ELSE IF m.started_at # None THEN "active"
    ELSE IF Begun(x, now) THEN "starting" ELSE "waiting"

\* Exam.phase.
Phase(x, m, now) ==
    LET end == EndAt(x, m)
    IN  IF x.start_after # None /\ now < x.start_after - Lead THEN "scheduled"
        ELSE IF end # None /\ now >= end
             THEN IF m.dismissed_at # None /\ m.dismissed_at >= end THEN "done" ELSE "ended"
        ELSE IF m.started_at # None THEN "active"
        ELSE IF Closed(x, now) THEN "past"
        ELSE IF Begun(x, now) THEN "starting" ELSE "waiting"

\* Seeded fault: neither a duration nor an end is asked for.
DefinableEndless(x) ==
    x.start_after # None /\ x.end_before # None => x.start_after < x.end_before

\* The times parse_exam takes for an exam.
Definable(x) ==
    /\ x.duration # None \/ x.end_before # None
    /\ x.start_after # None /\ x.end_before # None => x.start_after < x.end_before
=============================================================================
