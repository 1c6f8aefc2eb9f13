\* One student and one lab; the clock stops at its bound.
SPECIFICATION FairSpec
CONSTANTS
    None = None
    Lead = 1
    PreStart = 1
    Students = {ann}
    Labs = {a}
    Exam = Exam
    Durations = {None, 1}
    Starts = {None, 1}
    Ends = {None, 2}
    Minutes = {1}
    Overlaps = FALSE
    Newcomers = FALSE
    MaxTime = 2
    MaxChanges = 1
    MaxFaults = 1
    MaxRestarts = 1
INVARIANTS
    TypeOK
    NothingForgotten
    EveryClockEnds
PROPERTIES
    ClockKept
    PhasesGoForward
    StoredInTheEnd
    ReadyStarts
CHECK_DEADLOCK FALSE
