SPECIFICATION FairSpec
CONSTANTS
    NoExam = NoExam
    ExamInterval = TRUE
    LabInterval = TRUE
    EvalBeforeExit = FALSE
    Reaps = TRUE
    PutWhileEnding = FALSE
    MaxRestarts = 2
INVARIANTS
    TypeOK
    OneCommand
    StoppedIsQuiet
    StateFileCurrent
    FinalMeansEvaluated
PROPERTIES
    EndStands
    MarkedOnce
    ContractHolds
    EndIsRun
    FinalEvalIsDone
    ClosingEnds
