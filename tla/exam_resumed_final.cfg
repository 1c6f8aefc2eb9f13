SPECIFICATION Spec
CONSTANTS
    NoExam = NoExam
    ExamInterval = FALSE
    LabInterval = FALSE
    EvalBeforeExit = FALSE
    Reaps = TRUE
    PutWhileEnding = TRUE
    MaxRestarts = 0
INVARIANT
    FinalMeansEvaluated
