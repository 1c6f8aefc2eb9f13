SPECIFICATION Spec
CONSTANTS
    NoExam = NoExam
    ExamInterval = FALSE
    LabInterval = FALSE
    EvalBeforeExit = FALSE
    Reaps = TRUE
    PutWhileEnding = FALSE
    MaxRestarts = 0
INVARIANT
    StoppedExamIsFinal
