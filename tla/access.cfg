SPECIFICATION FairSpec
CONSTANTS
    Sessions = {t1, t2}
    Students = {ann}
    Teachers = {}
    Viewers = {eve}
    Nothing = Nothing
    MaxTerminals = 1
    Lingers = TRUE
    SlowOpens = FALSE
INVARIANTS
    TypeOK
    StudentCutOff
    CapHolds
    NoShellIsLost
PROPERTIES
    TypistsAreNotReaped
    IdleShellEnds
    CutOffEnds
