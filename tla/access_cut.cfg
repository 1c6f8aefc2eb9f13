SPECIFICATION Spec
CONSTANTS
    Sessions = {t1, t2}
    Students = {ann}
    Teachers = {}
    Viewers = {}
    Nothing = Nothing
    MaxTerminals = 1
    Lingers = TRUE
    SlowOpens = TRUE
INVARIANT
    StudentCutOff
