\* One pass at a time; two labs, the student's project of each started again once. The object
\* changes as the clock starts.
SPECIFICATION Spec
CONSTANTS
    Labs = {a, b}
    Passes = {pass}
    None = None
    MaxStarts = 2
    MaxProjects = 2
    MaxEdits = 0
    MaxRestarts = 1
    ListsCreating = TRUE
    ListsMiss = TRUE
    LabsReturn = FALSE
    StopsFail = FALSE
INVARIANTS
    TypeOK
    AcceptedIsHeld
    DroppedIsPlain
PROPERTY
    DeliveryHolds
SYMMETRY LabSymmetry
