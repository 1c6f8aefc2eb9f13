\* A project is listed while its sre start runs.
SPECIFICATION Spec
CONSTANTS
    Labs = {a, b}
    Passes = {pass}
    None = None
    MaxStarts = 1
    MaxProjects = 1
    MaxEdits = 1
    MaxRestarts = 0
    ListsCreating = TRUE
    ListsMiss = FALSE
    LabsReturn = FALSE
    StopsFail = FALSE
INVARIANT
    ToldIsHeld
