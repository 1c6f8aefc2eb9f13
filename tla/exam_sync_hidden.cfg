\* The host of a project does not answer, and its student starts the lab elsewhere.
SPECIFICATION Spec
CONSTANTS
    Labs = {a, b}
    Passes = {pass}
    None = None
    MaxStarts = 2
    MaxProjects = 2
    MaxEdits = 0
    MaxRestarts = 0
    ListsCreating = FALSE
    ListsMiss = TRUE
    LabsReturn = FALSE
    StopsFail = FALSE
INVARIANT
    UnrecordedIsPlain
