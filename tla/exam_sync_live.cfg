\* A change reaches the agents and the orphans end, if the calls are answered again.
SPECIFICATION FairSpec
CONSTANTS
    Labs = {a, b}
    Passes = {pass}
    None = None
    MaxStarts = 1
    MaxProjects = 1
    MaxEdits = 1
    MaxRestarts = 1
    ListsCreating = FALSE
    ListsMiss = TRUE
    LabsReturn = FALSE
    StopsFail = FALSE
PROPERTIES
    ChangeArrives
    OrphansEnd
