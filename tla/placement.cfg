SPECIFICATION FairSpec
CONSTANTS
    NStarts = 2
    MaxStarts = 1
    MaxProjects = 1
    OthersRoom = 1
    MaxEvents = 2
    SpareProjects = 1
    MinHostsUp = 2
INVARIANTS
    TypeOK
    CapacityHolds
    NoFlapping
PROPERTY
    PlacesAgain
