SPECIFICATION FairSpec
CONSTANTS
    Students = {ann}
    Requests = {r1, r2}
    MaxShows = 2
    MaxChanges = 1
INVARIANTS
    TypeOK
    NewestIsShown
    WatchersAreIncluded
PROPERTIES
    AbandonedEnds
    CoverEnds
