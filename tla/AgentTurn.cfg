SPECIFICATION FairSpec
CONSTANTS
    MaxTurns = 2
    MaxSpawns = 3
    MaxRetries = 1
    MaxUpsets = 1
INVARIANTS OneTreePerAgent ResumesOnlyWhatRan ChildrenAreListed
PROPERTIES SparesOthers EveryTurnEnds
CHECK_DEADLOCK FALSE
