SPECIFICATION FairSpec
CONSTANTS
    t1 = t1
    t2 = t2
    t3 = t3
    w1 = w1
    w2 = w2
    e1 = e1
    e2 = e2
    Tasks <- ThreeTasks
    Watchers <- TwoWatchers
    Events <- TwoEvents
    MaxDepth = 2
CHECK_DEADLOCK FALSE
INVARIANTS
    NoLostWakeup
    NothingStranded
PROPERTIES
    KeepsApart
    GateReopens
