SPECIFICATION FairSpec
CONSTANTS
    Pids = {p1, p2}
    Threshold = 2
    OnDemand = FALSE
    LockFaults = FALSE
    DistantOrphans = TRUE
    MaxRequests = 0
    MaxCrashes = 1
PROPERTIES AbandonedStepIsRecovered LicensedTaskProceeds
