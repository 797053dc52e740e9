SPECIFICATION Spec
CONSTANTS
    Pids = {p1, p2}
    Threshold = 2
    OnDemand = FALSE
    LockFaults = TRUE
    DistantOrphans = FALSE
    MaxRequests = 2
    MaxCrashes = 0
SYMMETRY Symmetry
CONSTRAINT NoOrphans
PROPERTIES KeepsLicence
CHECK_DEADLOCK FALSE
