SPECIFICATION Spec
CONSTANTS
    Names = {a, b}
    Ops = {o1, o2}
    MaxStarts = 3
    MaxUpsets = 1
SYMMETRY Symmetry
CONSTRAINT NothingGivenUp
INVARIANTS OneTaskPerName NoWorkLost ClosedIsQuiet PartialIsCoherent
PROPERTIES FailureLeavesNoTrace
CHECK_DEADLOCK FALSE
