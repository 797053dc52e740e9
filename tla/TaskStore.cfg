SPECIFICATION Spec
CONSTANTS
    Holders = {h1, h2}
    MaxEdits = 2
    MaxFaults = 3
    MaxSnapshots = 1
INVARIANTS NeverTakenForNew
PROPERTIES AcceptedProgramWins RefusedUntilRead
