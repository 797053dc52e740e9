SPECIFICATION Spec
CONSTANT Chain = 2
INVARIANTS BootsAreWhole FailureRestores
PROPERTIES LocalWorkSurvives EveryUpdateEnds
CHECK_DEADLOCK FALSE
