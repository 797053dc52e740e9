CONSTANTS
    Retention = 2
    MaxTime = 3
    MaxActs = 5
    MaxErrors = 2
SPECIFICATION JournalSpec
CHECK_DEADLOCK FALSE
INVARIANTS
    EventsAreFoundOnce
    TranscriptsAreTrue
