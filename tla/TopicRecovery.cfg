SPECIFICATION Spec
CONSTANTS
    MaxAttempts = 1
    MaxTopics = 2
    MaxActs = 2
INVARIANTS AlertsOnce RoutesMeet
PROPERTIES DeletedStays EveryEpisodeSettles
