SPECIFICATION FairSpec
CONSTANTS
    o = o
    p = p
    work = work
    agent = agent
    Bots = {b1}
    Reminders = {r1}
    Tasks = {p}
    Interval <- MCInterval
    Name <- MCName
    File <- MCFile
    Closings = {}
    ClosingOf <- MCClosingOf
    Delays = {0, 1}
    ClaimTimeout = 1
    ReminderMaxAge = 3
    MaxReminderAttempts = 2
    MaxLate = 4
    MaxClaims = 2
INVARIANTS SendsWithinAttempts
PROPERTIES EntriesSettle
