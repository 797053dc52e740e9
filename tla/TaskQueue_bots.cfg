SPECIFICATION Spec
CONSTANTS
    o = o
    p = p
    work = work
    agent = agent
    Bots = {b1, b2}
    Reminders = {r1}
    Tasks = {o}
    Interval <- MCInterval
    Name <- MCName
    File <- MCFile
    Closings = {x1}
    ClosingOf <- MCClosingOf
    Delays = {0}
    ClaimTimeout = 1
    ReminderMaxAge = 1
    MaxReminderAttempts = 2
    MaxLate = 2
    MaxClaims = 2
SYMMETRY BotSymmetry
INVARIANTS OneShotRunsAccountedFor NoDoubleClaim
PROPERTIES KeepsPromise ClaimRespected
