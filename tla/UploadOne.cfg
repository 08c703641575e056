SPECIFICATION FairSpec
CONSTANTS
    h1 = h1
    h2 = h2
    r1 = r1
    r2 = r2
    Free = Free
    Other = Other
    Handlers = {h1}
    Reports = {r1, r2}
    Watch = TRUE
    RateLimit = TRUE
    Hour = 2
    Day = 2
    MaxClock = 4
    MaxEvents = 1
    Events <- CalmEvents
    MayStop = TRUE
INVARIANTS
    StopPrompt
PROPERTIES
    RateLimited
    PendingProcessed
CHECK_DEADLOCK FALSE
