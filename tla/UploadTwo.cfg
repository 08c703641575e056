SPECIFICATION Spec
CONSTANTS
    h1 = h1
    h2 = h2
    r1 = r1
    r2 = r2
    Free = Free
    Other = Other
    Handlers = {h1, h2}
    Reports = {r1}
    Watch = TRUE
    RateLimit = TRUE
    Hour = 1
    Day = 2
    MaxClock = 2
    MaxEvents = 2
    Events <- AllEvents
    MayStop = FALSE
INVARIANTS
    TypeOK
    UploadedWithConsent
    UploadsExclusive
PROPERTIES
    TriedOncePerPass
CHECK_DEADLOCK FALSE
