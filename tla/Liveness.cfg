SPECIFICATION LiveSpec
CONSTANTS
    p1 = p1
    p2 = p2
    p3 = p3
    r1 = r1
    NoOwner = NoOwner
    Crashed = Crashed
    Procs = {p1, p2}
    Cleaners = {p2}
    Reports = {r1}
    Ops <- CycleOps
    StallPossible = FALSE
    MaxCrashes = 2
    MaxFaults = 0
    main = main
    Owner = main
    Callers = {main}
    Interval = "indefinite"
    InitialDelay = "finite"
    MayStop = TRUE
    MaxSignals = 3
    Users = {p1, p2}
    MaxOps = 7
    MaxDeaths = 1
INVARIANTS
    RequestSeen
    OneClientID
    SettingsKept
PROPERTIES
    StampedLockReclaimed
    StopReturns
    WorkServed
    MethodsReturn
CHECK_DEADLOCK FALSE
