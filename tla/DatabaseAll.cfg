SPECIFICATION Spec
CONSTANTS
    p1 = p1
    p2 = p2
    p3 = p3
    r1 = r1
    NoOwner = NoOwner
    Crashed = Crashed
    Procs = {p1, p2}
    Cleaners = {p2}
    Reports = {r1}
    Ops <- ChangeOps
    StallPossible = FALSE
    MaxCrashes = 1
    MaxFaults = 1
INVARIANTS
    LockHeldByOwner
    FlagsMatchState
PROPERTY ImplementsLifecycle
CHECK_DEADLOCK FALSE
