SPECIFICATION Spec
CONSTANTS
    p1 = p1
    p2 = p2
    p3 = p3
    r1 = r1
    NoOwner = NoOwner
    Crashed = Crashed
    Procs = {p1, p2}
    Cleaners = {p2}
    Reports = {r1}
    Ops <- RequestOps
    StallPossible = FALSE
    MaxCrashes = 0
    MaxFaults = 0
PROPERTY NoReportLost
CHECK_DEADLOCK FALSE
