SPECIFICATION PruneSpec
CONSTANTS
    r1 = r1
    r2 = r2
    r3 = r3
    Reports = {r1, r2}
    Sizes = {2}
    Kilobyte = 2
    MaxSizeKB = 1
    Day = 2
    MaxAgeDays = 9
    StartTime = 2
    MaxClock = 4
    MaxPasses = 2
    MaxDisturbances = 0
PROPERTIES
    NewestKeptDaily
CHECK_DEADLOCK FALSE
