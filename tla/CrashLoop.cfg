SPECIFICATION LoopSpec
CONSTANTS
    MaxEntries = 2
    MaxRuns = 3
INVARIANT OnlyCrashesCounted
CHECK_DEADLOCK FALSE
