SPECIFICATION RingSpec
CONSTANTS
    Capacity = 9
    VarintBase = 4
    LengthLimit = 65536
    PushLengths = {1, 2, 4, 5}
    PushBytes = {1, 6}
    MaxPushes = 5
INVARIANTS RingHoldsNewest
CHECK_DEADLOCK FALSE
