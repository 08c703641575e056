SPECIFICATION ComponentsSpec
CONSTANTS
    r1 = r1
    r2 = r2
    r3 = r3
    Reports = {r1, r2, r3}
    Sizes = {1, 3}
    Kilobyte = 2
    MaxSizeKB = 3
    Day = 2
    MaxAgeDays = 1
    StartTime = 4
    MaxClock = 6
    MaxPasses = 2
    MaxDisturbances = 1
    Scopes = {"Classic", "Restricted", "AdminOnly", "NoAttach", "Unknown"}
    MaxCalls = 4
    MaxChunks = 2
    Capacity = 9
    VarintBase = 4
    LengthLimit = 65536
    PushLengths = {1, 2, 4}
    PushBytes = {1, 6}
    MaxPushes = 5
    Annotations = {"a1", "a2", "a3"}
    Setters = {"s1", "s2"}
    Lists = {"list1", "list2"}
    Nowhere = "null"
    MaxSets = 4
    MaxEntries = 2
    MaxRuns = 3
    WinProcesses = {"p1", "p2"}
    WinThreads = {"t1", "t2", "t3"}
    WinProcessOf <- TwoClients
    InitialClient = "p1"
    WinPersistent = FALSE
    Nobody = "nobody"
    MaxWinDumps = 2
    DatabaseUsers = {"d1", "d2"}
    WinReports = {"w1", "w2"}
    NoUser = "nobody"
    NoReport = "none"
    MaxWinFaults = 1
    MacUsers = {"m1", "m2"}
    MacReports = {"x1"}
    NoMacUser = "nobody"
    NoMacReport = "none"
    MaxMacFaults = 1
INVARIANTS
    TypesOK
    PassEnforcesLimits
    InStep
    NobodyStuck
    RingHoldsNewest
    AnnotationsReachable
    DumpsCounted
    WinDumpsServed
    WinUploadedOnce
    WinReportsKept
    MacUploadedOnce
    MacAttachmentsKept
PROPERTIES
    NewestKept
SYMMETRY ReportSymmetry
CHECK_DEADLOCK FALSE
