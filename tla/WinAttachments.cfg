SPECIFICATION WinDatabaseSpec
CONSTANTS
    DatabaseUsers = {"d1", "d2"}
    WinReports = {"w1", "w2"}
    NoUser = "nobody"
    NoReport = "none"
    MaxWinFaults = 0
INVARIANT WinAttachmentsKept
CHECK_DEADLOCK FALSE
