SPECIFICATION Spec
CONSTANTS
    p1 = p1
    t1 = t1
    t2 = t2
    None = None
    Processes = {p1}
    Threads = {t1, t2}
    ProcessOf <- OneProcess
    MainThread <- FirstThread
    Scopes = {"Classic", "Unknown"}
    MaxDumps = 1
INVARIANTS
    TypeOK
    DiesAfterDump
    ReportNamesRequester
    TraceableWhileAsked
PROPERTY HandlerLeft
CHECK_DEADLOCK FALSE
