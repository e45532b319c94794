SPECIFICATION MCSpec
CONSTANTS
    Threads = {t1, t2, t3}
    MaxNest = 2
    MaxWrites = 1
    MaxBlocks = 4
    MaxRevision = 2
    Openers = {"o1", "o2"}
    Calls = {"q1", "q2"}
    QueueSize = 1
    Recorders = {"t1", "t2"}
    Paths = {"f1", "f2"}
    Times = {1, 2}
    MaxRecords = 4
    MaxCrashes = 1
INVARIANTS TransactionsSafe AuditSafe McpSafe
PROPERTIES GivenUpNotStarted StoppedEnds
CHECK_DEADLOCK FALSE
