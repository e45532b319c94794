SPECIFICATION AuditSpec
CONSTANTS
    Recorders = {"t1", "t2"}
    Paths = {"f1", "f2"}
    Times = {1, 2}
    MaxRecords = 4
    MaxCrashes = 2
INVARIANTS PrunedWasExported
CHECK_DEADLOCK FALSE
