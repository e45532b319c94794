SPECIFICATION Spec
CONSTANTS
    Threads = {t1, t2}
    MaxNest = 1
    MaxWrites = 1
    MaxBlocks = 2
INVARIANTS FailedLeavesNothing
CHECK_DEADLOCK FALSE
