SPECIFICATION MCSpec
CONSTANTS
    Calls = {c1, c2}
    Actions = {a1}
    MaxRequests = 1
    MaxRuns = 1
    MaxRestarts = 0
INVARIANTS AtMostOnce
CHECK_DEADLOCK FALSE
