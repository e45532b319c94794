SPECIFICATION MCSpec
CONSTANTS
    N = 2
    Keys = {"k"}
    MaxAttempts = 2
    HasDispatch = TRUE
    MaxCancels = 1
    MaxCrashes = 1
    MaxMemories = 3
    Contents = {"c1", "c2"}
    Clients = {"t1", "t2"}
    Editors = {"t2"}
    Mergers = {"t1"}
    Expiring = {1}
    Actions = {"a", "b"}
    Forbidden = {}
    Critical = {}
    Low = {"a"}
    MaxProposals = 1
    MaxObjects = 2
    Operators = {"o1", "o2"}
INVARIANTS JobsSafe MemorySafe
PROPERTIES DispatchSafe JobsSettle LearningSafe
CHECK_DEADLOCK FALSE
