SPECIFICATION MCSpec
CONSTANTS
    MaxAttempts = 3
    MaxReplans = 1
    p1 = p1
    p2 = p2
    p3 = p3
    Plans = {p1, p2, p3}
    HasPlanner = TRUE
    Overrides <- EagerOverrides
    Peers = {"s", "a"}
    Ids = {1, 2}
    MaxInbox = 1
    MaxHops = 2
    Ttl = 3
    Persistent = FALSE
    Team = {"a", "b"}
    Sup = "s"
    Subtasks = 2
    MaxWorkers = 2
    MaxMail = 1
    MaxCrashes = 1
INVARIANTS RecoverySafe ReturnAccounts BusSafe
PROPERTIES DeniedNotRepeated RecoveryReturns SettledNotRerun TeamEnds
CHECK_DEADLOCK FALSE
