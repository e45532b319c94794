SPECIFICATION MCSpec
CONSTANTS
    MaxCancels = 1
    MaxTools = 1
    MaxRestarts = 2
    HasPlanner = FALSE
    Publishers = {"t1", "t2"}
    Transactors = {"t1"}
    Kinds = {"STEP_FAILED", "GRAPH_COMPLETED", "RECOVERY_STARTED", "GRAPH_STARTED"}
    MaxEvents = 3
    Callers = {"c1"}
    Http <- MCHttp
    Names = {"m"}
    Endpoints = {"loopback", "lan", "https", "http"}
    Requests <- MCRequests
    MaxSwitches = 2
    MaxCalls = 2
    MaxSkills = 2
    MaxVersion = 2
    ToolSets = {"x", "y"}
    Candidates = {"p"}
    Curators = {"u1", "u2"}
INVARIANTS CrashSafe OutcomeTruthful EventsSafe RoutingSafe
PROPERTIES CancelStopsTools TaskSettles SkillsSafe
CHECK_DEADLOCK FALSE
