SPECIFICATION EventsSpec
CONSTANTS
    Publishers = {"t1", "t2"}
    Transactors = {"t1"}
    Kinds = {"STEP_FAILED", "GRAPH_COMPLETED", "RECOVERY_STARTED", "GRAPH_STARTED"}
    MaxEvents = 3
INVARIANTS PollExact
CHECK_DEADLOCK FALSE
