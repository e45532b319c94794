SPECIFICATION MCSpec
CONSTANTS
    Calls = {c1, c2}
    Actions = {a1, a2}
    MaxRequests = 2
    MaxRuns = 2
    MaxRestarts = 1
INVARIANTS EffectSafe LedgerTruthful
PROPERTIES NoReplayAfterRestart
SYMMETRY Symmetry
CHECK_DEADLOCK FALSE
