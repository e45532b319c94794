SPECIFICATION MCSpec
CONSTANTS
    N = 3
    MaxConcurrency = 2
    MaxTools = 1
    MaxRestarts = 1
    Drafts <- MCDrafts
    MaxSteps = 3
    MaxRepairs = 2
INVARIANTS DependencyOrder ReturnsSettled PlanningSafe
PROPERTIES FailFastHalts SucceededNotRerun AbandonedStop ImplementsPlanRun RunReturns
CHECK_DEADLOCK FALSE
