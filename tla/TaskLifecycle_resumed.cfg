SPECIFICATION Spec
CONSTANTS
    MaxCancels = 1
    MaxTools = 1
    MaxRestarts = 1
    HasPlanner = FALSE
PROPERTIES CancelStopsWork
CHECK_DEADLOCK FALSE
