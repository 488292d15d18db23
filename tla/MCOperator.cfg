SPECIFICATION FairSpec
CONSTANTS
    Operators = {1, 2}
    Scenarios <- MCScenarios
    MaxDisturbances = 1
INVARIANT ObservedIsApplied
PROPERTY Converges
CHECK_DEADLOCK FALSE
