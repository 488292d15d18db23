SPECIFICATION Spec
CONSTANTS
    Servers = {1, 2}
    Scenarios <- MCScenarios
    MinTtl = 1
    MaxTtl = 3
    DefaultTtl = 2
    Retention = 1
    SweepBatch = 1
    PolicyLimit = 2
    Horizon = 2
INVARIANTS
    CopiesAgree
    DecisionsAreJustified
PROPERTY
    RevocationIsFinal
CHECK_DEADLOCK FALSE
