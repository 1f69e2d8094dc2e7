CONSTANTS
    NumSymbols = 2
    InitialDelay = 10
    MaxDelay = 30
    MaxAttempts = 3
    Width = 6
    MaxSignals = 2
    MaxErrors = 2
SPECIFICATION Spec
INVARIANTS
    IInv
    BackoffExact
PROPERTIES
    GivesUp
    StopEndsLoop
CHECK_DEADLOCK FALSE
