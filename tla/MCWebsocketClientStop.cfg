CONSTANTS
    NumSymbols = 1
    InitialDelay = 10
    MaxDelay = 30
    MaxAttempts = 1
    Width = 8
    MaxSignals = 1
    MaxErrors = 0
SPECIFICATION Spec
PROPERTY StopEndsRun
CHECK_DEADLOCK FALSE
