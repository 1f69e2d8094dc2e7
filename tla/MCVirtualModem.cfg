SPECIFICATION Spec
CONSTANTS
    Traces <- MCTraces
    MaxCalls = 4
    MaxLate = 2
    MaxErrors = 1
INVARIANTS
    IInv
    AnswersOwn
    TraceCovered
PROPERTIES
    CallsEnd
CHECK_DEADLOCK FALSE
