CONSTANT Period = 3
SPECIFICATION TimedSpec
INVARIANT TimedInv
PROPERTIES
    OncePerPeriod
    StopReturns
