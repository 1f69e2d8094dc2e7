CONSTANTS
    Items = {i1, i2}
    Producers = {p1, p2}
    Owner = owner
    Worker = worker
    Nobody = nobody
    MaxSends = 3
    MaxSessions = 2
SPECIFICATION Spec
INVARIANTS
    IInv
PROPERTIES
    ImplementsChannel
    StopReturns
    ItemsSettle
