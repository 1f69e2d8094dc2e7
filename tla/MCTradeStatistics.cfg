CONSTANTS
    CandleMinutes = 2
    Window = 1
    Samples <- MCSamples
    Ahead = 1
    FirstMinute = 2
    LastMinute = 4
    MaxTrades = 3
SPECIFICATION Spec
INVARIANTS
    IInv
    CandlesFaithful
    AverageFaithful
PROPERTIES
    ExportCountsWindow
    RowLacksOneTrade
CHECK_DEADLOCK FALSE
