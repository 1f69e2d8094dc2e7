SPECIFICATION Spec
CONSTANTS
    Symbols <- MCSymbols
    SymbolLists <- MCSymbolLists
    DefaultSymbols <- MCDefaultSymbols
    Numbers <- MCNumbers
    CountChoices <- MCCountChoices
    IntBits = 4
    SizeBits = 8
    Unknown = "U"
    MaxWorkers = 2
    MaxTrades = 2
    MaxRounds = 1
INVARIANTS
    IInv
    OneOwnerPerSymbol
PROPERTIES
    ImplementsChannels
    TeardownEnds
    TradesSettle
CHECK_DEADLOCK FALSE
