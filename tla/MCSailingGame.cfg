CONSTANTS
    Height = 4
    Width = 6
    Island <- MCIsland
    FinishRow = 1
    FinishEnd = 1
    StartRow = 3
    NumPlayers = 2
    Fleets <- MCFleets
    Difficulty = 0
    Gusts = {4}
    MaxRounds = 3
    Phases = 2
    MaxMoves = 1
    Bonus = 1
    East = 2
SPECIFICATION Spec
INVARIANTS
    IInv
    WrecksAreTimed
    WinnersRounded
PROPERTIES
    MoveOrPay
    RammingIsMutual
CHECK_DEADLOCK FALSE
