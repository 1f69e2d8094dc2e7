SPECIFICATION Bench
CONSTANTS
    ExpBits = 3
    FracBits = 3
INVARIANTS
    WidthsSuffice
    CorrectlyRounded
    StatusTruthful
