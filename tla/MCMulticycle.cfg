CONSTANTS
    Width = 14
    Programs <- MCPrograms
    InitialPC = 4096
    RamWords = 2
    PowerUp = {5}
    MaxResets = 1
SPECIFICATION Spec
INVARIANT IInv
PROPERTIES
    ImplementsInstructionSet
CHECK_DEADLOCK FALSE
