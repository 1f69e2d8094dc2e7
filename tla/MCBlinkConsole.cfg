SPECIFICATION Spec
CONSTANTS
    BUFF_SIZE = 2
    MsgRoom = 3
    RxRoom = 2
    MaxPresses = 2
    MaxKeys = 4
INVARIANTS
    IInv
    ReportsTruthful
PROPERTIES
    LineSwitchesTimer
    KeysHandled
CHECK_DEADLOCK FALSE
