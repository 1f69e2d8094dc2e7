SPECIFICATION Spec
CONSTANTS
    BUFF_SIZE = 2
    MsgRoom = 4
    RxRoom = 1
    MaxPresses = 2
    MaxKeys = 0
PROPERTIES
    PressesPrinted
CHECK_DEADLOCK FALSE
