CONSTANTS
    FifoSize = 64
    DataSize = 28
    AckSize = 8
    IdMod = 2
    LoopLimit = 1
    Interference = TRUE
    MaxMessages = 3
    MaxForeign = 1
    None = None
SPECIFICATION FairSpec
INVARIANTS
    TypeOK
    AcknowledgedIsPrinted
PROPERTIES
    PrintedInOrder
    EveryMessageIsAcknowledged
