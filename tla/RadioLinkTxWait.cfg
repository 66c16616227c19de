CONSTANTS
    FifoSize = 64
    DataSize = 28
    AckSize = 8
    IdMod = 2
    LoopLimit = 1
    MaxForeign = 1
    None = None
    Interference = FALSE
    MaxMessages = 1
SPECIFICATION FairSpec
PROPERTIES
    WaitForTxEnds
