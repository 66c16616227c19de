CONSTANTS
    RingSize = 6
    MaxFrame = 4
    MaxBytes = 8
    Garbage = Garbage
    OutBuffSize = 2
    MaxWritten = 2
    MaxStray = 1
    MaxOn = 2
    Transactions <- I2cTransactions
    MaxCalls = 2
    FifoSize = 2
    FrameCounts = {0, 1, 5}
    MAX_SYSTICK_CALLBACKS = 2
    TickCallbacks <- TwoCallbacks
    TickPeriods = {1, 2}
    TickLengths = {1, 2}
    SleepTimes = {0, 3}
    CountdownWidth = 4
    MaxSeconds = 2
    LastMsec = 1
    Packets <- DtPackets
    DTPP_MAX_ERROR_STORED = 1
    StoredBytes = {0, 3}
    Registers <- TmpRegisters
    PageSize = 4
    MemSize = 8
    WriteCalls <- EepromWrites
    FrameSizes = {1}
    LineLimit = 1
    DebtLimit = 3
    SectorSize = 2
    BlockSizes = {1, 2}
    Blocks = {0, 1}
    Values <- SectorValues
    Columns = 2
    Pages = 2
    TileWidth = 2
    TcConfigs <- TimerUses
    PwmConfigs <- PwmUses
    NewMatches = {0}
    CounterSize = 3
    Pins = {0, 1}
    RedPin = 0
    GreenPin = 1
    SensesUsed = {"falling", "low", "unknown"}
    RtcDelay = 2
    RtcPeriods = {0, 1}
    MaxCount = 3
    MaxSetups = 2
    AdcChannels = {0, 1}
    Heads = {h1, h2}
    Entries = {e1, e2, e3}
    NULL = NULL
    PACKET_DATA_SIZE = 4
    SlavePackets <- ModulePackets
    Datagrams = {"UT"}
    MaxPackets = 2
    MaxDebug = 1
    MaxLost = 1
    MaxRequests = 1
    Channel0s = {0, 7, 50}
    Channel1s = {0, 1, 20, 60}
    ChScale = 1024
    CS = FALSE
    RfFifoSize = 6
    RfBufferSize = 6
    RfLengths = {1}
    MaxRfFrames = 2
    MaxRfPackets = 1
    FreqSels = {1, 4}
    BaudRates = {115200, 1152000}
    I2cRates = {100000}
    SspRates = {4000000}
    Stages = {"normal", "uniform"}
    CharBytes = {0, 48, 255}
    EpLines = 2
    StageTime = 2
    TickWrap = 3
    MaxStages = 2
    NB_LEDS = 3
    Colours = {"red", "blue"}
    LedSets = 2
    Readings = {0, 200}
    MaxPairs = 2
    Changes = {1, 128}
    MessageIds = 2
    FlashAddresses = {0, 512, 65024, 65536}
    ImageSizes = {512, 1024}
    Millisecond = 8
    TickMs = 1
    Waits = {1, 5, 8, 12, 16}
    Late = 1
    Unsigned = 64
SPECIFICATION BoardSpec
INVARIANTS
    BoardTypeOK
    SentIsReceived
    PairsStayTogether
    WrittenInOrder
    RepliesInOrder
    CalledEveryPeriod
    SleepsItsTicks
    LockedTimeIsWhole
    StoppedIsStopped
    AnsweredOnce
    FramesAreRead
    ClockKept
    OnlyItsPlace
    OwnAnswers
    ReceivedIsWhole
    ReadsWhatWasWritten
    ShownIsDrawn
    NibblesInStep
    EpaperIsSafe
    HostLinkHolds
PROPERTIES
    EverythingIsSent
    ImplementsBus
    PacketStays
    ListsAreSequences
    CallsReturn
CHECK_DEADLOCK FALSE
