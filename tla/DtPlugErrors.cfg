CONSTANTS
    Packets <- PacketKinds
    DTPP_MAX_ERROR_STORED = 1
    StoredBytes = {0, 3}
SPECIFICATION DtPlugSpec
INVARIANT ErrorsFit
