CONSTANTS
    a = a
    c = c
    hw = hw
    Image = {a}
    Signed = {a}
    Size <- MCSizes
    Version <- MCVersions
    RollbackCounter <- MCCounters
    HardwareOf <- MCHardwares
    HardwareIds = {hw}
    THIS_HARDWARE_ID = hw
    BootVersion <- MCBootVersion
    MinCounter = 0
    PAGE = 2
    AppPages = 2
    RecordChunks = 1
    PATCH_UNKNOWN = PATCH_UNKNOWN
    Erased = Erased
    TornCell = TornCell
    Noise = Noise
    NoChunk = NoChunk
    META_RECORD_SLOTS = 2
    Blank = Blank
    TornRecord = TornRecord
    FrameCells = {a, Noise}
    MaxStarts = 1
    MaxFaults = 0
    MaxCuts = 2

SPECIFICATION FairSpec
INVARIANT IInv
PROPERTY PendingResolves
PROPERTY SessionEnds
PROPERTY StartsApplication
CHECK_DEADLOCK FALSE
