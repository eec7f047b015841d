CONSTANTS
    a = a
    c = c
    hw = hw
    Image = {a, c}
    Signed = {a}
    Size <- MCSizes
    Version <- MCVersions
    RollbackCounter <- MCCounters
    HardwareOf <- MCHardwares
    HardwareIds = {hw}
    THIS_HARDWARE_ID = hw
    BootVersion <- MCBootVersion
    MinCounter = 0
    PAGE = 2
    AppPages = 1
    RecordChunks = 1
    PATCH_UNKNOWN = PATCH_UNKNOWN
    Erased = Erased
    TornCell = TornCell
    Noise = Noise
    NoChunk = NoChunk
    META_RECORD_SLOTS = 2
    Blank = Blank
    TornRecord = TornRecord
    FrameCells = {a, c}
    MaxStarts = 3
    MaxFaults = 0
    MaxCuts = 0
    Attempts <- MCAttempts
    DigestChunks = 2
    Tries = 1
    TickMayPreempt = {TRUE, FALSE}
    MaxAttempts = 2
    MaxLosses = 1

SPECIFICATION UpdateSpec
INVARIANT CleanAttemptArrivesWhole
PROPERTY BridgeKeepsPromise
CHECK_DEADLOCK FALSE
