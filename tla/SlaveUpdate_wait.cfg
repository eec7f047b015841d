CONSTANTS
    a = a
    c = c
    hw = hw
    Image = {a}
    Signed = {a}
    Size <- MCSizes
    Version <- MCVersions
    RollbackCounter <- MCCounters
    HardwareOf <- MCHardwares
    HardwareIds = {hw}
    THIS_HARDWARE_ID = hw
    BootVersion <- MCBootVersion
    MinCounter = 0
    PAGE = 2
    AppPages = 1
    RecordChunks = 1
    PATCH_UNKNOWN = PATCH_UNKNOWN
    Erased = Erased
    TornCell = TornCell
    Noise = Noise
    NoChunk = NoChunk
    META_RECORD_SLOTS = 2
    Blank = Blank
    TornRecord = TornRecord
    FrameCells = {a}
    MaxStarts = 1
    MaxFaults = 0
    MaxCuts = 0
    Attempts <- MCAttempts
    DigestChunks = 1
    Tries = 2
    TickMayPreempt = {FALSE}
    MaxAttempts = 1
    MaxLosses = 0

SPECIFICATION UpdateSpec
PROPERTY WaitsForSlave
CHECK_DEADLOCK FALSE
