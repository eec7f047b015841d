CONSTANTS
    a = a
    c = c
    hw = hw
    Image = {a, c}
    Signed = {a, c}
    Size <- MCSizes
    Version <- MCVersions
    RollbackCounter <- MCCounters
    HardwareOf <- MCHardwares
    HardwareIds = {hw}
    THIS_HARDWARE_ID = hw
    BootVersion <- MCBootVersion
    MinCounter = 0
    PAGE = 2
    AppPages = 2
    RecordChunks = 1
    PATCH_UNKNOWN = PATCH_UNKNOWN
    Erased = Erased
    TornCell = TornCell
    Noise = Noise
    NoChunk = NoChunk
    META_RECORD_SLOTS = 2
    Blank = Blank
    TornRecord = TornRecord
    FrameCells = {a, c}
    MaxStarts = 2
    MaxFaults = 0
    MaxCuts = 1

SPECIFICATION Spec
INVARIANT ResumeCopiesVerified
CHECK_DEADLOCK FALSE
