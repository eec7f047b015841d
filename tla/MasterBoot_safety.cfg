CONSTANTS
    a = a
    b = b
    c = c
    hw = hw
    other = other
    Image = {a, c}
    Signed = {a, c}
    Size <- MCSizes
    Version <- MCVersions
    RollbackCounter <- MCCounters
    HardwareOf <- MCHardwares
    HardwareIds = {hw, other}
    THIS_HARDWARE_ID = hw
    BootVersion <- MCBootVersion
    MinCounter = 0
    PAGE = 2
    AppPages = 2
    RecordChunks = 2
    PATCH_UNKNOWN = PATCH_UNKNOWN
    Erased = Erased
    TornCell = TornCell
    Noise = Noise
    NoChunk = NoChunk
    META_RECORD_SLOTS = 2
    Blank = Blank
    TornRecord = TornRecord
    FrameCells = {a, c}
    MaxStarts = 2
    MaxFaults = 1
    MaxCuts = 1

SPECIFICATION Spec
INVARIANT IInv
INVARIANT RecordsAreVouched
INVARIANT RunsWhatIsRecorded
INVARIANT WritesOnlyErased
PROPERTY MainChangesOnlyWhenPending
PROPERTY CounterNeverFalls
PROPERTY DowngradeWasAuthorized
PROPERTY BackupLostOnlyToStart
CHECK_DEADLOCK FALSE
