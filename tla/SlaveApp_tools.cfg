CONSTANTS
    Channel = {0, 1}
    Period = {1, 2}
    Duration = {0, 1, 2}
    Byte = 4
    Deferred = {s40}
    Direct = {s42}
    NoSensor = NoSensor
    s40 = s40
    s42 = s42
    SilentLimit = 1
    WatchdogLimit = 2
    Uses <- MCUses
    Blocking = {s40, s41}
    Interleaved = {s40}
    s41 = s41
    Stepped = {s42}
    NoCamera = NoSensor
    MaxTriggers = 2

SPECIFICATION BoardSpec
INVARIANT ReadyIsOneFrame
INVARIANT SilenceStops
PROPERTY RequestServed
