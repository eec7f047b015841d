CONSTANTS
    Default = Default
    c1 = c1
    c2 = c2
    Config = {Default, c1, c2}
    Look = {0}
    NoFeatures = NoFeatures
    ramps = ramps
    Mask = {NoFeatures, ramps}
    Blank = Blank
    Torn = Torn
    MaxCuts = 2
    MaxFaults = 1
    MaxCount = 1
    Builds <- MCBuilds
    NoKey = NoKey
    Fold = Fold
    NotASerial = NotASerial
    Serial = {s1}
    MaxCounter = 3
    MetaState = {"valid", "pending"}
    LogLength = 2
    Wrap = 8
    HostTime <- MCHostTime
    MaxUptime = 5
    Window = {0, 2, 3}
    MaxWindow = 2
    MaxMishaps = 2

SYMMETRY Hosts
SPECIFICATION KeptSpec
INVARIANT SerialKept
INVARIANT PreviousExpires
PROPERTY ConfigurationKept
 
