CONSTANTS
    Boards <- MCBoards
    ShortLimit = 1
    LongLimit = 3
    LoopMax = 2
    SplashRounds = 2
    StallLimit = 4
    ScreenPeriod = 1
    OffLimit = 3
    OffRise = 2
    Band = 0
    MaxTarget = 6
    MaxTemp = 6
    WatchPeriod = 3
    WatchMinRise = 1
    WatchBand = 1
    HoldPeriod = 3
    HoldHysteresis = 2
    PulseCeiling = 2
    PeriodCeiling = 2
    Modulus = 8
    Moves = {0, 1, 2}
    Pulses = {0, 1, 3}
    Periods = {0, 1, 3}
SPECIFICATION Spec
INVARIANT OutputsAreBounded
INVARIANT ErrorQuiets
INVARIANT SafeStopHolds
INVARIANT SilentSensorCaught
INVARIANT NoStepBeyondCommand
PROPERTY NothingStartsUnderError
