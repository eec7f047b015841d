CONSTANTS
    g = g
    h = h
    Head = {g, h}
    Assignments <- MCAssignments
    Switches <- MCSwitches
    Waits = {1}
    MN_LEGACY_LISTEN = 2
    MN_SELECT_TIMEOUT = 2
    MN_STATUS_PERIOD = 1
    BL_SELECT_LAPSE = 1
    BL_ADDRESSED_LAPSE = 2
    Window = 1
    Splash = 1
    MaxFrames = 3
    MaxMishaps = 1

SPECIFICATION Spec
INVARIANT SelectionLapses
INVARIANT NewcomerWaits
INVARIANT ClashStops
INVARIANT TwinKnown
PROPERTY StartIsForMe
