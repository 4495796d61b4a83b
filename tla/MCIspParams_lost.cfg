\* the bounds are explained in README.md
SPECIFICATION Spec
CHECK_DEADLOCK FALSE
CONSTANTS
    goc = goc
    awb = awb
    Modules <- MCModules
    Flagged <- MCFlagged
    Forceable <- MCForceable
    Terse = {}
    PendingMax = 1
    KeepMax = 2
    Bufs = 2
    MaxFrame = 2
    MaxSerial = 4
    MaxStreams = 2
    MaxTwice = 2
    MayFail = TRUE
    MayRefuse = TRUE
INVARIANTS
    NoLostUpdate
