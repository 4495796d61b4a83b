\* the bounds are explained in README.md
CONSTANTS
    Modes <- MCModes
    Refusals = {{"gain"}}
    TableSizes = {1, 2}
    PoolSize = 3
    MaxHeld = 1
    KeepMax = 2
    MaxExposure = 4
    MaxFrame = 3
    MaxStreams = 2
CHECK_DEADLOCK FALSE
SPECIFICATION Spec
INVARIANTS TypeOK ReportedIsUsed
PROPERTIES LogSpec
