\* the bounds are explained in README.md
CONSTANTS
    b1 = b1
    b2 = b2
    Bufs <- MCBufs2
    NDev = 2
    MaxSeq = 4
    NeedLuma = TRUE
    LumaMayDrop = TRUE
    ParamsMayFail = TRUE
    QueueMayFail = TRUE
    MaxFlip = 0
CHECK_DEADLOCK FALSE
SPECIFICATION Spec
SYMMETRY MCSymmetry2
INVARIANTS TypeOK CacheMatchesReady SameExposure NoOverwrite
