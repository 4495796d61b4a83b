\* the bounds are explained in README.md
CONSTANTS
    b1 = b1
    b2 = b2
    Bufs <- MCBufs2
    NDev = 2
    MaxSeq = 3
    NeedLuma = TRUE
    LumaMayDrop = FALSE
    ParamsMayFail = FALSE
    QueueMayFail = FALSE
    MaxFlip = 0
CHECK_DEADLOCK FALSE
SPECIFICATION FairSpec
PROPERTIES EveryFrameServed
