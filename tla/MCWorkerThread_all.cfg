\* the bounds are explained in README.md
CONSTANTS
    t1 = t1
    t2 = t2
    Workers <- MCWorkers
    MaxPush = 2
    MaxEpoch = 3
    ClearOnStart = FALSE
    SpuriousWakeups = TRUE
    LoopMayFail = TRUE
CHECK_DEADLOCK FALSE
SPECIFICATION FairSpec
INVARIANTS TypeOK StopIsSynchronous OneWorker FreshWork
PROPERTIES InOrder StopReturns WorkIsTaken ServiceSpec
