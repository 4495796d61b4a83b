\* the bounds are explained in README.md
CONSTANTS
    u1 = u1
    u2 = u2
    i1 = i1
    i2 = i2
    Users <- MCUsers
    Items <- MCItems
    MaxFrame = 1
    Restarts = FALSE
CHECK_DEADLOCK FALSE
SPECIFICATION FairSpec
PROPERTIES StopEndsWait
