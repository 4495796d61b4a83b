\* the bounds are explained in README.md
CONSTANTS
    u1 = u1
    u2 = u2
    i1 = i1
    i2 = i2
    Users <- MCUsers
    Items <- MCItems
    MaxFrame = 2
    Restarts = TRUE
CHECK_DEADLOCK FALSE
SPECIFICATION FairSpec
INVARIANTS TypeOK ItemsConserved RefStable
PROPERTIES WaiterServed TimedCallReturns
