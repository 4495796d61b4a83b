\* the bounds are explained in README.md
SPECIFICATION FairSpec
CHECK_DEADLOCK FALSE
CONSTANTS
    u1 = u1
    u2 = u2
    sw = sw
    lin = lin
    Users <- MCUsers
    Kinds <- MCKinds
    Values = {0, 1}
    Memory = {0}
    Default = 1
    MaxCalls = 3
INVARIANTS TypeOK NewestWins
PROPERTIES OneConfigPerFrame SignalledIsApplied SetReturns EventuallyTaken
