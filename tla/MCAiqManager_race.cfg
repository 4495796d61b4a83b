\* the bounds are explained in README.md
SPECIFICATION Spec
CHECK_DEADLOCK FALSE
CONSTANTS
    m1 = m1
    m2 = m2
    n = n
    hdr2 = hdr2
    hdr3 = hdr3
    Users <- MCUsers
    Main = m1
    Modes <- MCModes
    Normal = n
    Faults <- MCNone
    Concurrent = TRUE
    MaxRst = 1
SYMMETRY MCSymmetry
INVARIANTS
    StopStops
