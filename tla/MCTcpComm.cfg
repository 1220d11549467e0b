SPECIFICATION FairSpec
CONSTANTS
    c1 = c1
    c2 = c2
    c3 = c3
    Clients = {c1, c2}
    Descriptors = {1, 2}
    Packets = 3
    cMaxBufferSize = 1
    Stalling = {c1}
    Deviating = {c1}
    Reuse = FALSE
INVARIANTS
    TypeOK
    CountIsRight
    OwedIsComing
PROPERTIES
    ClientServed
    PacketsLeave
CHECK_DEADLOCK FALSE
