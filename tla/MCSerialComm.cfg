SPECIFICATION FairSpec
CONSTANTS
    Packets = 2
    MotePackets = 3
    AckWanted = {1, 2}
    cMaxBufferSize = 2
    maxRetries = 1
    Line = 1
    Faults = {"damage", "leave"}
INVARIANTS
    TypeOK
    GivenUpAfterAllRetries
    NoSilentLoss
    InOrder
    ReadsAccounted
PROPERTIES
    ThreadsGetOn
CHECK_DEADLOCK FALSE
