SPECIFICATION Spec
CONSTANTS
    c1 = c1
    c2 = c2
    c3 = c3
    Clients = {c1, c2, c3}
    Descriptors = {1, 2}
    Packets = 1
    cMaxBufferSize = 1
    Stalling = {}
    Deviating = {}
    Reuse = TRUE
INVARIANTS
    CountIsConnected
CHECK_DEADLOCK FALSE
