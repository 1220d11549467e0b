SPECIFICATION FairSpec
CONSTANTS
    HostMessages = 3
    RadioMessages = 2
    UART_QUEUE_LEN = 1
    RADIO_QUEUE_LEN = 2
    ACK_QUEUE_SIZE = 1
    Faults = {"start", "send", "damage", "tx"}
INVARIANTS
    TypeOK
    BuffersOwnedOnce
    BridgedInOrder
    AckedWasReceived
    FrameAccepted
PROPERTIES
    EnteredLeaves
CHECK_DEADLOCK FALSE
