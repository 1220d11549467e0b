SPECIFICATION FairSpec
CONSTANTS
    Light <- Levels
    QUEUE_SIZE = 4
    Faults = {"start", "send", "refuse"}
INVARIANTS
    TypeOK
    QueueIsSafe
PROPERTIES
    PacketStable
    SensorPowered
    RadioServed
    LevelHeard
CHECK_DEADLOCK FALSE
