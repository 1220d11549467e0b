SPECIFICATION Spec
CONSTANTS
    Null = Null
    n1 = n1
    t1 = t1
    a1 = a1
    w1 = w1
    NoNode = NoNode
    NoType = NoType
    Half = 4
    Ids = {n1}
    Types = {t1}
    Values <- SignedValues
    Addrs = {a1}
    Workers = {w1}
    UniqueKeys = TRUE
    Ops = {"reset", "removeSensor", "addSensor", "removeNode"}
    Ticks = {"calibrate"}
    Unticks = {"calibrate"}
    Faults = {"db", "gui", "restart"}
    MaxIgnored = 0
INVARIANTS
    ForwardedInUnit
PROPERTIES
    OnlyWidens
