SPECIFICATION Spec
CONSTANTS
    Null = Null
    n1 = n1
    t1 = t1
    a1 = a1
    w1 = w1
    w2 = w2
    NoNode = NoNode
    NoType = NoType
    Half = 4
    Ids = {n1}
    Types = {t1}
    Values = {1}
    Addrs = {a1}
    Workers = {w1, w2}
    UniqueKeys = FALSE
    Ops = {"addNode", "addSensor", "setAddress"}
    Ticks = {"autoNode", "autoSensor", "calibrate"}
    Unticks = {"autoNode", "calibrate"}
    Faults = {"db", "vw", "restart"}
    MaxIgnored = 1
INVARIANTS
    TypeOK
    Recognised
    NoOrphanSensors
    NoFault
PROPERTIES
    ImplementsForwarding
SYMMETRY Symmetry
