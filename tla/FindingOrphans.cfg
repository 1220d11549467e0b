SPECIFICATION Spec
CONSTANTS
    Null = Null
    n1 = n1
    t1 = t1
    a1 = a1
    w1 = w1
    NoNode = NoNode
    NoType = NoType
    Half = 4
    Ids = {n1}
    Types = {t1}
    Values = {1}
    Addrs = {a1}
    Workers = {w1}
    UniqueKeys = TRUE
    Ops = {"removeNode"}
    Ticks = {"autoNode", "autoSensor"}
    Unticks = {}
    Faults = {}
    MaxIgnored = 1
INVARIANTS
    NoOrphansAtRest
