SPECIFICATION HSpec
CONSTANTS
    Null = Null
    n1 = n1
    t1 = t1
    a1 = a1
    w1 = w1
    NoNode = NoNode
    NoType = NoType
    Half = 4
    Ids = {n1}
    Types = {t1}
    Values = {1}
    Addrs = {a1}
    Workers = {w1}
    UniqueKeys = TRUE
    Ops = {"addNode", "addSensor", "removeNode", "removeSensor"}
    Ticks = {"autoNode", "autoSensor", "pause"}
    Unticks = {"pause"}
    Faults = {}
    MaxIgnored = 2
PROPERTIES
    SettingsHonoured
