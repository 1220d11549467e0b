SPECIFICATION LoadedSpec
CONSTANTS
    Null = Null
    n1 = n1
    t1 = t1
    a1 = a1
    w1 = w1
    w2 = w2
    NoNode = NoNode
    NoType = NoType
    Half = 4
    Ids = {n1}
    Types = {t1}
    Values = {0, 1}
    Addrs = {a1}
    Workers = {w1, w2}
    UniqueKeys = TRUE
    Ops = {}
    Ticks = {"autoNode", "autoSensor", "calibrate"}
    Unticks = {"autoNode", "autoSensor"}
    Faults = {"vw", "restart"}
    MaxIgnored = 0
INVARIANTS
    NoHalfCalibration
PROPERTIES
    AutoRegistration
    CalibrationHappens
    AnswersReadings
