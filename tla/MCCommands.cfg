SPECIFICATION Spec
CONSTANTS
    Ids = {blue, lamp, red}
    Blue = blue
    Red = red
    Addrs = {server}
    Server = server
    Clients = {c1, c2}
    Null = null
    Sent = {"on", "off", "other"}
    Faults = {"db", "gui", "cut"}
    MaxLate = 1
SYMMETRY ClientSymmetry
INVARIANTS
    TypeOK
    AckedIsLit
    RefusedDoesNothing
