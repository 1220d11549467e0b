SPECIFICATION LiveSpec
CONSTANTS
    Ids = {blue, red}
    Blue = blue
    Red = red
    Addrs = {server}
    Server = server
    Clients = {c1, c2}
    Null = null
    Sent = {"on"}
    Faults = {"db", "gui", "cut", "client", "net", "kit", "server", "panel"}
    MaxLate = 1
PROPERTIES
    PostsAnswered
    PauseStops
