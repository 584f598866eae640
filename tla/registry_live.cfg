\* The same instance under fair event loops.
CONSTANTS
    Conns = {c1, c2}
    Names = {n1}
    Ports = {p1}
    Boots = {b1, b2}
    None = None
    HttpPort = HttpPort
    Busy = {}
    Config <- Shared
    MaxList = 1
SPECIFICATION LiveSpec
PROPERTIES ClosedIsForgotten
CHECK_DEADLOCK FALSE
