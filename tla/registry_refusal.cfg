\* Two clients that may register the same port.
CONSTANTS
    Conns = {c1, c2}
    Names = {n1}
    Ports = {p1}
    Boots = {b1, b2}
    None = None
    HttpPort = HttpPort
    Busy = {}
    Config <- Shared
    MaxList = 2
SPECIFICATION Spec
INVARIANTS RefusalSparesHolder
CHECK_DEADLOCK FALSE
