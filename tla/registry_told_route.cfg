\* Two clients that may register the same name on the default port.
CONSTANTS
    Conns = {c1, c2}
    Names = {n1}
    Ports = {p1}
    Boots = {b1, b2}
    None = None
    HttpPort = HttpPort
    Busy = {}
    Config <- SharedRoutes
    MaxList = 2
SPECIFICATION Spec
INVARIANTS ToldRouteLeadsHome
CHECK_DEADLOCK FALSE
