\* A client with a name on the default port and a name on a port, which may
\* reconnect, and one with a name on a port that the host itself holds.
CONSTANTS
    c1 = c1
    c2 = c2
    c3 = c3
    n1 = n1
    n2 = n2
    n3 = n3
    p1 = p1
    p2 = p2
    Conns = {c1, c2, c3}
    Names = {n1, n2, n3}
    Ports = {p1, p2}
    Boots = {b1, b2, b3}
    None = None
    HttpPort = HttpPort
    Busy = {p2}
    Config <- Private
    MaxList = 2
SPECIFICATION InTurnSpec
SYMMETRY BootSymmetry
INVARIANTS ToldRouteLeadsHome ToldPortIsServed
CHECK_DEADLOCK FALSE
