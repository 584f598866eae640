\* A client with one name on one port, another on the default port.
CONSTANTS
    c1 = c1
    c2 = c2
    c3 = c3
    n1 = n1
    n2 = n2
    n3 = n3
    p1 = p1
    p2 = p2
    Conns = {c1, c2}
    Names = {n1, n2, n3}
    Ports = {p1, p2}
    Boots = {b1, b2, b3}
    None = None
    HttpPort = HttpPort
    Busy = {}
    Config <- OnePortEach
    MaxList = 2
SPECIFICATION Spec
INVARIANTS BoundPortIsPublished
CHECK_DEADLOCK FALSE
