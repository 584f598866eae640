\* Two clients, one name, one port, any mix of both kinds of registration.
CONSTANTS
    Conns = {c1, c2}
    Names = {n1}
    Ports = {p1}
    Boots = {b1, b2, b3}
    None = None
    HttpPort = HttpPort
    Busy = {}
    Config <- Shared
    MaxList = 2
SPECIFICATION Spec
SYMMETRY Symmetry
INVARIANTS TypeOK NoDanglingRoute PublishedBootServes NoOwnerlessListener
PROPERTIES RoutesFollowLease PortsFollowLease
CHECK_DEADLOCK FALSE
