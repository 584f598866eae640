\* Two names, fifteen sorts of request, of which two are sent.
SPECIFICATION Spec
CONSTANTS
    None = None
    Bad = Bad
    Empty = ""
    NoMatch = "no match"
    Rest <- MCRest
    Names = {"n", "m"}
    Deletes = {"n"}
    Catalogue <- Requests
    Version <- Http11
    Hosts = {"Host", "host"}
    Address <- Addresses
    MaxByte = 3
    MaxFrameLength = 45
    Timeout <- Timeouts
    GiveUp = 2
    KeepAlive = 6
    MaxRequests = 2
    MaxUnread = 2
INVARIANTS
    TypeOK
    DeadServerIsNoticed
    RequestsArriveWhole
    ServiceSeesItsOwnUrl
    AnswersArrive
CHECK_DEADLOCK FALSE
