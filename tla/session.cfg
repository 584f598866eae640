\* Two connections, one row, one name, two administration calls.
SPECIFICATION LiveSpec
CONSTANTS
    Chans = {c1, c2}
    Names = {n1}
    Rows = {r1}
    None = None
    Main = Main
    Reboot = Reboot
    Other = Other
    MaxCalls = 2
INVARIANTS
    TypeOK
    OneConnection
    StateIsHonest
    RefusedIsRetried
PROPERTIES
    ComesBack
CHECK_DEADLOCK FALSE
