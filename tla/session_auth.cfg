\* Two connections, one name, no administration.
SPECIFICATION LiveSpec
CONSTANTS
    Chans = {c1, c2}
    Names = {n1}
    Rows = {r1}
    None = None
    Main = Main
    Reboot = Reboot
    Other = Other
    MaxCalls = 0
PROPERTIES
    AuthRegisters
CHECK_DEADLOCK FALSE
