SPECIFICATION FairSpec
CONSTANTS
    Sockets = {w1, w2, w3, w4}
    None = None
    Stored = {None, 1}
    FirstSecret = 1
    LastSecret = 2
    MaxLogins = 1
    MaxStops = 1
CHECK_DEADLOCK FALSE
PROPERTIES
    Reconnects
