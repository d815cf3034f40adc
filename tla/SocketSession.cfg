SPECIFICATION FairSpec
CONSTANTS
    Sockets = {w1, w2, w3, w4}
    None = None
    Stored = {None, 1}
    FirstSecret = 1
    LastSecret = 1
    MaxLogins = 2
    MaxStops = 2
CHECK_DEADLOCK FALSE
INVARIANTS
    TypeOK
    ConnectedIsTrue
    Persistent
PROPERTIES
    Reconnects
