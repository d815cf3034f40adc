SPECIFICATION FairSpec
CONSTANTS
    Sockets = {s1, s2}
    Items = {1, 2}
    PageSize = 1
    Buffer = 1
    Reports = {"failed"}
    Wire = 1
    MaxChanges = 2
    Calls = {c1, c2}
CHECK_DEADLOCK FALSE
INVARIANTS
    TypeOK
    OncePerSource
PROPERTIES
    Converges
