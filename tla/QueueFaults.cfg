SPECIFICATION Spec
CONSTANTS
    i1 = i1
    i2 = i2
    p1 = p1
    p2 = p2
    Ids = {i1}
    NoId = NoId
    Pids = {p1}
    PidOf <- OnePid
    Scheduled = {}
    DueAt <- DueAtOne
    Priorities = {1, 5}
    Requests = {r1, r2}
    Slots = {s1, s2}
    MaxConcurrent = 1
    RetryLimits = {0, 1}
    Ops = {"add", "remove", "retry", "reorder"}
    RetryFrom <- UiRetries
    PathsFound = {TRUE, FALSE}
    Faults = TRUE
    MaxChannel = 1
    MaxTime = 0
    MaxCrashes = 1
SYMMETRY Symmetry
CHECK_DEADLOCK FALSE
INVARIANTS
    TypeOK
    NoLostItem
    DownloadingIsOwned
PROPERTIES
    Durable
