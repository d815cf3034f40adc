SPECIFICATION Spec
CONSTANTS
    i1 = i1
    i2 = i2
    p1 = p1
    p2 = p2
    Ids = {i1, i2}
    NoId = NoId
    Pids = {p1}
    PidOf <- SamePid
    Scheduled = {}
    DueAt <- DueAtOne
    Priorities = {5}
    Requests = {r1, r2}
    Slots = {s1, s2}
    MaxConcurrent = 1
    RetryLimits = {0}
    Ops = {"add"}
    RetryFrom <- UiRetries
    PathsFound = {TRUE}
    Faults = FALSE
    MaxChannel = 1
    MaxTime = 0
    MaxCrashes = 0
SYMMETRY Symmetry
CHECK_DEADLOCK FALSE
INVARIANTS
    OneActiveRowPerPid
