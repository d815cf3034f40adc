SPECIFICATION FairSpec
CONSTANTS
    i1 = i1
    i2 = i2
    p1 = p1
    p2 = p2
    Ids = {i1, i2}
    NoId = NoId
    Pids = {p1, p2}
    PidOf <- TwoPids
    Scheduled = {i2}
    DueAt <- DueAtOne
    Priorities = {5}
    Requests = {r1}
    Slots = {s1, s2}
    MaxConcurrent = 1
    RetryLimits = {0, 1}
    Ops = {"add"}
    RetryFrom <- UiRetries
    PathsFound = {TRUE}
    Faults = FALSE
    MaxChannel = 0
    MaxTime = 1
    MaxCrashes = 1
CHECK_DEADLOCK FALSE
PROPERTIES
    QueuedIsServed
    ScheduledIsServed
    DownloadSettles
