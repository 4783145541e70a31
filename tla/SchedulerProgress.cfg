SPECIFICATION FairSpec
CONSTANTS
    t1 = t1
    t2 = t2
    loop1 = loop1
    loop2 = loop2
    caller1 = caller1
    caller2 = caller2
    Nobody = Nobody
    Id <- TwoIds
    Jobs <- TwoJobs
    Loop <- TwoLoops
    Caller <- TwoCallers
    MaxQueueSize = 3
    MaxTransfers = 2
    MaxCalls = 4
CHECK_DEADLOCK FALSE
INVARIANTS
    TypeOK
    WithinLimits
    StartIsUndisturbed
PROPERTIES
    LockGranted
    QueuedIsTaken
