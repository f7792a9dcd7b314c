CONSTANTS
    m1 = m1
    p = p
    Messages = {m1, p}
    Undecodable = {p}
    MaxConcurrency = 1
    QueueCapacity = 1
    FetchBatch = 2
    MaxDeliveries = 2
SPECIFICATION FairSpec
CHECK_DEADLOCK FALSE
INVARIANT PoisonIsRecorded
PROPERTY OwnershipEnds
