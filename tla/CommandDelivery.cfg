CONSTANTS
    Messages = {m1, m2}
    Undecodable = {}
    MaxConcurrency = 1
    QueueCapacity = 1
    FetchBatch = 2
    MaxDeliveries = 2
SPECIFICATION Spec
CHECK_DEADLOCK FALSE
SYMMETRY Symmetry
INVARIANTS TypeOK NoHeartbeatAfterAnswer NotRunTwice LedgerIsOwners CapacityRespected
 
