CONSTANTS
    Workspaces = {w1}
    None = None
    w1 = w1
    Native = {w1}
    MaxAttempts = 2
    MaxToken = 2
    MaxFailures = 4
    MaxCrashes = 1
SPECIFICATION FairSpec
CHECK_DEADLOCK FALSE
INVARIANTS TypeOK   
PROPERTIES WipedStaysEmpty FlowsEnd
