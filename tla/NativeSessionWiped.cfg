CONSTANTS
    Workspaces = {w1, w2}
    None = None
    w1 = w1
    w2 = w2
    Native = {w1}
    MaxAttempts = 2
    MaxToken = 2
    MaxFailures = 0
    MaxCrashes = 0
SPECIFICATION Spec
CHECK_DEADLOCK FALSE
INVARIANT WipedSlotIsEmpty
