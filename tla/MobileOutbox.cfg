CONSTANTS
    Workspaces = {w1, w2}
    NoWorkspace = none
    MaxMessages = 2
SPECIFICATION Spec
CHECK_DEADLOCK FALSE
INVARIANTS TypeOK HomeOnly StoredIsNotLost
SYMMETRY Symmetry
PROPERTIES QueueOrder
