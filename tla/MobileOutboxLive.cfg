CONSTANTS
    Workspaces = {w1}
    NoWorkspace = none
    MaxMessages = 2
SPECIFICATION FairSpec
CHECK_DEADLOCK FALSE
PROPERTY QueueIsServed
