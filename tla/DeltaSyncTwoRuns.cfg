CONSTANTS
    NItems = 2
    Runners = {project, thread}
    Transcript = TRUE
    PageLimit = 1
    Window = 2
    Retention = 2
    MaxNow = 7
    MaxGen = 1
SPECIFICATION Spec
CHECK_DEADLOCK FALSE
INVARIANT ResyncSweeps
