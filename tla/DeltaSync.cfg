CONSTANTS
    NItems = 2
    Runners = {project}
    Transcript = FALSE
    PageLimit = 1
    Window = 2
    Retention = 2
    MaxNow = 7
    MaxGen = 2
SPECIFICATION FairSpec
CHECK_DEADLOCK FALSE
INVARIANTS TypeOK CursorCovers
PROPERTIES ResyncLosesNothing CatchesUp
