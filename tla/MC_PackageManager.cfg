CONSTANTS
    MaxStarts = 3
    ExitModes = {"throw"}
    Destructors = {"stop"}
    RemoveAllFails = FALSE
    NoTask = NoTask
    MaxRefs = 2
SPECIFICATION MSpec
CHECK_DEADLOCK FALSE
INVARIANT MTypeOK
 
INVARIANT IdleWhenQuiescent
INVARIANT RestoredCheckedMeansContent
