CONSTANTS
    MaxStarts = 3
    ExitModes = {"throw"}
    Destructors = {"stop"}
    RemoveAllFails = FALSE
    NoTask = NoTask
SPECIFICATION Spec
INVARIANT CheckedMeansContent
CHECK_DEADLOCK FALSE
