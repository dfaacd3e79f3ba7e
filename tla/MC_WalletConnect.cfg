CONSTANTS
    th1 = th1
    th2 = th2
    NoThread = NoThread
    Threads <- MC_Threads
    MaxCalls = 3

SPECIFICATION Spec
CHECK_DEADLOCK FALSE

INVARIANT TypeOK
INVARIANT RunTaskUsesImpl
PROPERTY CallsReturn
