CONSTANTS
    f1 = f1
    f2 = f2
    f3 = f3
    Names <- MC_Names
    Bytes = {2}
    Sizes = {0, 1, 2}
    MaxFiles = 3
    IntWidth = 3
    Builds = {"n-1", "n"}

INIT Init
NEXT Next
CHECK_DEADLOCK FALSE

INVARIANT TypeOK
INVARIANT ExtractedIsPrefix
