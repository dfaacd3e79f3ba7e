CONSTANTS
    TimeWidth = 4
    MaxTime = 6
    BlockInterval = 1
    PeriodSecs = {2, 3}
    PeriodCounts = {1, 2}
    Limits = {2}
    Amounts = {1, 2}
    InitBalance = 3

INIT Init
NEXT Next

INVARIANT TypeOK
PROPERTY ClaimKeepsSchedule
