CONSTANTS
    a1 = a1
    a2 = a2
    NoAccount = NoAccount
    Accounts <- MC_Accounts
    MaxId = 2
    MaxDepth = 2
    MaxLog = 3
    MaxCounts = {1, 2}
    Messages <- MC_Messages

INIT Init
NEXT Next

INVARIANT ReceiverQueryMatches
