CONSTANTS
    TempAccount = 0
    MinerAccount = 3
    Accounts <- MC_Accounts
    Keys <- MC_Keys
    ChainIds = {1}
    ChainId = 1
    MaxRecursion = 2
    MaxSigs = 2
    ActiveChoices <- MC_ActiveChoices
    OwnerChoices <- MC_OwnerChoices
    TxChoices <- MC_TxChoices
    WalletKeySets <- MC_WalletKeySets

INIT MC_Init
NEXT Next

INVARIANT FastPathAgrees
