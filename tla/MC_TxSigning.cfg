CONSTANTS
    TempAccount = 0
    MinerAccount = 3
    Accounts <- MC_Accounts
    Keys <- MC_Keys
    ChainIds = {1, 2}
    ChainId = 1
    MaxRecursion = 2
    MaxSigs = 2
    ActiveChoices <- MC_ActiveChoices
    OwnerChoices <- MC_OwnerChoices
    TxChoices <- MC_TxChoicesChain
    WalletKeySets <- MC_WalletKeySets

INIT MC_Init
NEXT Next

INVARIANT TypeOK
INVARIANT ForeignSignatureNeverAccepted
INVARIANT AcceptedOnlyIfAuthorized
INVARIANT IrrelevantRejectionRecoverable
INVARIANT MinimizeFailsOnlyIfUnsignable
