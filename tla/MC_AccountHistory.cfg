CONSTANTS
    Accounts <- MC_Accounts
    MaxOps = 4
    PageSize = 2
    Limits = {1}
    OpChoices <- MC_OpChoices

INIT Init
NEXT Next

INVARIANT TypeOK
INVARIANT HistoryFromBeginningMatches
INVARIANT SearchResultsDescendingMatches
INVARIANT PaginationEquivalentWithoutAppends
