CONSTANTS
    Bases <- MCBases
    TagKeys <- MCTagKeys
    MaxValues <- MCMaxValues
    MaxCurrencies = 2
    Order <- MCOrder
    AccountIDs = {"a", "b", "c"}
    Today = 2
    MonthEnd = 4
    Services <- MCServices
    Values <- MCValues
    Tries <- MCTries
SPECIFICATION Spec
INVARIANTS TotalsConserved SeriesBounded LargestKept DuplicatesHaveCause RefusedForCause
INVARIANTS MetadataExposed AcceptedConfigStarts JobsMatchConfiguration SelectionFits
