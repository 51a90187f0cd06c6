CONSTANT MaxQueries = 2
SPECIFICATION FairSpec
INVARIANTS NeverAbandoned RowsOnlyFromSuccess
PROPERTY QueryReturns
