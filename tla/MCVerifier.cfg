CONSTANTS
    Callers = {c1, c2}
    MaxCreds = 3
    Belongs <- OnlySecond
    MaxCalls = 4
SPECIFICATION FairSpec
INVARIANTS VouchesForAccount OneFlight
PROPERTY VerifyReturns
