CONSTANTS
    accounts1 = accounts1  org1 = org1  forecast2 = forecast2
    t1 = t1  t2 = t2  r1 = r1  None = None
    Collectors <- MCCollectors
    Targets <- MCTargets
    TargetOf <- MCTargetOf
    Items <- MCItems
    Partials <- MCPartials
    PolicyTargets <- MCPolicyTargets
    Allowlist <- MCAllowlist
    SeriesLimit = 1
    Readers = {r1}
    MaxTime = 2
    MaxWrites = 4
SPECIFICATION Spec
INVARIANTS SnapshotIsMerge NoLostUpdate CrossTargetIsolation AgeNonNegative SeriesAccounting
PROPERTIES LastSuccessMonotone AtomicSpec
