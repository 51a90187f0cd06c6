CONSTANTS
    t1 = t1  t2 = t2
    Targets <- Both
    Deadlined = {t2}
    GlobalBurst = 1
    TargetBurst = 2
    MaxAttempts = 2
    RunnerAttempts = 2
    MaxCalls <- Calls
    Failures = {"throttleCode", "accessDenied", "otherCode"}
SPECIFICATION FairSpec
INVARIANTS BurstBounded ThrottleVisible PermanentEndsRefresh
PROPERTY RefreshEnds
