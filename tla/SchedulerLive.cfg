CONSTANTS
    j1 = j1  j2 = j2  j3 = j3  t1 = t1  t2 = t2
    Jobs <- TwoJobs
    Targets <- TwoTargets
    TargetOf <- Apart
    StartupRefresh <- OneStartup
    MaxConcurrency = 1
    MaxAttempts = 2
    PromptHandover = TRUE
SPECIFICATION FairSpec
PROPERTIES RefreshRecurs RunReturns
