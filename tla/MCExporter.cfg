CONSTANTS
    total = total  budgets = budgets  t1 = t1  p1 = p1
    Jobs <- TwoJobs
    Targets <- OneTarget
    TargetOf <- Together
    StartupRefresh <- Startup
    MaxConcurrency = 1
    MaxAttempts = 1
    PromptHandover = FALSE
    Required = {total}
    Probes = {p1}
SPECIFICATION Spec
INVARIANTS CleanExitIsComplete ServeErrorReported
PROPERTY ReadinessFollowsData
