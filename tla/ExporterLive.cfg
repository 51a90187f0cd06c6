CONSTANTS
    total = total  budgets = budgets  t1 = t1  p1 = p1
    Jobs <- OneJob
    Targets <- OneTarget
    TargetOf <- Alone
    StartupRefresh <- AloneStartup
    MaxConcurrency = 1
    MaxAttempts = 1
    PromptHandover = FALSE
    Required = {total}
    Probes = {p1}
SPECIFICATION FairSpec
PROPERTY ProcessExits
