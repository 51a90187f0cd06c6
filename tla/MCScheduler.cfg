CONSTANTS
    j1 = j1  j2 = j2  j3 = j3  t1 = t1  t2 = t2
    Jobs <- ThreeJobs
    Targets <- TwoTargets
    TargetOf <- Shared
    StartupRefresh <- SomeStartup
    MaxConcurrency = 1
    MaxAttempts = 2
    PromptHandover = FALSE
SPECIFICATION Spec
INVARIANTS SlotAccounting SingleFlight DispatchNeverBlocks CancelNeverMarksDown
PROPERTY BoundedSpec
SYMMETRY SameTargetSymmetry
CHECK_DEADLOCK FALSE
