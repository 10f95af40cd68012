SPECIFICATION FairSpec
CONSTANTS
    Handlers = {r1, r2}
    Grace = 2
    MaxLatency = 1
    MaxTime = 4
    MaxAttempts = 3
    MaxStalls = 1
    FaultKinds = {"abort", "workerCrash", "removeFails", "cacheLost", "stepFails"}
    MaxFaults = 2
    WriteKinds = {"sessions", "chat"}
INVARIANTS
    OnlyStragglersSurvive
    PendingAdmitsNoLogin
    CancelledSurvives
    EarlyDeletionNeedsLostAdd
PROPERTY
    ScheduleResolves
CHECK_DEADLOCK FALSE
