SPECIFICATION Spec
CONSTANTS
    Handlers = {r1}
    Grace = 2
    MaxLatency = 1
    MaxTime = 5
    MaxAttempts = 3
    MaxStalls = 1
    FaultKinds = {"stepFails"}
    MaxFaults = 1
    WriteKinds = {}
INVARIANT
    CompletedDeletionIsSoftDeleted
CHECK_DEADLOCK FALSE
