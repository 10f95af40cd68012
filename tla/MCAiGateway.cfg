SPECIFICATION Spec
CONSTANTS
    Requests = {r1, r2}
    Deployments <- MCDeployments
    MinuteLimit = 2
    DayLimit = 2
    MinuteReserve <- MCMinuteReserve
    DayReserve <- MCDayReserve
    Thresholds <- MCThresholds
    MinuteTicks = 1
    DayMinutes = 2
    MinWait = 1
    MaxRetries = 1
    MaxTime = 2
    MaxFaults = 1
    None = None
SYMMETRY Symmetry
INVARIANTS
    ReservesHold
    AlarmOnce
PROPERTIES
    WaitedDenialIsOver
CHECK_DEADLOCK FALSE
