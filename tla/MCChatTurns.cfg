SPECIFICATION Spec
CONSTANTS
    Requests = {r1, r2, r3}
    Sessions = {c1, c2, c3}
    Limit = 1
    MaxLength = 2
    CarryOver = 1
    MaxDays = 2
    MaxFaults = 1
    MaxRunning = 2
    None = None
SYMMETRY Symmetry
INVARIANTS
    ChargeSettles
    NumbersIdentifyMessages
    AnswersStayInReach
PROPERTIES
    QuotaIsAnAllowance
    ClosedTakesNothing
CHECK_DEADLOCK FALSE
