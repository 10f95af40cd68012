SPECIFICATION Spec
CONSTANTS
    Requests = {r1, r2, r3}
    Devices = {d1}
    MaxSessions = 1
    MaxTime = 2
    Ops = {"login", "refresh", "logout", "revoke", "lock", "unlock"}
SYMMETRY Symmetry
INVARIANTS
    RotationNeverForks
    RevokedStaysRevoked
    LimitSettles
CHECK_DEADLOCK FALSE
