SPECIFICATION MailSpec
CONSTANTS
    Slots = {s1, s2}
    Tasks = {t1, t2}
    Applications = {a1}
    Candidate = u1
    Statuses = {x1, x2}
    HrUsers = {h1}
    Readers = {r1}
    Clients = {c1, c2}
    Notices = {1, 2, 3}
    Letters = {1, 2}
    MaxAttempts = 2
    MaxChanges = 3
    MaxFaults = 2
    Nothing = Nothing
SYMMETRY Symmetry
INVARIANTS
    MailTypeOK
    LastWordIsStatus
    OnlineIsConnected
CHECK_DEADLOCK FALSE
