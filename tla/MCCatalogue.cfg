SPECIFICATION Spec
CONSTANTS
    Slots = {s1, s2}
    Ids = {k1, k2}
    Names = {n1, n2}
    Users = {u1}
    Subscriptions = {b1, b2}
    Companies = {c1, c2}
    Limit = 1
    FollowLimit = 1
    MaxChanges = 4
    MaxReads = 1
    None = None
SYMMETRY Symmetry
INVARIANTS
    OnlyOverlapsExceed
    SubscribedToLabels
PROPERTIES
    ReadsThrough
CHECK_DEADLOCK FALSE
