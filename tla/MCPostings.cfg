SPECIFICATION Spec
CONSTANTS
    Slots = {s1, s2}
    Companies = {c1, c2}
    Ids = {p1, p2}
    Candidates = {r1}
    MaxChanges = 2
    MaxViews = 1
    None = None
SYMMETRY Symmetry
INVARIANTS
    CachesSettle
PROPERTIES
    SwitchedOffHasEnded
    CascadeHolds
CHECK_DEADLOCK FALSE
