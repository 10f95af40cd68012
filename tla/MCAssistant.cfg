SPECIFICATION AssistantSpec
CONSTANTS
    Slots = {s1, s2}
    Names = {n1, n2}
    Avatars = {v1}
    Companies = {c1}
    Jobs = {j1}
    Budgets <- SomeBudgets
    Turns = {t1, t2}
    Intents = {"JOB_ADVISOR", "FAQ"}
    Offers = {1}
    Absent = Absent
SYMMETRY Symmetry
INVARIANTS
    AssistantTypeOK
    IdentityAgrees
    TurnSeesCv
    ConfirmedIsSaved
    OneRecord
CHECK_DEADLOCK FALSE
