SPECIFICATION Spec
CONSTANTS
    Slots = {s1, s2}
    Accounts = {a1, a2}
    AttemptLimit = 2
    MaxPasswords = 2
    MaxTokens = 1
    MaxGuesses = 5
    MaxFaults = 1
    None = None
SYMMETRY Symmetry
INVARIANTS
    TypeOK
    GuessesBounded
PROPERTIES
    ActiveIsKept
CHECK_DEADLOCK FALSE
