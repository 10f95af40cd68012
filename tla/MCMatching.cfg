SPECIFICATION MatchSpec
CONSTANTS
    Words <- MCWords
    Entries <- MCEntries
    Alias <- MCAlias
    Postings <- MCPostings
    ShortOfHalf <- MCShortOfHalf
    MaxSkills = 2
    MaxYears = 22
INVARIANTS
    FitIsExcellent
    VerdictsAgree
PROPERTY
    GainsNeverLower
CHECK_DEADLOCK FALSE
