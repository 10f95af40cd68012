SPECIFICATION FairSpec
CONSTANTS
    Submissions = {1}
    MaxAttempts = 2
    MaxFaults = 2
    MaxClicks = 1
INVARIANTS
    TypeOK
    
    
PROPERTIES
    ProcessingEnds
CHECK_DEADLOCK FALSE
