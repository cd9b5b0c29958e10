SPECIFICATION FairSpec
CONSTANTS
    n1 = n1
    n2 = n2
    n3 = n3
    n4 = n4
    Settings <- MCCrash
    None = None
PROPERTIES
    CrashedAreLeftOut
ACTION_CONSTRAINT OneAtATime
CHECK_DEADLOCK FALSE
