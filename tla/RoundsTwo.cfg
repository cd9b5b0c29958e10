SPECIFICATION FairSpec
CONSTANTS
    Node = {n1, n2, n3, n4}
    Silent = {n4}
    First = n1
    MaxOutputs = 3
    MaxRound = 1
    None = None
    No = No
    Skip = Skip
INVARIANTS
    TypeOK
PROPERTIES
    RoundEnds
CHECK_DEADLOCK FALSE
