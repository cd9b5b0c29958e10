SPECIFICATION QuickSpec
CONSTANTS
    Node = {n1, n2, n3, n4}
    Silent = {}
    First = n1
    MaxOutputs = 4
    MaxRound = 0
    None = None
    No = No
    Skip = Skip
PROPERTIES
    RoundEnds
CHECK_DEADLOCK FALSE
