SPECIFICATION ForgottenSpec
CONSTANTS
    Node = {n1, n2, n3, n4}
    Silent = {}
    First = n1
    MaxOutputs = 2
    MaxRound = 1
    None = None
    No = No
    Skip = Skip
SYMMETRY Symmetry
ACTION_CONSTRAINTS
    FewOutputs
INVARIANTS
    Agreement
CHECK_DEADLOCK FALSE
