SPECIFICATION SlowNodeSpec
CONSTANTS
    Node = {n1, n2, n3, n4}
    Silent = {}
    MaxHeight = 2
    MaxEpoch = 1
    MaxLosses = 0
    MaxProposals = 4
SYMMETRY Symmetry
INVARIANTS
    NoBlockSkipped
CHECK_DEADLOCK FALSE
