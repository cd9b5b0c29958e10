SPECIFICATION EitherSpec
CONSTANTS
    Node = {n1, n2, n3, n4}
    Silent = {}
    Proposer = n1
    Value = {v1, v2}
    NoHash = NoHash
ACTION_CONSTRAINT FirstOnly
INVARIANTS
    TypeOK
    LockHasBlock
    LockAfterQuorum
    FinishLockedOnce
PROPERTIES
    FinishOrStranded
CHECK_DEADLOCK FALSE
