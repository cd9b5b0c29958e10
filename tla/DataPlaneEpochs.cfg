SPECIFICATION EpochsSpec
CONSTANTS
    Node = {n1, n2, n3, n4}
    Silent = {}
    MaxHeight = 3
    MaxEpoch = 2
    MaxLosses = 1
    MaxProposals = 4
SYMMETRY Symmetry
ACTION_CONSTRAINT EitherBound
INVARIANTS
    TypeOK
    CertSound
    NoChainStuck
    SMVBANeverIdle
    CommittedCertified
PROPERTIES
    CommitInChainOrder
    CertNeverRegresses
    LogSteps
CHECK_DEADLOCK FALSE
