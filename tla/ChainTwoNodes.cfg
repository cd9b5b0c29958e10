SPECIFICATION Spec
CONSTANTS
    main = main
    wallet = wallet
    A = A
    B = B
    Node = {main, wallet}
    Main = main
    Wallets <- MCWallets
    Transfers <- MCTransfers
    Reward = 10
    MaxBlocks = 3
    MaxStops = 2
INVARIANTS
    SettledMeansSynced
    ConservedUnlessSpentTwice
    DoubleSpendsExplained
PROPERTIES
    CatchesUp
CONSTRAINT
    MCUnderWay
CHECK_DEADLOCK FALSE
