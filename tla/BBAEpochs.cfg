SPECIFICATION Spec
CONSTANTS
    n1 = n1
    n2 = n2
    n3 = n3
    n4 = n4
    Settings <- MCSettings
    None = None
INVARIANTS
    AgreementUnlessMiscounted
    DecisionWasInput
SYMMETRY Symmetry
ACTION_CONSTRAINT OneAtATime
CHECK_DEADLOCK FALSE
