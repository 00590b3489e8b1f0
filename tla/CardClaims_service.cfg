\* Every operation, commits and flushes that may fail, crashes.
CONSTANTS
    o1 = o1 o2 = o2 o3 = o3 a1 = a1 a2 = a2
    Op = {o1, o2, o3}
    Agent = {a1, a2}
    Transitions <- Moves
    Timeout = 1
    MaxTime = 2
    Plans <- All
    Nobody = Nobody
SPECIFICATION Spec
SYMMETRY Symmetry
INVARIANTS
    DirtyIsAccounted
    AcknowledgedClaimHolds
    NoStrandedEdit
    CancelledIsUnclaimed
PROPERTY
    AliveIsNotStalled
CHECK_DEADLOCK FALSE
