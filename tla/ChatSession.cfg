CONSTANTS
    Session = {s1, s2}
    Caller = {a, b}
    Kinds <- Both
    MaxConcurrent = 1
    MaxSendFailures = 1
    MaxCalls = 3
    MaxSends = 2
    MaxFaults = 1
    MaxRestarts = 1
    Bound <- Bounds
SYMMETRY Symmetry
SPECIFICATION Spec
INVARIANTS
    CTypeOK
    WithinLimit
    ClosedIsEnded
    LiveIsBridged
    GivenOnce
    NobodyWaitsForever
CHECK_DEADLOCK FALSE
