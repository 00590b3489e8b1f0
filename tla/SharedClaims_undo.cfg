CONSTANTS
    i1 = i1 i2 = i2
    Inst = {i1, i2}
    Nobody = Nobody
    Transitions <- Moves
    HeartbeatTimeout = 2
    PullInterval = 0
    LeaseInterval = 1
    LeaseTimeout = 4
    MaxAttempts = 2
    Skews = {0}
    Faults = {"refused"}
    Starts = {"in_progress"}
    Kinds = {"claim"}
    MaxTime = 1
    MaxCalls = 2
    MaxFaults = 1
    MaxCrashes = 0
SPECIFICATION Spec
PROPERTY ClaimOutranksUndo
