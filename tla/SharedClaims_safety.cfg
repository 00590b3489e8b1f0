CONSTANTS
    i1 = i1 i2 = i2
    Inst = {i1, i2}
    Nobody = Nobody
    Transitions <- Moves
    HeartbeatTimeout = 1
    PullInterval = 0
    LeaseInterval = 0
    LeaseTimeout = 2
    MaxAttempts = 2
    Skews = {0}
    Faults = {}
    Starts = {"in_progress"}
    Kinds = {"claim", "stall", "heartbeat", "release", "move", "sweep"}
    MaxTime = 3
    MaxCalls = 3
    MaxFaults = 0
    MaxCrashes = 0
SPECIFICATION Spec
SYMMETRY Symmetry
INVARIANTS
    STypeOK
    HolderKnows
    CancelledIsUnheld
PROPERTY LiveLeaseStands
