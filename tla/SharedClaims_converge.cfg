CONSTANTS
    i1 = i1 i2 = i2
    Inst = {i1, i2}
    Nobody = Nobody
    Transitions <- Moves
    HeartbeatTimeout = 1
    PullInterval = 0
    LeaseInterval = 0
    LeaseTimeout = 2
    MaxAttempts = 2
    Skews = {0, 1}
    Faults = {"refused", "lost"}
    Starts = {"in_progress"}
    Kinds = {"claim", "force", "edit"}
    MaxTime = 1
    MaxCalls = 2
    MaxFaults = 1
    MaxCrashes = 1
SPECIFICATION Spec
PROPERTY BoardsAgree
