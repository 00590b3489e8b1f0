CONSTANTS
    c1 = c1 c2 = c2 m1 = m1
    Card = {c1, c2}
    Manual = {m1}
    Initial <- TwoCards
    NoEntry = NoEntry
    Slot = {1, 2, 3}
    MaxCalls = 3
    MaxPeople = 1
    MaxFaults = 1
    MaxRestarts = 1
    MaxEvents = 3
    Bound <- Bounds
SPECIFICATION FairSpec
INVARIANTS
    PTypeOK
    ActiveRunIsWalked
    StoppedRunIsQuiet
    ShutdownStrandsNothing
PROPERTIES
    QueuedOnce
    OneWorkerAtATime
    RunSettles
CHECK_DEADLOCK FALSE
