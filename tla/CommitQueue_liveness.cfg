\* Two jobs of one project, a one-slot buffer, any number of pauses and drains.
CONSTANTS
    j1 = j1 j2 = j2 j3 = j3 pA = pA pB = pB
    Job = {j1, j2}
    Project = {pA}
    ProjectOf <- BothInOne
    BufferSize = 1
    Cancellable = {j1, j2}
    NoJob = NoJob
SPECIFICATION FairSpec
PROPERTIES
    EveryJobAnswered
    CloseCompletes
