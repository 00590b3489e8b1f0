\* Three jobs, two projects, a one-slot buffer: a second sender blocks.
CONSTANTS
    j1 = j1 j2 = j2 j3 = j3 pA = pA pB = pB
    Job = {j1, j2, j3}
    Project = {pA, pB}
    ProjectOf <- TwoAndOne
    BufferSize = 1
    Cancellable = {j1, j2}
    NoJob = NoJob
SPECIFICATION Spec
INVARIANTS
    TypeOK
    Accounting
    EnqueueOrder
    NoSendOnClosedChannel
    CloseLosesNothing
    LogMatchesAnswers
PROPERTY
    ImplementsCommitService
