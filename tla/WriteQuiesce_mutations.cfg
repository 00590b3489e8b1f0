\* A card mutation that may await its commit locked, and a playbook one, on a
\* private repository and on a shared one, with a pull or a manual sync, or with
\* a shutdown.
CONSTANTS
    c1 = c1 c2 = c2 b1 = b1 pA = pA pB = pB
    Job = {c1, b1}
    CardJob = {c1}
    Project = {pA, pB}
    ProjectOf <- Partition
    BufferSize = 1
    Cancellable = {}
    NoJob = NoJob
    Nobody = Nobody
    Settings <- All
SPECIFICATION WFairSpec
INVARIANTS
    MergeSeesCommittedTree
    CommitsReachRemote
    PullSeesStillStore
PROPERTIES
    EveryMutationEnds
    EverySyncEnds
