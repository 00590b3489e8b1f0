\* A private repository: one card and one playbook mutation against a rebase.
CONSTANTS
    c1 = c1 c2 = c2 b1 = b1 pA = pA pB = pB
    Job = {c1, b1}
    CardJob = {c1}
    Settings <- Private
    Project = {pA, pB}
    ProjectOf <- Partition
    BufferSize = 1
    Cancellable = {c1}
    NoJob = NoJob
    Nobody = Nobody
SPECIFICATION WSpec
INVARIANT
    RebaseNeverRacesCommit
