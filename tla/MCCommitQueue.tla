--------------------------- MODULE MCCommitQueue ---------------------------
EXTENDS CommitQueue, TLC
CONSTANTS j1, j2, j3, pA, pB
\* Two jobs of one project contend for its worker, the third runs beside them.
TwoAndOne == (j1 :> pA) @@ (j2 :> pA) @@ (j3 :> pB)
\* Two jobs behind each other in one project.
BothInOne == (j1 :> pA) @@ (j2 :> pA)
=============================================================================
