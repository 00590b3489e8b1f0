\* Commits may fail, as one whose caller hangs up does.
CONSTANTS
    o1 = o1 o2 = o2 o3 = o3 a1 = a1 a2 = a2
    Op = {o1, o2}
    Agent = {a1, a2}
    Transitions <- Moves
    Timeout = 1
    MaxTime = 2
    Plans <- OnlyHungUp
    Nobody = Nobody
SPECIFICATION Spec
SYMMETRY Symmetry
INVARIANTS
    SubstratesAgree
CHECK_DEADLOCK FALSE
