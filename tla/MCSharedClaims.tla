--------------------------- MODULE MCSharedClaims ---------------------------
EXTENDS SharedClaims, TLC
CONSTANTS i1, i2
\* The ways a card in progress ends.
Moves == {<<"in_progress", "done">>, <<"in_progress", "not_planned">>}
Symmetry == Permutations(Inst)
=============================================================================
