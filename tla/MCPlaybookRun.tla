---------------------------- MODULE MCPlaybookRun ----------------------------
EXTENDS PlaybookRun, TLC
CONSTANTS c1, c2, m1, MaxCalls, MaxPeople, MaxFaults, MaxRestarts
\* A manual step may be added to the two cards.
TwoCards == <<c1, c2>>
Bounds == [calls |-> MaxCalls, people |-> MaxPeople, faults |-> MaxFaults,
           restarts |-> MaxRestarts]
=============================================================================
