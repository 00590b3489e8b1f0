---------------------------- MODULE MCWorkerLife ----------------------------
EXTENDS WorkerLife
\* With the sweep off nothing is lost and nobody intervenes.
Alone == [sweeps |-> FALSE, launches |-> 2, stops |-> 0, edits |-> 0, faults |-> 0, restarts |-> 0]
Stopped == [sweeps |-> TRUE, launches |-> 2, stops |-> 1, edits |-> 0, faults |-> 1, restarts |-> 0]
Crashed == [sweeps |-> TRUE, launches |-> 1, stops |-> 0, edits |-> 1, faults |-> 1, restarts |-> 1]
Edited == [sweeps |-> TRUE, launches |-> 2, stops |-> 0, edits |-> 2, faults |-> 0, restarts |-> 0]
Every == {Alone, Stopped, Crashed, Edited}
=============================================================================
