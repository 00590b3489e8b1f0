--------------------------- MODULE CommitService ---------------------------
(***************************************************************************)
(* What CommitQueue promises its callers, with no worker, channel, counter *)
(* or pause in it: an accepted commit is carried out after every commit of *)
(* its project whose Enqueue had returned before its own began, one commit *)
(* of a project at a time, it is answered once and truthfully, and a       *)
(* shutdown refuses new commits but answers all it has accepted.           *)
(***************************************************************************)
EXTENDS Integers, Sequences, FiniteSets

CONSTANTS Project, Job, ProjectOf

VARIABLES
    accepting,    \* Close has not been called
    finished,     \* Close has returned
    asked,        \* where each caller is in Enqueue
    earlier,      \* the commits a commit must come after
    history,      \* the commits made, in order
    answer        \* what each caller was told

svars == <<accepting, finished, asked, earlier, history, answer>>

Init ==
    /\ accepting = TRUE /\ finished = FALSE
    /\ asked = [j \in Job |-> "new"]
    /\ earlier = [j \in Job |-> {}]
    /\ history = <<>>
    /\ answer = [j \in Job |-> "none"]

Peers(j) == {i \in Job \ {j} : ProjectOf[i] = ProjectOf[j]}
Made(j) == \E n \in 1..Len(history) : history[n] = j

\* It is j's turn: what must come first has been answered, and no other commit
\* of its project is made and not answered.
Turn(j) ==
    /\ asked[j] = "accepted" /\ answer[j] = "none"
    /\ \A i \in earlier[j] : answer[i] # "none"
    /\ \A i \in Peers(j) : Made(i) => answer[i] # "none"

Ask(j) ==
    /\ accepting /\ asked[j] = "new"
    /\ asked' = [asked EXCEPT ![j] = "asking"]
    /\ earlier' = [earlier EXCEPT ![j] = {i \in Peers(j) : asked[i] = "accepted"}]
    /\ UNCHANGED <<accepting, finished, history, answer>>

Accept(j) ==
    /\ asked[j] = "asking"
    /\ asked' = [asked EXCEPT ![j] = "accepted"]
    /\ UNCHANGED <<accepting, finished, earlier, history, answer>>

Refuse(j) ==
    /\ ~accepting /\ asked[j] = "new"
    /\ asked' = [asked EXCEPT ![j] = "refused"]
    /\ answer' = [answer EXCEPT ![j] = "closed"]
    /\ UNCHANGED <<accepting, finished, earlier, history>>

Commit(j) ==
    /\ Turn(j) /\ ~Made(j)
    /\ history' = Append(history, j)
    /\ UNCHANGED <<accepting, finished, asked, earlier, answer>>

\* A failed commit may have reached the history: the caller was told it failed
\* while git was being killed.
Reply(j) ==
    /\ Turn(j)
    /\ \E res \in {"nil", "failed", "ctx"} :
         /\ res = "nil" => Made(j)
         /\ res = "ctx" => ~Made(j)
         /\ answer' = [answer EXCEPT ![j] = res]
    /\ UNCHANGED <<accepting, finished, asked, earlier, history>>

Close ==
    /\ accepting /\ accepting' = FALSE
    /\ UNCHANGED <<finished, asked, earlier, history, answer>>

Finish ==
    /\ ~accepting /\ ~finished
    /\ \A j \in Job : asked[j] # "new" => answer[j] # "none"
    /\ finished' = TRUE
    /\ UNCHANGED <<accepting, asked, earlier, history, answer>>

Next == \/ \E j \in Job : Ask(j) \/ Accept(j) \/ Refuse(j) \/ Commit(j) \/ Reply(j)
        \/ Close \/ Finish

Spec == Init /\ [][Next]_svars
=============================================================================
