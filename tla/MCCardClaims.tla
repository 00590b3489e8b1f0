---------------------------- MODULE MCCardClaims ----------------------------
EXTENDS CardClaims, TLC
CONSTANTS o1, o2, o3, a1, a2
\* A board's main line, a reopen and a restart of a stalled card: a project
\* configures its moves, and these reach every state.
Moves == {<<"todo", "in_progress">>, <<"todo", "not_planned">>,
          <<"in_progress", "review">>, <<"review", "done">>,
          <<"done", "todo">>, <<"stalled", "in_progress">>}
\* How a claim begins, is kept and ends, with flushes that fail and crashes.
Claims == [kinds |-> {"claim", "release", "force", "heartbeat", "mutate", "restart"},
           reports |-> {}, failing |-> {"flush"}, until |-> 2]
\* What a run of the card writes and flushes.
Worker == [kinds |-> {"claim", "mutate", "usage", "worker", "promote", "force",
                     "restart"},
           reports |-> {"running", "failed", "completed"},
           failing |-> {"flush"}, until |-> 1]
\* Commits and flushes that fail, rollbacks that overlap, crashes.
Failures == [kinds |-> {"claim", "heartbeat", "mutate", "park", "push", "restart"},
             reports |-> {}, failing |-> {"card", "flush"}, until |-> 1]
\* Commits may fail, as one whose caller hangs up does.
HungUp == [kinds |-> {"claim", "mutate"}, reports |-> {}, failing |-> {"card"}, until |-> 2]
All == [claims |-> Claims, worker |-> Worker, failures |-> Failures]
OnlyHungUp == [hungUp |-> HungUp]
\* Calls and agents are interchangeable.
Symmetry == Permutations(Op) \cup Permutations(Agent)
=============================================================================
