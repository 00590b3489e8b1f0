---------------------------- MODULE MCChatSession ----------------------------
EXTENDS ChatSession, TLC
CONSTANTS MaxCalls, MaxSends, MaxFaults, MaxRestarts
\* Two chats, or one blueprint.
Both == {[s \in Session |-> "chat"]} \cup
        {[s \in Session |-> IF s = b THEN "blueprint" ELSE "none"] : b \in Session}
Bounds == [calls |-> MaxCalls, sends |-> MaxSends, faults |-> MaxFaults,
           restarts |-> MaxRestarts]
Symmetry == Permutations(Caller) \cup Permutations(Session)
=============================================================================
