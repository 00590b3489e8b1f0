----------------------------- MODULE ClaimMerge -----------------------------
(***************************************************************************)
(* How two instances' versions of one card are merged: the claim tuple of  *)
(* internal/boardmerge, with its state, holder, claim time, lease and      *)
(* epoch.  A claim is the instance that granted it, one agent for each.    *)
(* worker_status and phase, which follow the rules of the other scalars,   *)
(* the activity log and the fields outside the tuple are left out.         *)
(***************************************************************************)
EXTENDS Integers

CONSTANTS Inst, Nobody

ASSUME InstAssumption == Nobody \notin Inst

State == {"todo", "in_progress", "stalled", "done", "not_planned"}
Terminal == {"done", "not_planned"}

\* A nil timestamp, older than every other.
Nil == -1
Stamp == Nat \cup {Nil}

Card == [state : State, via : Inst \cup {Nobody}, at : Stamp, beat : Stamp,
         epoch : Nat, updated : Nat]

Cleared(c) == [c EXCEPT !.via = Nobody, !.at = Nil, !.beat = Nil]

BareStall(c) == c.state = "stalled" /\ c.via = Nobody
ReleasedInto(c) == c.via = Nobody /\ c.state \notin Terminal

\* The three-way choice for a scalar; later breaks a real conflict for ours.
Pick(b, o, t, later) ==
    IF o = t \/ t = b THEN o ELSE IF o = b \/ ~later THEN t ELSE o

\* For the claim time and the lease the newer one breaks it.
PickTime(b, o, t) == Pick(b, o, t, o > t)

\* A terminal state a side moved into absorbs the other side's.
MergeState(b, o, t, later) ==
    LET winner == IF t.state \in Terminal THEN t.state ELSE o.state
        absorbs == (o.state \in Terminal) # (t.state \in Terminal)
    IN  IF absorbs /\ winner # b.state THEN winner
        ELSE Pick(b.state, o.state, t.state, later)

\* The side with the higher epoch, unless it is a guess the other disproves.
Outranks(high, low) ==
    IF BareStall(high) /\ low.state \in Terminal THEN low ELSE high

\* Both sides claimed an unclaimed card, each through its own instance.
DoubleClaim(b, o, t) ==
    b.via = Nobody /\ o.via # Nobody /\ t.via # Nobody /\ o.via # t.via

MergeFields(b, o, t, later) ==
    [state |-> MergeState(b, o, t, later),
     via |-> Pick(b.via, o.via, t.via, later),
     at |-> PickTime(b.at, o.at, t.at),
     beat |-> PickTime(b.beat, o.beat, t.beat),
     epoch |-> o.epoch, updated |-> o.updated]

MergeClaim(b, o, t, later) ==
    LET raised == o.epoch > b.epoch IN
    IF o.epoch > t.epoch THEN Outranks(o, t)
    ELSE IF t.epoch > o.epoch THEN Outranks(t, o)
    ELSE IF raised /\ ReleasedInto(o) /\ t.via # Nobody THEN t
    ELSE IF raised /\ ReleasedInto(t) /\ o.via # Nobody THEN o
    ELSE IF DoubleClaim(b, o, t) THEN (IF o.at < t.at THEN o ELSE t)
    ELSE MergeFields(b, o, t, later)

\* Mutant: the two sides' claim and state are merged and not looked at again.
MutantNoRepair(b, o, t) ==
    LET later == o.updated > t.updated IN
    [MergeClaim(b, o, t, later) EXCEPT !.updated = IF later THEN o.updated ELSE t.updated]

\* The merge of a card both sides wrote: the tuple, the later updated, and the
\* repair of a cancelled card that is still claimed.
MergeCard(b, o, t) ==
    LET later == o.updated > t.updated
        merged == [MergeClaim(b, o, t, later) EXCEPT
                     !.updated = IF later THEN o.updated ELSE t.updated]
    IN  IF merged.state = "not_planned" THEN Cleared(merged) ELSE merged
=============================================================================
