---------------------------- MODULE SharedClaims ----------------------------
(***************************************************************************)
(* Instances of ContextMatrix that share one boards repository through its *)
(* git remote, and one card of it: claims, leases, fences, stalls, and the *)
(* sync cycle (fetch, integrate, apply, push, undo) that verifies a write  *)
(* against the remote before its caller is answered.                       *)
(*                                                                         *)
(* A push lands only as a fast-forward, so the merge base of an instance's *)
(* HEAD with the remote is the last tip the instance merged or pushed.     *)
(* Every write touches the card's file, so both sides changed it exactly   *)
(* when the instance is behind the remote and ahead of it.  A cycle holds  *)
(* the write locks: no local write comes between its steps, but other      *)
(* instances' cycles do.                                                   *)
(***************************************************************************)
EXTENDS ClaimMerge, FiniteSets

CONSTANTS
    Transitions,       \* the project's allowed moves, as pairs of states
    HeartbeatTimeout,  \* heartbeat_timeout
    PullInterval,      \* git_pull_interval
    LeaseInterval,     \* lease_interval
    LeaseTimeout,      \* lease_timeout
    MaxAttempts,       \* Syncer.maxAttempts
    Skews,             \* what the instances' clocks may differ by
    Faults,            \* bound: the ways a push may fail
    Starts,            \* bound: the card's states to begin with
    Kinds,             \* bound: what callers ask for
    MaxTime,           \* bound: the last instant
    MaxCalls,          \* bound: the calls and sweeps that write
    MaxFaults,         \* bound: pushes that fail
    MaxCrashes         \* bound: crashes

\* BoardsConfig refuses other timings.
ASSUME LeaseAssumption ==
    /\ Transitions \subseteq State \X State /\ Starts \subseteq State
    /\ {HeartbeatTimeout, PullInterval, LeaseInterval, LeaseTimeout} \subseteq Nat
    /\ LeaseInterval < HeartbeatTimeout
    /\ LeaseTimeout > HeartbeatTimeout + 2 * PullInterval + LeaseInterval
    /\ MaxAttempts \in Nat \ {0} /\ Skews \subseteq Nat
    /\ Faults \subseteq {"refused", "lost"}
    /\ {MaxTime, MaxCalls, MaxFaults, MaxCrashes} \subseteq Nat

VARIABLES
    now, skew,   \* the time of the slowest clock, and how far each is ahead of it
    tip,         \* the card on the remote, and since when its lease is there
    base,        \* the tip each instance's HEAD is based on
    behind,      \* and whether the remote has moved on
    local,       \* the card in each instance's HEAD, index and worktree
    ahead,       \* its HEAD has commits beyond that tip
    cycle,       \* where its sync cycle is
    asking,      \* its claim call: none, in a cycle, or about to be answered
    beats, confirmed, foreign,  \* the lock manager's three tables
    synced,      \* BoardsRepo.lastSync
    told,        \* history: it told an agent that it holds the card, and
                 \* nothing it did or published since has ended that claim
    sunk,        \* history: the remote let a claim go and showed no new epoch
    reopened,    \* history: a board has open what a holder closed on the remote
    calls, faults, crashes

cardVars == <<base, behind, local, ahead>>
leaseVars == <<beats, confirmed, foreign>>
oddities == <<sunk, reopened>>
bounds == <<calls, faults, crashes>>
vars == <<now, skew, tip, cardVars, cycle, asking, leaseVars, synced, told, oddities,
          bounds>>

Idle == [pc |-> "idle", call |-> "none", wrote |-> FALSE, attempt |-> 0,
         pulled |-> FALSE, read |-> Nobody, written |-> Nobody]
NoLease == [beat |-> Nil, epoch |-> Nil, seen |-> Nil]

STypeOK ==
    /\ now \in 0..MaxTime /\ skew \in [Inst -> Skews]
    /\ \A t \in {tip} \cup {base[i] : i \in Inst} : t \in [card : Card, since : 0..now]
    /\ \A i \in Inst :
        /\ local[i] \in Card /\ {ahead[i], behind[i]} \subseteq BOOLEAN
        /\ cycle[i].pc \in {"idle", "apply", "push", "again"}
        /\ cycle[i].attempt \in 0..(MaxAttempts - 1)
        /\ cycle[i].wrote => {cycle[i].read, cycle[i].written} \subseteq Card
        /\ asking[i] \in {"no", "running", "answer"}
        /\ {beats[i], confirmed[i], synced[i]} \subseteq Stamp
        /\ foreign[i] = NoLease \/ foreign[i].seen \in 0..now
        /\ told[i] \in BOOLEAN
    /\ {sunk, reopened} \subseteq BOOLEAN

Init ==
    /\ now = 0 /\ skew \in [Inst -> Skews] /\ \E i \in Inst : skew[i] = 0
    /\ \E s \in Starts :
        LET card == [state |-> s, via |-> Nobody, at |-> Nil, beat |-> Nil,
                     epoch |-> 0, updated |-> 0]
        IN  tip = [card |-> card, since |-> 0] /\ local = [i \in Inst |-> card]
    /\ base = [i \in Inst |-> tip] /\ behind = [i \in Inst |-> FALSE]
    /\ ahead = [i \in Inst |-> FALSE]
    /\ cycle = [i \in Inst |-> Idle] /\ asking = [i \in Inst |-> "no"]
    /\ beats = [i \in Inst |-> Nil] /\ confirmed = [i \in Inst |-> Nil]
    /\ foreign = [i \in Inst |-> NoLease] /\ synced = [i \in Inst |-> Nil]
    /\ told = [i \in Inst |-> FALSE] /\ sunk = FALSE /\ reopened = FALSE
    /\ calls = 0 /\ faults = 0 /\ crashes = 0

-----------------------------------------------------------------------------
(* The lock manager.  A lease is judged on the local clock alone, so its    *)
(* tables are in true time, which differs from that clock by a constant.    *)

Clock(i) == now + skew[i]
ClaimedElsewhere(i, card) == card.via \notin {i, Nobody}

\* The newer of the lease on file and the live beat, as the local clock reads.
LastBeat(i) ==
    LET live == beats[i] + skew[i] IN
    IF beats[i] # Nil /\ live > local[i].beat THEN live ELSE local[i].beat

Fenced(i) ==
    local[i].via = i /\ (confirmed[i] = Nil \/ now - confirmed[i] > LeaseTimeout)

\* Mutant: a lease that was renewed keeps the time it was first seen.
MutantObservedOnce(i, card) ==
    IF ~ClaimedElsewhere(i, card) THEN NoLease
    ELSE [beat |-> card.beat, epoch |-> card.epoch,
          seen |-> IF foreign[i] = NoLease THEN now ELSE foreign[i].seen]

Matches(lease, card) == lease.beat = card.beat /\ lease.epoch = card.epoch

Observed(i, card) ==
    IF ~ClaimedElsewhere(i, card) THEN NoLease
    ELSE IF Matches(foreign[i], card) THEN foreign[i]
    ELSE [beat |-> card.beat, epoch |-> card.epoch, seen |-> now]

LeaseExpired(i, card) ==
    /\ ClaimedElsewhere(i, card) /\ Matches(foreign[i], card)
    /\ now - foreign[i].seen > LeaseTimeout

StallCandidate(i, card) ==
    /\ LeaseExpired(i, card)
    /\ card.state \notin Terminal \cup {"stalled"}

ClearBeat(i) ==
    /\ beats' = [beats EXCEPT ![i] = Nil]
    /\ confirmed' = [confirmed EXCEPT ![i] = Nil]

Put(i, card) ==
    /\ local' = [local EXCEPT ![i] = card]
    /\ ahead' = [ahead EXCEPT ![i] = TRUE]

Dropped(i, card) ==
    [Cleared(card) EXCEPT !.epoch = @ + 1, !.updated = Clock(i)]
Stalled(i, card) == [Dropped(i, card) EXCEPT !.state = "stalled"]
EndClaim(i) == told' = [told EXCEPT ![i] = FALSE]

\* Open on a board, although its holder closed the card on the remote.
Reopens(kept, closed) ==
    closed.via # Nobody /\ closed.state \in Terminal /\ kept.state \notin Terminal

-----------------------------------------------------------------------------
(* Writes outside a cycle: committed through the queue and pushed later.    *)

Writes(i, kind) ==
    /\ kind \in Kinds /\ cycle[i].pc = "idle" /\ calls < MaxCalls
    /\ calls' = calls + 1
    /\ UNCHANGED <<now, skew, tip, base, behind, cycle, asking, foreign, synced,
                   sunk, faults, crashes>>

\* HeartbeatCard: a beat is written only when the lease on file is old enough.
Heartbeat(i) ==
    /\ Writes(i, "heartbeat") /\ told[i] /\ local[i].via = i
    /\ beats' = [beats EXCEPT ![i] = now]
    /\ IF Clock(i) - local[i].beat < LeaseInterval THEN UNCHANGED <<local, ahead>>
       ELSE Put(i, [local[i] EXCEPT !.beat = Clock(i), !.updated = Clock(i)])
    /\ UNCHANGED <<confirmed, told, reopened>>

ReleaseCard(i) ==
    /\ Writes(i, "release") /\ told[i] /\ local[i].via = i /\ ~Fenced(i)
    /\ Put(i, Dropped(i, local[i])) /\ ClearBeat(i) /\ EndClaim(i)
    /\ UNCHANGED reopened

\* A patch or a transition, by the holder (whose beat it renews) or by anyone
\* else.  A fenced claim refuses a change of state; a terminal one is a change
\* of the claim; a cancellation ends it.
Mutate(i, s, byHolder) ==
    LET old == local[i]
        moved == [old EXCEPT
                    !.state = s, !.updated = Clock(i),
                    !.beat = IF byHolder THEN Clock(i) ELSE @,
                    !.epoch = IF s # old.state /\ s \in Terminal THEN @ + 1 ELSE @]
    IN
    /\ Writes(i, IF s = old.state THEN "edit" ELSE "move")
    /\ byHolder => told[i] /\ old.via = i
    /\ s = old.state \/ <<old.state, s>> \in Transitions
    /\ s # old.state => ~Fenced(i)
    /\ reopened' = (reopened \/ Reopens(moved, base[i].card))
    /\ IF s # old.state /\ s = "not_planned"
       THEN Put(i, Cleared(moved)) /\ ClearBeat(i) /\ EndClaim(i)
       ELSE Put(i, moved) /\ UNCHANGED <<beats, confirmed, told>>

\* The sweep's stall of a claim of this instance whose agent fell silent, and
\* of a card in progress that nobody holds.
Stall(i) ==
    /\ Writes(i, "sweep") /\ ~Fenced(i)
    /\ \/ /\ local[i].via = i /\ Clock(i) - LastBeat(i) > HeartbeatTimeout
          /\ local[i].state \notin Terminal \cup {"stalled"}
       \/ /\ local[i].via = Nobody /\ local[i].state = "in_progress"
          /\ local[i].updated <= Clock(i) - HeartbeatTimeout
    /\ Put(i, Stalled(i, local[i])) /\ ClearBeat(i) /\ EndClaim(i)
    /\ UNCHANGED reopened

-----------------------------------------------------------------------------
(* The sync cycle.                                                          *)

\* What integrate leaves in HEAD: a fast-forward or a merge.
Integrated(i) ==
    IF ~behind[i] THEN local[i]
    ELSE IF ~ahead[i] THEN tip.card
    ELSE MergeCard(base[i].card, local[i], tip.card)

\* Mutant: only a higher epoch takes a claim away.
MutantLostByEpoch(i, before, after) ==
    /\ before.via = i /\ after.via # i /\ after.epoch > before.epoch

\* lostClaims publishes claim.lost; a terminal card that a pull left unclaimed
\* is announced as a change of its state.
LostClaim(i, before, after) ==
    /\ before.via = i /\ after.via # i
    /\ after.via # Nobody \/ after.epoch > before.epoch \/ after.state \in Terminal

\* reloadAfterPull: the index, the lost claims, the leases.
Pull(i) ==
    LET card == Integrated(i)
        lost == LostClaim(i, local[i], card)
        closed == card.via = Nobody /\ card.state \in Terminal
        moved == card.state # local[i].state
        gone == lost /\ ~closed
    IN
    /\ local' = [local EXCEPT ![i] = card]
    /\ base' = [base EXCEPT ![i] = tip] /\ behind' = [behind EXCEPT ![i] = FALSE]
    /\ told' = [told EXCEPT ![i] = @ /\ ~lost /\ ~(closed /\ moved)]
    /\ IF gone THEN ClearBeat(i) ELSE UNCHANGED <<beats, confirmed>>
    /\ foreign' = IF behind[i] THEN [foreign EXCEPT ![i] = Observed(i, card)]
                  ELSE foreign
    /\ reopened' = (reopened \/ Reopens(card, tip.card))
    /\ UNCHANGED <<now, skew, tip, ahead, synced, sunk>>

\* A cycle that a timer, a commit or a call starts; the foreign stall first
\* looks at its own copy of the card.  A fetch that fails changes nothing.
Fetch(i, call) ==
    /\ cycle[i].pc = "idle" /\ call \in Kinds \cup {"none"}
    /\ IF call = "none" THEN UNCHANGED calls
       ELSE calls < MaxCalls /\ calls' = calls + 1
    /\ call = "claim" => asking[i] = "no"
    /\ call = "stall" =>
        /\ StallCandidate(i, local[i])
        /\ synced[i] # Nil /\ now - synced[i] <= 2 * PullInterval
    /\ asking' = IF call = "claim" THEN [asking EXCEPT ![i] = "running"] ELSE asking
    /\ Pull(i)
    /\ cycle' = [cycle EXCEPT ![i] =
         [Idle EXCEPT !.pc = IF call = "none" THEN "push" ELSE "apply",
                      !.call = call, !.pulled = behind[i]]]
    /\ UNCHANGED <<faults, crashes>>

Applies(i, call) ==
    /\ cycle[i].pc = "apply" /\ cycle[i].call = call
    /\ UNCHANGED <<now, skew, tip, base, behind, synced, told, oddities, bounds>>

\* The write of a verified call, on the merged card.
Apply(i, card) ==
    /\ Put(i, card)
    /\ cycle' = [cycle EXCEPT ![i].pc = "push", ![i].wrote = TRUE,
                              ![i].read = local[i], ![i].written = card]
    /\ UNCHANGED <<asking, foreign>>

StallNothing(i) ==
    /\ Applies(i, "stall") /\ ~StallCandidate(i, local[i])
    /\ cycle' = [cycle EXCEPT ![i].pc = "push"]
    /\ UNCHANGED <<local, ahead, asking, leaseVars>>

\* An error of the write itself: answered as it is, and the cycle ends.
RefuseApply(i) ==
    /\ cycle' = [cycle EXCEPT ![i] = Idle]
    /\ asking' = [asking EXCEPT ![i] = IF cycle[i].call = "claim" THEN "no" ELSE @]
    /\ UNCHANGED <<local, ahead, leaseVars>>

\* Manager.Claim: the holder's own claim is a renewal; a claim of another
\* instance is taken over when its lease has expired.
Claimable(i) ==
    \/ local[i].via = i
    \/ /\ local[i].state \notin Terminal
       /\ local[i].via = Nobody \/ LeaseExpired(i, local[i])

ApplyClaim(i) ==
    LET renewed == [local[i] EXCEPT !.beat = Clock(i), !.updated = Clock(i)] IN
    /\ Applies(i, "claim") /\ Claimable(i)
    /\ beats' = [beats EXCEPT ![i] = now]
    /\ IF local[i].via = i THEN Apply(i, renewed) /\ UNCHANGED confirmed
       ELSE /\ Apply(i, [renewed EXCEPT !.via = i, !.at = Clock(i), !.epoch = @ + 1])
            /\ confirmed' = [confirmed EXCEPT ![i] = now]

RefuseClaim(i) == Applies(i, "claim") /\ ~Claimable(i) /\ RefuseApply(i)

ApplyForceRelease(i) ==
    /\ Applies(i, "force") /\ local[i].via # Nobody
    /\ Apply(i, Dropped(i, local[i])) /\ ClearBeat(i)

RefuseForceRelease(i) ==
    Applies(i, "force") /\ local[i].via = Nobody /\ RefuseApply(i)

ApplyForeignStall(i) ==
    /\ Applies(i, "stall") /\ StallCandidate(i, local[i])
    /\ Apply(i, Stalled(i, local[i])) /\ UNCHANGED <<beats, confirmed>>

\* The end of a cycle that left the remote with every local commit: the leases
\* are confirmed, and a claim or a forced release goes back to its caller.
Success(i) ==
    /\ cycle' = [cycle EXCEPT ![i] = Idle]
    /\ asking' = [asking EXCEPT ![i] = IF cycle[i].call = "claim" THEN "answer" ELSE @]
    /\ synced' = [synced EXCEPT ![i] = now]
    /\ confirmed' = [confirmed EXCEPT ![i] = IF local[i].via = i THEN now ELSE @]
    /\ foreign' = IF cycle[i].pulled THEN foreign
                  ELSE [foreign EXCEPT ![i] = Observed(i, local[i])]
    /\ told' = [told EXCEPT ![i] = @ /\ ~(cycle[i].call = "force" /\ local[i].via # i)]
    /\ UNCHANGED <<now, skew, local, beats, reopened, bounds>>

NothingToPush(i) ==
    /\ cycle[i].pc = "push" /\ ~ahead[i]
    /\ Success(i) /\ UNCHANGED <<tip, base, behind, ahead, sunk>>

\* A claim is let go, and no new epoch tells those who hold it.
Sinks(before, after) ==
    before.via # Nobody /\ ReleasedInto(after) /\ after.epoch <= before.epoch

SameLease(c, d) == c.via = d.via /\ c.beat = d.beat /\ c.epoch = d.epoch

Lands(i) ==
    /\ cycle[i].pc = "push" /\ ahead[i] /\ ~behind[i]
    /\ tip' = [card |-> local[i],
               since |-> IF SameLease(tip.card, local[i]) THEN tip.since ELSE now]
    /\ base' = [base EXCEPT ![i] = tip']
    /\ behind' = [j \in Inst |-> j # i]
    /\ sunk' = (sunk \/ \E j \in Inst \ {i} : Sinks(base[j].card, local[i]))

PushLands(i) ==
    Lands(i) /\ Success(i) /\ ahead' = [ahead EXCEPT ![i] = FALSE]

\* A cycle that dies after its write ran undoes it, when the card still
\* carries exactly that write, and answers that the remote was unreachable.
Undoable(i) ==
    LET wrote == cycle[i].written IN
    /\ cycle[i].wrote
    /\ local[i].epoch = wrote.epoch /\ local[i].via = wrote.via
    /\ local[i].state = wrote.state

\* Mutant: the undo restores the card on disk and leaves the commit to others.
MutantUndoUncommitted(i, stillAhead) ==
    /\ cycle' = [cycle EXCEPT ![i] = Idle]
    /\ asking' = [asking EXCEPT ![i] = IF cycle[i].call = "claim" THEN "no" ELSE @]
    /\ ahead' = [ahead EXCEPT ![i] = stillAhead]
    /\ IF Undoable(i)
       THEN /\ local' = [local EXCEPT ![i] = [cycle[i].read EXCEPT !.updated = Clock(i)]]
            /\ ClearBeat(i)
       ELSE UNCHANGED <<local, beats, confirmed>>
    /\ UNCHANGED <<now, skew, foreign, synced, told, reopened, calls, crashes>>

Fail(i, stillAhead) ==
    /\ cycle' = [cycle EXCEPT ![i] = Idle]
    /\ asking' = [asking EXCEPT ![i] = IF cycle[i].call = "claim" THEN "no" ELSE @]
    /\ IF Undoable(i)
       THEN /\ Put(i, [cycle[i].read EXCEPT !.updated = Clock(i)])
            /\ ClearBeat(i)
       ELSE /\ ahead' = [ahead EXCEPT ![i] = stillAhead]
            /\ UNCHANGED <<local, beats, confirmed>>
    /\ told' = [told EXCEPT ![i] = @ /\ ~(cycle[i].call = "force" /\ local'[i].via # i)]
    /\ UNCHANGED <<now, skew, foreign, synced, reopened, calls, crashes>>

Fault(kind) == kind \in Faults /\ faults < MaxFaults /\ faults' = faults + 1

\* The push never arrived, or it did and the answer was lost.
PushFails(i) ==
    /\ cycle[i].pc = "push" /\ ahead[i]
    /\ Fault("refused") /\ Fail(i, TRUE) /\ UNCHANGED <<tip, base, behind, sunk>>

PushAnswerLost(i) == Lands(i) /\ Fault("lost") /\ Fail(i, FALSE)

\* Mutant: one push too many.
MutantOneMorePush(i) ==
    /\ cycle[i].pc = "push" /\ ahead[i] /\ behind[i]
    /\ cycle' = [cycle EXCEPT ![i].pc = "again", ![i].attempt = @ + 1]
    /\ UNCHANGED <<now, skew, tip, cardVars, asking, leaseVars, synced, told, oddities,
                   bounds>>

\* Another instance pushed first: integrate again, up to MaxAttempts pushes.
PushRejected(i) ==
    /\ cycle[i].pc = "push" /\ ahead[i] /\ behind[i]
    /\ IF cycle[i].attempt + 1 < MaxAttempts
       THEN /\ cycle' = [cycle EXCEPT ![i].pc = "again", ![i].attempt = @ + 1]
            /\ UNCHANGED <<now, skew, tip, cardVars, asking, leaseVars, synced, told,
                           oddities, bounds>>
       ELSE Fail(i, TRUE) /\ UNCHANGED <<tip, base, behind, sunk, faults>>

Refetch(i) ==
    /\ cycle[i].pc = "again" /\ Pull(i)
    /\ cycle' = [cycle EXCEPT ![i].pc = "push", ![i].pulled = TRUE]
    /\ UNCHANGED <<asking, bounds>>

RefetchFails(i) ==
    /\ cycle[i].pc = "again" /\ Fault("refused") /\ Fail(i, TRUE)
    /\ UNCHANGED <<tip, base, behind, sunk>>

\* claimCardVerified reads the card again after the cycle released the locks.
AnswerClaim(i) ==
    /\ asking[i] = "answer" /\ asking' = [asking EXCEPT ![i] = "no"]
    /\ told' = [told EXCEPT ![i] = @ \/ local[i].via = i]
    /\ IF local[i].via = i THEN UNCHANGED <<beats, confirmed>> ELSE ClearBeat(i)
    /\ UNCHANGED <<now, skew, tip, cardVars, cycle, foreign, synced, oddities, bounds>>

-----------------------------------------------------------------------------
\* HEAD survives a crash; the lease tables and the cycle do not.  A merge that
\* was in progress is aborted by the next cycle, which is as if it never began.
Crash(i) ==
    /\ crashes < MaxCrashes /\ crashes' = crashes + 1
    /\ cycle' = [cycle EXCEPT ![i] = Idle] /\ asking' = [asking EXCEPT ![i] = "no"]
    /\ ClearBeat(i) /\ foreign' = [foreign EXCEPT ![i] = NoLease]
    /\ synced' = [synced EXCEPT ![i] = Nil]
    /\ told' = [told EXCEPT ![i] = @ /\ local[i].via = i]
    /\ UNCHANGED <<now, skew, tip, cardVars, oddities, calls, faults>>

Tick ==
    /\ now < MaxTime /\ now' = now + 1
    /\ UNCHANGED <<skew, tip, cardVars, cycle, asking, leaseVars, synced, told, oddities,
                   bounds>>

Working(i) ==
    \/ ApplyClaim(i) \/ RefuseClaim(i)
    \/ ApplyForceRelease(i) \/ RefuseForceRelease(i)
    \/ ApplyForeignStall(i) \/ StallNothing(i)
    \/ NothingToPush(i) \/ PushLands(i) \/ PushFails(i) \/ PushAnswerLost(i)
    \/ PushRejected(i) \/ Refetch(i) \/ RefetchFails(i)

Next ==
    \/ \E i \in Inst :
        \/ Heartbeat(i) \/ ReleaseCard(i) \/ Stall(i)
        \/ \E s \in State, byHolder \in BOOLEAN : Mutate(i, s, byHolder)
        \/ \E call \in {"none", "claim", "force", "stall"} : Fetch(i, call)
        \/ Working(i) \/ AnswerClaim(i) \/ Crash(i)
    \/ Tick

\* A cycle that began goes on, and the periodic one always comes again; calls,
\* faults and crashes are as many as there are.
Fairness == \A i \in Inst : WF_vars(Working(i)) /\ WF_vars(Fetch(i, "none"))

Spec == Init /\ [][Next]_vars /\ Fairness

-----------------------------------------------------------------------------
(* Properties.                                                              *)

\* An instance that told an agent it holds the card, and neither ended that
\* claim nor announced its loss, still finds the claim on its own board: no
\* merge, pull or undo takes a claim away in silence (lostClaims, mergeClaim,
\* undoClaimWrite), as long as epochs on the remote do their work: no claim
\* was let go there at an epoch it already had, and no card that its holder
\* closed is open again on another board.
HolderKnows ==
    \A i \in Inst : told[i] /\ cycle[i].pc = "idle" =>
        local[i].via = i \/ sunk \/ reopened

\* A cancelled card is held by nobody, on any board or the remote, whichever
\* claims it was merged with (applyInvariants).
CancelledIsUnheld ==
    \A card \in {tip.card} \cup {local[i] : i \in Inst} :
        card.state = "not_planned" => card = Cleared(card)

\* An instance takes a card from another, by a foreign stall or a claim, only
\* when the very lease it takes has been on the remote, unchanged, for longer
\* than lease_timeout, whatever the clocks show (ForeignLeaseExpired).
Takes(i) ==
    /\ cycle[i].pc = "apply" /\ cycle[i].call \in {"claim", "stall"}
    /\ cycle'[i].wrote /\ ClaimedElsewhere(i, local[i])
LiveLeaseStands ==
    [][\A i \in Inst : Takes(i) =>
        SameLease(base[i].card, local[i]) /\ now - base[i].since > LeaseTimeout]_vars

\* The comment on undoClaimWrite: "The pre-write epoch is restored, not bumped,
\* so a peer's claim made meanwhile outranks the undone state in the next
\* merge".  A claim an agent was told of is not replaced on the remote by an
\* unclaimed card of a lower epoch.
ClaimOutranksUndo ==
    [][\A i \in Inst :
        told[i] /\ tip.card.via = i =>
            ~(tip'.card.via = Nobody /\ tip'.card.epoch < tip.card.epoch)]_vars

\* When the calls, faults and crashes have ended, every board comes to hold the
\* remote's card, with nothing left to push.
BoardsAgree ==
    <>[](\A i \in Inst : ~ahead[i] /\ ~behind[i] /\ local[i] = tip.card)
=============================================================================
