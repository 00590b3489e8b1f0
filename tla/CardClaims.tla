----------------------------- MODULE CardClaims -----------------------------
(***************************************************************************)
(* CardService on a private boards repository: the operations that claim,  *)
(* write, release and stall one card.  Each re-reads the card and writes   *)
(* cache and disk (one variable, store) under writeMu, hands the commit to *)
(* the project's queue or defers it, unlocks, awaits the commit, and on    *)
(* failure restores the card it read.  A commit takes what the file holds  *)
(* when the worker runs it, not what it held at the Enqueue.               *)
(*                                                                         *)
(* A critical section that does not block is one action; a flush blocks on *)
(* the queue with writeMu held.  The queue is the FIFO that CommitQueue    *)
(* implements.                                                             *)
(***************************************************************************)
EXTENDS Integers, Sequences, FiniteSets

CONSTANTS
    Op,           \* calls of the service; each runs at most once
    Agent,
    Transitions,  \* the project's allowed moves, as pairs of states
    Timeout,      \* heartbeat_timeout
    MaxTime,      \* bound: the last instant of any clock
    Plans,        \* bounds to explore, by name: what calls may be (kinds), the
                  \* worker statuses reported (reports), the kinds of commit that
                  \* may fail (failing), the last instant of the clock (until)
    Nobody

Sweeper == "sweeper"
Caller == Op \cup {Sweeper}
State == {"todo", "in_progress", "review", "done", "stalled", "not_planned"}
Terminal == {"done", "not_planned"}
LiveWorker == {"queued", "running"}
WorkerStatus == LiveWorker \cup {"", "failed", "killed", "parked"}
TerminalReports == {"failed", "killed", "completed"}

ASSUME ClaimAssumption ==
    /\ Nobody \notin Agent \cup Caller /\ Sweeper \notin Op
    /\ Transitions \subseteq State \X State
    /\ Timeout \in Nat \ {0} /\ MaxTime \in Nat
    /\ \A p \in DOMAIN Plans :
         /\ Plans[p].reports \subseteq LiveWorker \cup TerminalReports
         /\ Plans[p].failing \subseteq {"card", "flush"}
         /\ Plans[p].until \in 0..MaxTime

VARIABLES
    plan,         \* which of Plans this behaviour is bounded by
    now,          \* the clock
    store,        \* the card in cache and on disk
    head,         \* the card in the repository's HEAD
    gitDeferred,  \* BoardsRepo.GitDeferredCommit
    deferred,     \* deferredPaths has an entry for the card
    writeMu,
    call,         \* where each call is, what it read and what it will flush
    answer,       \* the result of its own commit
    flushed,      \* the result of its flush
    queue,        \* the project's queue: commits in enqueue order
    candidate,    \* what the sweep's unlocked scan found
    claimant,     \* history: who made the latest claim nothing has ended
    confirmed,    \* history: that claimant was told it holds the card
    sign,         \* history: the claimant's last sign of life
    flushLost,    \* history: a flush failed since the last one that did not
    promoted      \* history: a promotion of an unclaimed card awaits a flush

ghosts == <<claimant, confirmed, sign, flushLost, promoted>>
commitVars == <<head, answer, flushed, queue>>
vars == <<plan, now, store, gitDeferred, deferred, writeMu, call, candidate,
          commitVars, ghosts>>

Time == 0..MaxTime
Card == [state : State, agent : Agent \cup {Nobody}, worker : WorkerStatus,
         beat : Time, updated : Time, edits : SUBSET Op]
Flush == {"none", "locked", "after"}
Call == [pc : {"idle", "flushing", "awaiting", "rollback", "wantFlush", "done"},
         kind : {"none", "claim", "heartbeat", "other"}, read : Card, flush : Flush]
Answers == {"none", "nil", "failed"}

CTypeOK ==
    /\ plan \in DOMAIN Plans /\ now \in Time
    /\ store \in Card /\ head \in Card
    /\ gitDeferred \in BOOLEAN /\ deferred \in BOOLEAN
    /\ writeMu \in Caller \cup {Nobody}
    /\ call \in [Caller -> Call]
    /\ answer \in [Caller -> Answers] /\ flushed \in [Caller -> Answers]
    /\ queue \in Seq(Caller \X {"card", "flush"})
    /\ candidate \in [kind : {"none", "claimed", "abandoned"}, cutoff : Int]
    /\ claimant \in Agent \cup {Nobody} /\ confirmed \in BOOLEAN
    /\ sign \in Time /\ flushLost \in BOOLEAN /\ promoted \in BOOLEAN

NewCard == [state |-> "todo", agent |-> Nobody, worker |-> "", beat |-> 0,
            updated |-> 0, edits |-> {}]
Idle == [pc |-> "idle", kind |-> "none", read |-> NewCard, flush |-> "none"]
NoCandidate == [kind |-> "none", cutoff |-> 0]

Init ==
    /\ plan \in DOMAIN Plans /\ now = 0 /\ store = NewCard /\ head = NewCard
    /\ gitDeferred \in BOOLEAN /\ deferred = FALSE
    /\ writeMu = Nobody
    /\ call = [c \in Caller |-> Idle]
    /\ answer = [c \in Caller |-> "none"] /\ flushed = [c \in Caller |-> "none"]
    /\ queue = <<>> /\ candidate = NoCandidate
    /\ claimant = Nobody /\ confirmed = FALSE /\ sign = 0
    /\ flushLost = FALSE /\ promoted = FALSE

-----------------------------------------------------------------------------
(* The shape every card write shares.                                       *)

\* Mutant: an unclaimed card's commit is deferred like any other.
MutantAlwaysDefers(immediate) == gitDeferred

\* enqueueCardCommit defers on a deferring repository; enqueueCardCommitFor
\* commits at once when the card was unclaimed before the mutation.
Defers(immediate) == gitDeferred /\ ~immediate

\* Write the card, hand the commit over and, for flush = "locked", enqueue the
\* flush of the deferred paths before writeMu is released.
Write(c, kind, card, immediate, flush) ==
    LET defers == Defers(immediate)
        flushes == flush = "locked" /\ gitDeferred /\ (deferred \/ defers)
        own == IF defers THEN <<>> ELSE <<<<c, "card">>>>
        tail == IF flushes THEN <<<<c, "flush">>>> ELSE <<>>
    IN
    /\ writeMu = Nobody /\ call[c].pc = "idle"
    /\ store' = card
    /\ deferred' = (deferred \/ defers)
    /\ queue' = queue \o own \o tail
    /\ answer' = [answer EXCEPT ![c] = IF defers THEN "nil" ELSE "none"]
    /\ flushed' = [flushed EXCEPT ![c] = "none"]
    /\ call' = [call EXCEPT ![c] =
                  [pc |-> IF flushes THEN "flushing" ELSE "awaiting", kind |-> kind,
                   read |-> store, flush |-> IF flush = "after" THEN "after" ELSE "none"]]
    /\ writeMu' = IF flushes THEN c ELSE Nobody
    /\ UNCHANGED <<plan, now, gitDeferred, head, flushLost>>

\* What a write makes of the history: the claim goes on, or ends.
KeepClaim == UNCHANGED <<claimant, confirmed, sign, promoted>>
EndClaim == claimant' = Nobody /\ confirmed' = FALSE /\ UNCHANGED <<sign, promoted>>
SignOfLife(a) == sign' = now /\ UNCHANGED <<claimant, confirmed, promoted>>

Edited(c, card) == [card EXCEPT !.updated = now, !.edits = @ \cup ({c} \cap Op)]
Cleared(card) == [card EXCEPT !.agent = Nobody, !.beat = 0]

\* A write attributed to the holder is proof of life; Nobody's is not.
EditedBy(c, a) == [Edited(c, store) EXCEPT !.beat = IF a # Nobody THEN now ELSE @]

\* ValidateTransition: stalled can be reached from anywhere.
Allowed(from, to) == to = "stalled" \/ <<from, to>> \in Transitions

\* applyTerminalInvariants, on a card that has just moved.
Settled(card) ==
    CASE card.state = "not_planned" -> Cleared(card)
      [] card.state \in {"todo", "in_progress"} ->
           [card EXCEPT !.worker = IF @ \in {"failed", "killed"} THEN "" ELSE @]
      [] OTHER -> card

\* applyStateChangeSideEffects: a move that ends the work flushes.
FlushOnMove(to) == IF to \in {"not_planned", "review"} THEN "locked" ELSE "none"

\* stallCardLocked and forceReleaseLocked: the worker of the lost claim is dead.
PresumedDead(card) ==
    [card EXCEPT !.worker = IF @ \in LiveWorker THEN "failed" ELSE @]

-----------------------------------------------------------------------------
(* Operations of agents and people.                                         *)

\* Mutant: a claim does not look at who holds the card.
MutantClaimTakesOver(o, a) ==
    /\ "claim" \in Plans[plan].kinds /\ store.state \notin Terminal
    /\ Write(o, "claim", [Edited(o, store) EXCEPT !.agent = a, !.beat = now], FALSE, "none")
    /\ claimant' = IF claimant = Nobody THEN a ELSE claimant
    /\ sign' = now
    /\ UNCHANGED <<confirmed, candidate, promoted>>

\* ClaimCard: claimPreconditions, then lock.Manager.Claim.
ClaimCard(o, a) ==
    /\ "claim" \in Plans[plan].kinds
    /\ store.agent \in {Nobody, a}
    /\ store.state \in Terminal => store.agent = a
    /\ Write(o, "claim", [Edited(o, store) EXCEPT !.agent = a, !.beat = now], FALSE, "none")
    /\ claimant' = IF claimant = Nobody THEN a ELSE claimant
    /\ sign' = now
    /\ UNCHANGED <<confirmed, candidate, promoted>>

ReleaseCard(o, a) ==
    /\ "release" \in Plans[plan].kinds /\ store.agent = a
    /\ Write(o, "other", Cleared(Edited(o, store)), FALSE, "locked")
    /\ EndClaim /\ UNCHANGED candidate

ForceReleaseCard(o) ==
    /\ "force" \in Plans[plan].kinds /\ store.agent # Nobody
    /\ Write(o, "other", PresumedDead(Cleared(Edited(o, store))), FALSE, "after")
    /\ EndClaim /\ UNCHANGED candidate

HeartbeatCard(o, a) ==
    /\ "heartbeat" \in Plans[plan].kinds /\ store.agent = a
    /\ Write(o, "heartbeat", [Edited(o, store) EXCEPT !.beat = now], FALSE, "none")
    /\ SignOfLife(a) /\ UNCHANGED candidate

\* applyCardMutation, addLogEntry and one step of TransitionTo: an edit by the
\* owner (a), or by a caller that names no agent or finds the card unclaimed
\* (Nobody), that may move the card.
Mutate(o, a, to) ==
    LET moved == to # store.state
        edited == [EditedBy(o, a) EXCEPT !.state = to]
        ends == moved /\ to = "not_planned"
    IN
    /\ "mutate" \in Plans[plan].kinds
    /\ a \in {Nobody, store.agent}
    /\ moved => Allowed(store.state, to)
    /\ Write(o, "other", IF moved THEN Settled(edited) ELSE edited, store.agent = Nobody,
             IF moved THEN FlushOnMove(to) ELSE "none")
    /\ IF ends THEN EndClaim ELSE IF a # Nobody THEN SignOfLife(a) ELSE KeepClaim
    /\ UNCHANGED candidate

\* ReportUsage flushes itself on an unclaimed card: nothing else would.
ReportUsage(o, a) ==
    /\ "usage" \in Plans[plan].kinds /\ store.agent \in {Nobody, a}
    /\ Write(o, "other", EditedBy(o, store.agent), FALSE,
             IF store.agent = Nobody THEN "after" ELSE "none")
    /\ IF store.agent = a THEN SignOfLife(a) ELSE KeepClaim
    /\ UNCHANGED candidate

\* updateWorkerStatus: a backend callback, a trigger (queued) or a stop (killed).
UpdateWorkerStatus(o, report) ==
    LET st == IF report \in {"failed", "killed"} /\ store.state \in Terminal
              THEN "completed" ELSE report
        ends == st \in TerminalReports
        shown == IF st # "completed" THEN st
                 ELSE IF store.worker = "parked" THEN "parked" ELSE ""
        card == [Edited(o, store) EXCEPT !.worker = shown]
    IN
    /\ "worker" \in Plans[plan].kinds
    /\ report = "queued" => store.worker \notin LiveWorker
    /\ store.worker = "killed" =>
         /\ report # "running"
         /\ report = "failed" => store.state \in Terminal
    /\ Write(o, "other", IF ends THEN Cleared(card) ELSE card, FALSE,
             IF ends THEN "locked" ELSE "none")
    /\ IF ends THEN EndClaim ELSE KeepClaim
    /\ UNCHANGED candidate

\* ReportParked: the owner writes without refreshing its heartbeat.
ReportParked(o, a) ==
    /\ "park" \in Plans[plan].kinds /\ store.agent = a
    /\ Write(o, "other", [Edited(o, store) EXCEPT !.worker = "parked"], FALSE, "none")
    /\ KeepClaim /\ UNCHANGED candidate

\* RecordPush, and IncrementReviewAttempts, which has its shape: neither is
\* taken for a sign of life.
RecordPush(o, a) ==
    /\ "push" \in Plans[plan].kinds /\ store.agent = a
    /\ Write(o, "other", Edited(o, store), FALSE, "none")
    /\ KeepClaim /\ UNCHANGED candidate

PromoteToAutonomous(o) ==
    /\ "promote" \in Plans[plan].kinds /\ store.state \notin Terminal
    /\ Write(o, "other", Edited(o, store), FALSE, "none")
    /\ promoted' = (promoted \/ (gitDeferred /\ store.agent = Nobody))
    /\ UNCHANGED <<claimant, confirmed, sign, candidate>>

-----------------------------------------------------------------------------
(* The stall sweep: an unlocked scan, then each candidate under writeMu.    *)

FindStalled ==
    /\ store.agent # Nobody /\ store.beat < now - Timeout
    /\ candidate' = [kind |-> "claimed", cutoff |-> now - Timeout]

FindAbandoned ==
    /\ store.state = "in_progress" /\ store.agent = Nobody
    /\ store.updated <= now - Timeout
    /\ candidate' = [kind |-> "abandoned", cutoff |-> now - Timeout]

Scan ==
    /\ call[Sweeper].pc = "idle" /\ candidate = NoCandidate
    /\ FindStalled \/ FindAbandoned
    /\ UNCHANGED <<plan, now, store, gitDeferred, deferred, writeMu, call, commitVars, ghosts>>

\* Mutant: the scan's result is trusted as long as the card is claimed.
MutantNoSecondLook ==
    IF candidate.kind = "claimed" THEN store.agent # Nobody
    ELSE /\ candidate.kind = "abandoned"
         /\ store.state = "in_progress" /\ store.agent = Nobody

StillStalled ==
    IF candidate.kind = "claimed"
    THEN store.agent # Nobody /\ now - store.beat >= Timeout
    ELSE /\ candidate.kind = "abandoned"
         /\ store.state = "in_progress" /\ store.agent = Nobody
         /\ store.updated <= candidate.cutoff

\* markCardStalled and reapAbandonedParent end in stallCardLocked.
Stall ==
    /\ StillStalled /\ store.state \notin Terminal \cup {"stalled"}
    /\ Write(Sweeper, "other",
             PresumedDead(Cleared([Edited(Sweeper, store) EXCEPT !.state = "stalled"])),
             FALSE, "after")
    /\ EndClaim /\ candidate' = NoCandidate

SkipStall ==
    /\ candidate # NoCandidate /\ writeMu = Nobody
    /\ ~StillStalled \/ store.state \in Terminal \cup {"stalled"}
    /\ candidate' = NoCandidate
    /\ UNCHANGED <<plan, now, store, gitDeferred, deferred, writeMu, call, commitVars, ghosts>>

-----------------------------------------------------------------------------
(* The commit worker, and what a call does with its answers.                *)

\* CommitFile and CommitFilesShell commit what the card's file holds now.
Serve ==
    LET c == Head(queue)[1]
        kind == Head(queue)[2]
    IN
    /\ queue # <<>> /\ queue' = Tail(queue)
    /\ \E ok \in BOOLEAN :
         /\ ok \/ kind \in Plans[plan].failing
         /\ head' = IF ok THEN store ELSE head
         /\ LET res == IF ok THEN "nil" ELSE "failed" IN
            IF kind = "card"
            THEN answer' = [answer EXCEPT ![c] = res] /\ UNCHANGED flushed
            ELSE flushed' = [flushed EXCEPT ![c] = res] /\ UNCHANGED answer
    /\ UNCHANGED <<plan, now, store, gitDeferred, deferred, writeMu, call, candidate, ghosts>>

\* Mutant: the deferred paths are dropped whatever the flush returned.
MutantFlushForgets(c) ==
    /\ call[c].pc = "flushing" /\ flushed[c] # "none"
    /\ deferred' = FALSE
    /\ flushLost' = (flushed[c] = "failed")
    /\ promoted' = (promoted /\ flushed[c] = "failed")
    /\ writeMu' = Nobody
    /\ call' = [call EXCEPT ![c].pc = "awaiting"]
    /\ UNCHANGED <<plan, now, store, gitDeferred, candidate, commitVars, claimant, confirmed, sign>>

\* flushDeferredCommit returns: the paths go only after a successful commit.
Flushed(c) ==
    /\ call[c].pc = "flushing" /\ flushed[c] # "none"
    /\ deferred' = (deferred /\ flushed[c] = "failed")
    /\ flushLost' = (flushed[c] = "failed")
    /\ promoted' = (promoted /\ flushed[c] = "failed")
    /\ writeMu' = Nobody
    /\ call' = [call EXCEPT ![c].pc = "awaiting"]
    /\ UNCHANGED <<plan, now, store, gitDeferred, candidate, commitVars, claimant, confirmed, sign>>

Ended(c) == IF c = Sweeper THEN Idle ELSE [Idle EXCEPT !.pc = "done"]
Finish(c) == /\ call' = [call EXCEPT ![c] = Ended(c)]
             /\ answer' = [answer EXCEPT ![c] = "none"]
             /\ flushed' = [flushed EXCEPT ![c] = "none"]

Committed(c) ==
    /\ call[c].pc = "awaiting" /\ answer[c] = "nil" /\ call[c].flush = "none"
    /\ Finish(c)
    /\ confirmed' = (confirmed \/ (call[c].kind = "claim" /\ claimant # Nobody))
    /\ UNCHANGED <<plan, now, store, head, gitDeferred, deferred, writeMu, candidate, queue,
                   claimant, sign, flushLost, promoted>>

\* A forced release and a stall flush under a second writeMu section.
FlushAfter(c) ==
    /\ call[c].pc = "awaiting" /\ answer[c] = "nil" /\ call[c].flush = "after"
    /\ writeMu = Nobody
    /\ IF gitDeferred /\ deferred
       THEN /\ queue' = Append(queue, <<c, "flush">>) /\ writeMu' = c
            /\ call' = [call EXCEPT ![c].flush = "none", ![c].pc = "flushing"]
       ELSE /\ call' = [call EXCEPT ![c].flush = "none"] /\ UNCHANGED <<queue, writeMu>>
    /\ UNCHANGED <<plan, now, store, gitDeferred, deferred, candidate, head, answer, flushed, ghosts>>

\* A failed commit: a heartbeat leaves the store as it is, any other write
\* restores the card it read before its own write.
Failed(c) ==
    /\ call[c].pc = "awaiting" /\ answer[c] = "failed"
    /\ IF call[c].kind = "heartbeat" THEN Finish(c)
       ELSE call' = [call EXCEPT ![c].pc = "rollback"] /\ UNCHANGED <<answer, flushed>>
    /\ UNCHANGED <<plan, now, store, head, gitDeferred, deferred, writeMu, candidate, queue, ghosts>>

\* Mutant: a rollback restores the claim only.
MutantRestoresClaim(c) ==
    /\ call[c].pc = "rollback" /\ writeMu = Nobody
    /\ store' = [store EXCEPT !.agent = call[c].read.agent, !.beat = call[c].read.beat]
    /\ Finish(c)
    /\ UNCHANGED <<plan, now, head, gitDeferred, deferred, writeMu, candidate, queue, ghosts>>

Rollback(c) ==
    /\ call[c].pc = "rollback" /\ writeMu = Nobody
    /\ store' = call[c].read
    /\ Finish(c)
    /\ UNCHANGED <<plan, now, head, gitDeferred, deferred, writeMu, candidate, queue, ghosts>>

-----------------------------------------------------------------------------
Tick ==
    /\ now < Plans[plan].until /\ now' = now + 1
    /\ UNCHANGED <<plan, store, gitDeferred, deferred, writeMu, call, candidate, commitVars, ghosts>>

\* The server dies and comes back: memory is gone, and CommitDirty commits what
\* the disk holds before anything is served.
Restart ==
    /\ "restart" \in Plans[plan].kinds
    /\ deferred \/ \E c \in Caller : call[c].pc \notin {"idle", "done"}
    /\ head' = store /\ deferred' = FALSE /\ writeMu' = Nobody /\ queue' = <<>>
    /\ call' = [c \in Caller |-> IF call[c].pc = "idle" THEN Idle ELSE Ended(c)]
    /\ answer' = [c \in Caller |-> "none"] /\ flushed' = [c \in Caller |-> "none"]
    /\ candidate' = NoCandidate /\ flushLost' = FALSE /\ promoted' = FALSE
    /\ UNCHANGED <<plan, now, store, gitDeferred, claimant, confirmed, sign>>

ByAgent(o, a) == ClaimCard(o, a) \/ ReleaseCard(o, a) \/ HeartbeatCard(o, a)
                 \/ ReportUsage(o, a) \/ ReportParked(o, a) \/ RecordPush(o, a)
Called(o) == \/ \E a \in Agent : ByAgent(o, a)
             \/ \E a \in Agent \cup {Nobody}, to \in State : Mutate(o, a, to)
             \/ \E report \in Plans[plan].reports : UpdateWorkerStatus(o, report)
             \/ ForceReleaseCard(o) \/ PromoteToAutonomous(o)
Answered(c) == Flushed(c) \/ Committed(c) \/ FlushAfter(c) \/ Failed(c) \/ Rollback(c)

Next == \/ \E o \in Op : Called(o)
        \/ \E c \in Caller : Answered(c)
        \/ Scan \/ Stall \/ SkipStall \/ Serve \/ Tick \/ Restart

Spec == Init /\ [][Next]_vars

-----------------------------------------------------------------------------
(* Properties.                                                              *)

CommitsSucceed == "card" \notin Plans[plan].failing

Quiet == \A c \in Caller : call[c].pc \in {"idle", "done"}

\* Deferral, flushing, failed flushes and crashes lose no edit: whatever the
\* disk has and HEAD has not is still in the queue or in deferredPaths.
\* (A heartbeat whose own commit fails stays dirty.)
DirtyIsAccounted == CommitsSucceed /\ store # head => queue # <<>> \/ deferred

\* architecture.md: on a commit failure the service layer "closes the gap" by
\* restoring the snapshot, and rolling back under writeMu keeps the "three
\* substrates (cache, disk, git)" consistent.  Once every call has returned and
\* nothing is deferred, disk and HEAD hold the same card.
SubstratesAgree == Quiet /\ queue = <<>> /\ ~deferred => store = head

\* Where commits succeed, an agent that was told it holds the card holds it until a release, a forced
\* release, a stall, a cancellation or the end of its worker ends the claim: no
\* concurrent mutation, flush or crash takes it away or hands it to another.
AcknowledgedClaimHolds == confirmed /\ CommitsSucceed => store.agent = claimant

\* A card in not_planned carries no claim, on disk or in HEAD, whatever commits
\* fail, roll back over each other or are cut short by a crash.
CancelledIsUnclaimed ==
    \A card \in {store, head} : card.state = "not_planned" => card.agent = Nobody

\* Nothing is in flight, nobody holds the card and no worker is about to run
\* it, no flush failed, and yet its file is dirty.
Stranded == /\ Quiet /\ store.agent = Nobody /\ store.worker \notin LiveWorker
            /\ ~flushLost /\ store # head

\* Batched edits are not forgotten: when a claim or a worker's run is over, by
\* whatever way, the card's edits are committed.  Only a promotion of an
\* unclaimed card is left behind.
NoStrandedEdit == CommitsSucceed /\ Stranded => promoted

\* Where commits succeed, a claimed card the sweep stalls has had no sign of
\* life from its agent, by a claim, a heartbeat or an edit of its own, for the
\* whole timeout, however long the scan's result waited for writeMu; and no
\* sweep reopens a finished card.  (A failed commit takes its sign of life back.)
AliveIsNotStalled ==
    [][/\ CommitsSucceed /\ call'[Sweeper] # call[Sweeper]
       /\ store'.state = "stalled" /\ store.state # "stalled"
       => /\ store.agent # Nobody => now - sign >= Timeout
          /\ store.state \notin Terminal]_vars
=============================================================================
