---------------------------- MODULE WriteQuiesce ----------------------------
(***************************************************************************)
(* How card and playbook mutations and the syncer of one boards repository *)
(* share the commit queue.  A card mutation enqueues its commit under      *)
(* CardService.writeMu and, except for the operations that await it there, *)
(* waits for the answer after unlocking.  A playbook mutation keeps        *)
(* PlaybookService.writeMu until its commit is answered.  The syncer's     *)
(* goroutines take the locks, quiesce the queue, run git and unlock.  A    *)
(* shutdown closes the queue under all of them and pushes what is left.    *)
(***************************************************************************)
EXTENDS CommitQueue

CONSTANTS
    CardJob,      \* jobs of card mutations; the others are playbook mutations
    Settings,     \* bound: how a behaviour begins, see WInit
    Nobody

\* Who runs git operations, each in a goroutine of its own: periodicPull,
\* pushListener, a manual sync's request, and the shutdown's PushPending.
Syncer == {"puller", "listener", "manual", "final"}

ASSUME QuiesceAssumption ==
    /\ CardJob \subseteq Job
    /\ Settings \subseteq [shared : BOOLEAN, held : SUBSET CardJob, ticks : Nat, stop : {"up", "stays"}]
    /\ Nobody \notin Job \cup Syncer /\ Job \cap Syncer = {}

VARIABLES
    shared,       \* BoardsRepo.Shared: merge cycles instead of rebase and push
    held,         \* card jobs awaited with writeMu held (flushes, projects)
    writeMu,      \* CardService.writeMu: who holds it
    playbookMu,   \* PlaybookService.writeMu
    writer,       \* where each mutation is
    syncPc,       \* where each syncer goroutine is
    phase,        \* what it is doing
    ticks,        \* bound: periodic pulls and manual syncs that may still begin
    pushCh,       \* a NotifyCommit is waiting in Syncer.pushCh
    pushHead,     \* the commits on the HEAD the running operation read
    pushed,       \* the commits the remote has
    pushFailed,   \* history: the last push gave up
    stop,         \* the phase of runShutdownSequence ("stays" up: bound, none begins)
    flushed       \* history: Close returned before its budget ran out

setting == <<shared, held, stop, flushed>>
lockVars == <<writeMu, playbookMu>>
syncVars == <<syncPc, phase, ticks, pushHead, pushed, pushFailed>>
quiesceVars == <<setting, lockVars, writer, syncVars, pushCh>>
wvars == <<vars, quiesceVars>>

WInit ==
    /\ Init
    /\ \E s \in Settings :
         shared = s.shared /\ held = s.held /\ ticks = s.ticks /\ stop = s.stop
    /\ writeMu = Nobody /\ playbookMu = Nobody
    /\ writer = [j \in Job |-> "idle"]
    /\ syncPc = [s \in Syncer |-> "idle"]
    /\ phase = [s \in Syncer |-> "idle"]
    /\ pushCh = FALSE /\ pushFailed = FALSE
    /\ pushHead = {} /\ pushed = {}
    /\ flushed = FALSE

\* The commits on HEAD.
Committed == {log[n] : n \in 1..Len(log)}

-----------------------------------------------------------------------------
(* Mutations.                                                               *)

WriterGoto(j, from, to) == writer[j] = from /\ writer' = [writer EXCEPT ![j] = to]

\* Mutant: a notification is dropped while the listener is busy.
MutantBusyListener(j) ==
    pushCh' = (pushCh \/ (outcome[j] = "nil" /\ syncPc["listener"] = "idle"))

\* NotifyCommit coalesces: the channel holds one notification.
Notify(j) == pushCh' = (pushCh \/ outcome[j] = "nil")

CardLock(j) ==
    /\ j \in CardJob /\ writeMu = Nobody
    /\ WriterGoto(j, "idle", "locked")
    /\ writeMu' = j
    /\ UNCHANGED <<vars, setting, playbookMu, syncVars, pushCh>>

PlaybookLock(j) ==
    /\ j \notin CardJob /\ playbookMu = Nobody
    /\ WriterGoto(j, "idle", "locked")
    /\ playbookMu' = j
    /\ UNCHANGED <<vars, setting, writeMu, syncVars, pushCh>>

\* The store has the new state; the commit is handed to the queue.
WriterEnqueue(j) ==
    /\ WriterGoto(j, "locked", "enqueuing")
    /\ Enqueue(j)
    /\ UNCHANGED <<setting, lockVars, syncVars, pushCh>>

\* A card mutation releases writeMu before it awaits its commit.
CardUnlock(j) ==
    /\ j \in CardJob \ held /\ stage[j] # "sending"
    /\ WriterGoto(j, "enqueuing", "awaiting")
    /\ writeMu' = Nobody
    /\ UNCHANGED <<vars, setting, playbookMu, syncVars, pushCh>>

CardAnswered(j) ==
    /\ outcome[j] # "none"
    /\ WriterGoto(j, "awaiting", IF outcome[j] = "nil" THEN "done" ELSE "rollback")
    /\ Notify(j)
    /\ UNCHANGED <<vars, setting, lockVars, syncVars>>

\* Re-lock, restore the snapshot, unlock.
CardRollback(j) ==
    /\ writeMu = Nobody
    /\ WriterGoto(j, "rollback", "done")
    /\ UNCHANGED <<vars, setting, lockVars, syncVars, pushCh>>

\* A commit awaited under the mutation's own lock; a failure is undone there.
AnsweredLocked(j) ==
    /\ j \in held \/ j \notin CardJob
    /\ outcome[j] # "none"
    /\ WriterGoto(j, "enqueuing", "done")
    /\ IF j \in CardJob THEN writeMu' = Nobody /\ UNCHANGED playbookMu
                        ELSE playbookMu' = Nobody /\ UNCHANGED writeMu
    /\ Notify(j)
    /\ UNCHANGED <<vars, setting, syncVars>>

-----------------------------------------------------------------------------
(* The syncer.                                                              *)

SyncGoto(s, from, to) == syncPc[s] = from /\ syncPc' = [syncPc EXCEPT ![s] = to]

\* pullRebase and SyncedMutation take the playbook lock first, a push does not.
Pulls == {"pull", "retryPull", "manualPull"}
FirstStep(ph) == IF ph \in Pulls \cup {"cycle"} THEN "wantPlaybook" ELSE "wantWrite"

\* A manual sync pulls, then pushes; on a shared repository all run the cycle.
StartPhase(s) == CASE shared -> "cycle"
                   [] ~shared /\ s = "puller" -> "pull"
                   [] ~shared /\ s = "manual" -> "manualPull"
                   [] OTHER -> "push"

Start(s) ==
    /\ phase' = [phase EXCEPT ![s] = StartPhase(s)]
    /\ SyncGoto(s, "idle", FirstStep(StartPhase(s)))
    /\ UNCHANGED <<vars, shared, held, flushed, lockVars, writer, pushHead, pushed, pushFailed>>

\* A tick of periodicPull, a call of TriggerSync, or a notification taken by
\* pushListener.  A loop whose context is done may still take one; once it has
\* returned it never begins again, which needs no state of its own.
SyncBegin(s) ==
    /\ \/ s = "listener" /\ pushCh /\ pushCh' = FALSE /\ UNCHANGED ticks
       \/ s \in {"puller", "manual"} /\ ticks > 0 /\ ticks' = ticks - 1 /\ UNCHANGED pushCh
    /\ Start(s)
    /\ UNCHANGED stop

SyncLockPlaybook(s) ==
    /\ playbookMu = Nobody
    /\ SyncGoto(s, "wantPlaybook", "wantWrite")
    /\ playbookMu' = s
    /\ UNCHANGED <<vars, setting, writeMu, writer, phase, ticks, pushHead, pushed, pushFailed, pushCh>>

\* Mutant: the syncer quiesces the queue without the cards' lock.
MutantTakesNoLock(s) ==
    /\ SyncGoto(s, "wantWrite", "locked")
    /\ UNCHANGED <<vars, setting, lockVars, writer, phase, ticks, pushHead, pushed, pushFailed, pushCh>>

\* CardService.LockWrites: the mutex, then Drain or Pause and AwaitIdle.
SyncLockWrites(s) ==
    /\ writeMu = Nobody
    /\ SyncGoto(s, "wantWrite", "locked")
    /\ writeMu' = s
    /\ UNCHANGED <<vars, setting, playbookMu, writer, phase, ticks, pushHead, pushed, pushFailed, pushCh>>

SyncQuiesce(s) ==
    /\ SyncGoto(s, "locked", "quiescing")
    /\ IF shared THEN DrainResume ELSE Pause
    /\ UNCHANGED <<setting, lockVars, writer, phase, ticks, pushHead, pushed, pushFailed, pushCh>>

\* LockWrites returns: the git operation starts.
SyncOperate(s) ==
    /\ Held
    /\ SyncGoto(s, "quiescing", "op")
    /\ pushHead' = Committed
    /\ UNCHANGED <<vars, setting, lockVars, writer, phase, ticks, pushed, pushFailed, pushCh>>

\* A push, a rebase or a merge cycle ends.  A push sends the HEAD it read when
\* it started; a rejected one is retried once after a pull.
PushOk(s) ==
    /\ phase[s] \in {"push", "retryPush", "cycle"}
    /\ pushed' = pushHead /\ pushFailed' = FALSE
    /\ phase' = [phase EXCEPT ![s] = "idle"]

PushRejected(s) ==
    /\ phase[s] = "push"
    /\ phase' = [phase EXCEPT ![s] = "retryPull"]
    /\ UNCHANGED <<pushed, pushFailed>>

PullOk(s) ==
    /\ phase[s] \in Pulls
    /\ phase' = [phase EXCEPT ![s] = CASE @ = "pull" -> "idle"
                                      [] @ = "retryPull" -> "retryPush"
                                      [] @ = "manualPull" -> "push"]
    /\ UNCHANGED <<pushed, pushFailed>>

SyncFailed(s) ==
    /\ phase' = [phase EXCEPT ![s] = "idle"]
    /\ pushFailed' = (pushFailed \/ phase[s] \notin {"pull", "manualPull"})
    /\ UNCHANGED pushed

\* UnlockWrites resumes the queue before it releases writeMu.
SyncResume(s) ==
    /\ SyncGoto(s, "op", "resumed")
    /\ PushOk(s) \/ PushRejected(s) \/ PullOk(s) \/ SyncFailed(s)
    /\ Resume
    /\ UNCHANGED <<setting, lockVars, writer, ticks, pushHead, pushCh>>

SyncUnlockWrites(s) ==
    /\ SyncGoto(s, "resumed", "released")
    /\ writeMu' = Nobody
    /\ UNCHANGED <<vars, setting, playbookMu, writer, phase, ticks, pushHead, pushed, pushFailed, pushCh>>

\* Mutant: the return after a failure keeps the playbooks' lock.
MutantKeepsPlaybookLock(s) ==
    /\ SyncGoto(s, "released", IF phase[s] = "idle" THEN "idle" ELSE FirstStep(phase[s]))
    /\ playbookMu' = IF playbookMu = s /\ ~pushFailed THEN Nobody ELSE playbookMu
    /\ UNCHANGED <<vars, setting, writeMu, writer, phase, ticks, pushHead, pushed, pushFailed, pushCh>>

\* The deferred playbook unlock, and on to the retry or back to waiting.
SyncEnd(s) ==
    /\ SyncGoto(s, "released", IF phase[s] = "idle" THEN "idle" ELSE FirstStep(phase[s]))
    /\ playbookMu' = IF playbookMu = s THEN Nobody ELSE playbookMu
    /\ UNCHANGED <<vars, setting, writeMu, writer, phase, ticks, pushHead, pushed, pushFailed, pushCh>>

-----------------------------------------------------------------------------
(* The shutdown.  The HTTP drain may have run out of its budget, so requests *)
(* can still be at work in every phase.                                      *)

StopGoto(from, to) == stop = from /\ stop' = to

AppCancel ==
    /\ StopGoto("up", "cancelled")
    /\ UNCHANGED <<vars, shared, held, flushed, lockVars, writer, syncVars, pushCh>>

\* Close is called once the playbook walkers and imports have been joined.
QueueClose ==
    /\ StopGoto("cancelled", "closing")
    /\ CloseBegin
    /\ UNCHANGED <<shared, held, flushed, lockVars, writer, syncVars, pushCh>>

CloseReturned ==
    /\ closer = "done"
    /\ StopGoto("closing", "syncers")
    /\ flushed' = TRUE
    /\ UNCHANGED <<vars, shared, held, lockVars, writer, syncVars, pushCh>>

CloseExpired ==
    /\ StopGoto("closing", "syncers")
    /\ UNCHANGED <<vars, shared, held, flushed, lockVars, writer, syncVars, pushCh>>

\* PushPending, when the loops have stopped or the budget for that ran out.  An
\* error in its own reads is a push that fails.
FinalPush ==
    /\ ~shared /\ pushed # Committed
    /\ StopGoto("syncers", "pushing")
    /\ Start("final")
    /\ UNCHANGED <<ticks, pushCh>>

\* The process ends: nothing is ahead of the remote, or the push is over.
Exited ==
    /\ \/ (shared \/ pushed = Committed) /\ StopGoto("syncers", "down")
       \/ syncPc["final"] = "idle" /\ StopGoto("pushing", "down")
    /\ UNCHANGED <<vars, shared, held, flushed, lockVars, writer, syncVars, pushCh>>

StopStep == AppCancel \/ QueueClose \/ CloseReturned \/ CloseExpired \/ FinalPush \/ Exited

-----------------------------------------------------------------------------
WriterStep(j) == \/ WriterEnqueue(j) \/ CardUnlock(j) \/ CardAnswered(j)
                 \/ CardRollback(j) \/ AnsweredLocked(j)

Mutation(j) == CardLock(j) \/ PlaybookLock(j) \/ WriterStep(j)

SyncStep(s) == \/ SyncLockPlaybook(s) \/ SyncLockWrites(s) \/ SyncQuiesce(s)
               \/ SyncOperate(s) \/ SyncResume(s) \/ SyncUnlockWrites(s) \/ SyncEnd(s)

\* The steps of the queue that take no part in the locking.
Queue == \/ \E j \in Job : Send(j) \/ Cancel(j)
         \/ \E p \in Project : Worker(p)
         \/ Waiting \/ CloseChannels \/ CloseDone

\* The process has ended, or all mutations have, the syncer has nothing left to
\* do and no shutdown is to come: the only states in which the model, unlike the
\* program, stops.
Finished ==
    /\ \/ stop = "down"
       \/ /\ stop = "stays" /\ ticks = 0 /\ ~pushCh
          /\ \A j \in Job : writer[j] = "done"
          /\ \A s \in Syncer : syncPc[s] = "idle"
    /\ UNCHANGED wvars

WNext == \/ Finished
         \/ /\ stop # "down"
            /\ \/ \E j \in Job : Mutation(j)
               \/ \E s \in Syncer : SyncBegin(s) \/ SyncStep(s)
               \/ StopStep
               \/ Queue /\ UNCHANGED quiesceVars

WSpec == WInit /\ [][WNext]_wvars

QueueStep(A) == stop # "down" /\ A /\ UNCHANGED quiesceVars
Runs(A) == stop # "down" /\ A

(* Goroutines that can run are scheduled, and git runs under a network      *)
(* timeout, so an operation ends.  With the ticks and the jobs              *)
(* bounding how often the syncer takes the locks, weak fairness is enough:  *)
(* only a deadlock can keep a mutex or a pause from a waiter.  Nothing      *)
(* makes a mutation or a shutdown start or a wait expire.                   *)
WFairness ==
    /\ \A j \in Job : /\ WF_wvars(Runs(WriterStep(j)))
                      /\ WF_wvars(QueueStep(Send(j)))
    /\ \A s \in Syncer : WF_wvars(Runs(SyncStep(s)))
    /\ \A p \in Project : WF_wvars(QueueStep(Worker(p)))
    /\ WF_wvars(QueueStep(Waiting \/ CloseChannels \/ CloseDone))
    /\ WF_wvars(stop \in {"up", "stays"} /\ SyncBegin("listener"))
    /\ WF_wvars(QueueClose \/ CloseReturned \/ FinalPush \/ Exited)

WFairSpec == WSpec /\ WFairness

-----------------------------------------------------------------------------
(* Properties.                                                              *)

Operating(s) == syncPc[s] = "op"

\* LockWrites on a shared repository: "the merge that follows has to see a
\* fully committed tree".  While a cycle whose drain succeeded runs, no job is
\* anywhere in the queue and no mutation is between its store write and its
\* answer.
MergeSeesCommittedTree ==
    \A s \in Syncer : Operating(s) /\ quiescer = "drained" =>
        /\ \A j \in Job : /\ stage[j] \notin Outstanding
                          /\ writer[j] \notin {"locked", "enqueuing"}
        /\ \A p \in Project : workerPc[p] \in {"none", "receive", "exited"}

\* A pull rewrites the working tree and reloads the store from it: while one
\* runs, no mutation of cards or playbooks is between taking its lock and
\* handing its commit over, nor is one queued that its writer awaits locked.
PullSeesStillStore ==
    \A s \in Syncer : Operating(s) /\ phase[s] \in Pulls =>
        \A j \in Job : writer[j] \notin {"locked", "enqueuing"}

\* A successful commit whose writer has notified is pushed, unless a
\* notification or a push that will still read HEAD is outstanding, or the last
\* push gave up: coalescing notifications loses no commit.
NotifiedIsPushed ==
    \A j \in Job :
        writer[j] = "done" /\ outcome[j] = "nil" /\ ~pushFailed =>
            \/ j \in pushed \/ pushCh
            \/ phase["listener"] # "idle"

\* The shutdown's last push "ensures those late mutations still reach the
\* remote": where Close flushed the queue in time and the push did not fail,
\* nothing on HEAD is missing from the remote when the process ends, though the
\* loops may have stopped with a notification unread.
FinalPushSendsAll ==
    stop = "down" /\ ~shared /\ flushed /\ ~pushFailed => Committed \subseteq pushed

CommitsReachRemote == NotifiedIsPushed /\ FinalPushSendsAll

\* No lock order, pause or await can block a mutation for ever: always again it
\* has ended, or not begun, unless the process ends first.
EveryMutationEnds ==
    \A j \in Job : []<>(writer[j] \in {"idle", "done"} \/ stop = "down")

\* Every pull, push or merge cycle that begins comes to an end, and so does a
\* shutdown, whatever the syncer was doing to the queue.
EverySyncEnds ==
    /\ \A s \in Syncer : []<>(phase[s] = "idle" \/ stop = "down")
    /\ []<>(stop \in {"up", "stays", "down"})

\* architecture.md: "Pause / Resume / AwaitIdle so a rebase never races an
\* in-flight commit".
RebaseNeverRacesCommit ==
    \A s \in Syncer : Operating(s) /\ phase[s] \in Pulls
                      /\ quiescer = "quiet" =>
        \A p \in Project : workerPc[p] # "execute"
=============================================================================
