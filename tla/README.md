# Formal models of ContextMatrix

ContextMatrix coordinates AI agents and people over task cards. A card is a
Markdown file in a git repository (a *boards repository*); the server keeps a
cache over the files, writes both under one lock, commits through a queue and
synchronises with a remote. A repository is *private* (one server, rebase and
push) or *shared* (several servers merge and push, and claims carry a lease).

These modules model the parts of the server where threads, failures and other
servers meet. TLC checks them on small instances, TLAPS proves theorems about
them for every instance. `PROJECT.json` names, for each definition, the source
lines it translates.

## Inventory

| Component | State | Operations | What is hard | What makes it correct |
|---|---|---|---|---|
| Commit queue, `internal/gitops/queue.go` | closed and paused flags, three counters, a channel and a worker goroutine per project | Enqueue, processJob, Pause, AwaitIdle, Drain, Resume, Close | every operation runs in its own goroutine; cancelled contexts; shutdown with senders blocked on a full channel | order per project, nothing lost, truthful answers, shutdown ends |
| Write lock and quiescing, `service.go`, `playbooks.go`, `gitsync/syncer.go` | two mutexes, the queue's pause, a one-slot push channel, the phase of the shutdown | card and playbook mutations, periodic pull, manual sync, push listener, retry, shutdown with its last push | two locks in a fixed order, a pause held while git runs, waits that expire | no deadlock, git never meets a half-made mutation, every commit is pushed |
| Card claims, `service_locks.go`, `service_cards.go`, `service_git.go`, `service_worker.go`, `lock/manager.go` | the card in cache, on disk and in HEAD; deferred paths; the stall scan's result | claim, release, forced release, heartbeat, edits, worker reports, stall sweep, flush, rollback, restart | commits are awaited after unlocking; deferral; crashes | an acknowledged claim holds, edits reach git, a live agent is not stalled |
| Leases and fencing, `lock/lease.go` | live beats, confirmations, foreign observations | record, confirm, observe, fence | each instance has its own clock and a stale view of the others | two instances act on one card only in the time the documentation allows |
| Verified mutations and merge cycles, `service_verified.go`, `gitsync/syncer.go` | local branch, remote branch, the written card, an undo | Synced, SyncedMutation, Apply, Undo, resolve | rejected and ambiguous pushes, crashes in a merge | a refused mutation leaves nothing, an accepted one is on the remote |
| Card merge, `internal/boardmerge` | none | mergeClaim, mergeState, mergeCard | concurrent changes of one card on two sides | both sides come to one result |
| Playbook runner, `internal/playbookrun` | the run in the playbook file, walkers, launches | Play, Stop, pass, launch, release, Ensure | decisions made from a snapshot, crash between the persisted run and the trigger | one launch per entry, Stop stops, no run without a walker |
| Worker life, `internal/backend`, `api/backend_launch.go` | containers, worker status, missed-once set | launch, stop, status callbacks, end-session events, reconcile sweep, kill | dropped events, listings that are not atomic | no lost worker looks alive, no live worker is killed |
| Chat, `internal/chat` | session rows, containers, replay ring, subscribers | open, send, end, reap, publish, subscribe | rows read before the lock, re-sends, slow subscribers | a session's status follows its container, no gap goes unseen |
| Jira outbox, `internal/jirawriteback` | outbox rows | enqueue, drain, retry, fail | crash between the effect and its record | every row finishes, at least once |
| Authentication, storage, databases, import, MCP and REST, web client | rows, files | request handling | little of their own: guarded SQL updates, a mutex | not modelled, see the end |

The components meet as follows. A request or an MCP tool calls `CardService` or
`PlaybookService`; these write the store under their `writeMu` and hand a
`CommitJob` to the queue of the repository. After a commit the syncer is
notified. The syncer takes the playbook lock, then the card lock, quiesces the
queue and runs git. The stall sweep, the reconcile sweep and the playbook
runner call `CardService` like any other caller and learn of changes from the
event bus.

## Modules

| Module | Models | Kind |
|---|---|---|
| `CommitQueue` | `gitops.CommitQueue`, all of it | component |
| `CommitService` | what the queue promises its callers | abstract specification |
| `CommitQueueProofs` | types, places of jobs, counters, order | proofs |
| `CommitServiceProofs` | shutdown, history, refinement | proofs |
| `WriteQuiesce` | locks, quiescing and the syncer around the queue | composition, EXTENDS `CommitQueue` |
| `CardClaims` | one card of a private board under `CardService` | component |
| `ClaimMerge` | how two versions of one card are merged: `mergeClaim`, `mergeState`, `mergeCards` | operators |
| `SharedClaims` | one card of a shared board on several instances | component, EXTENDS `ClaimMerge` |
| `SharedClaimsProofs` | the merge, types, cancelled cards, claims that are lost, leases that are taken | proofs |
| `WriteQuiesceProofs` | that the composition uses the queue as specified; locks, drains, pushes | proofs |
| `CardClaimsProofs` | types, cancelled and acknowledged claims, dirty files, left edits, the sweep | proofs |
| `PlaybookRun` | one playbook's run: the runner, the playbook's writes, its cards and workers | component |
| `PlaybookRunProofs` | types, the walkers, Stop, one worker at a time, shutdown | proofs |
| `WorkerLife` | one card and the container that runs it, with the two cleanups | component |
| `WorkerLifeProofs` | no worker is taken for lost that is not | proofs |
| `ChatSession` | chat and blueprint sessions: lifecycle, sends, log consumers | component |
| `ChatSessionProofs` | types, the limit, rows, containers and consumers, sends, no circular wait | proofs |
| `MCCommitQueue`, `MCWriteQuiesce`, `MCCardClaims`, `MCSharedClaims`, `MCPlaybookRun`, `MCWorkerLife`, `MCChatSession` | values of the constants | instances |

### CommitQueue

Variables have the names of the struct's fields where there is one: `closed`,
`paused`, `inflight`, `pending`, `sending`, `channel` (the `workers` map). A job
is followed by `stage` (its caller and its place) and `outcome` (what was sent on
`Done`). `Enqueue` is two critical sections in the code and two actions here:
`EnqueueAccepted` (under `q.mu`) and `Send` (outside it, blocking while the
channel is full). `processJob` is cut wherever another goroutine can run:
`Receive`, `WaitUnpaused`, `CheckCtx`, `MarkBusy`, `Execute`, `MarkIdle`,
`Answer`, `Retire`. `Execute` chooses the result of git; a commit whose context
is cancelled while it runs may reach the history and still fail. `LockWrites`
makes one caller at a time quiesce the queue, so one `quiescer` is modelled; its
waits may expire. `log` is the git history, `before` a history variable that
records which `Enqueue` calls of the project had returned when a call began.

`CommitService` has no worker, channel, counter or pause. `Promise` in
`CommitQueue` is the refinement mapping; `ImplementsCommitService` is checked by
TLC and proved.

### WriteQuiesce

Adds both `writeMu` mutexes, the steps of a mutation, the goroutines that run git for
the syncer (`puller` and `listener` for its two loops, `manual` for requests that call
`TriggerSync` or, on a shared repository, any cycle) and the phases of the shutdown
that concern them. A card mutation unlocks before it awaits its commit (`CardUnlock`,
`CardAnswered`, `CardRollback`); some card operations (`held`) and all playbook
mutations await it locked (`AnsweredLocked`). What the repository is (`shared`) and
which card jobs are `held` is chosen in `WInit` from `Settings`, with the pulls and
manual syncs that may begin and whether a shutdown may, so that one run has every case. A syncer goroutine goes through
playbook lock, card lock, quiesce, git, resume, unlock. On a private repository
the puller rebases and the listener pushes, with one retry
through a pull, and a manual sync does both in turn; on a shared one all run a merge
cycle that drains the queue. A push sends the HEAD it read when it started (auto-push is
on).

`stop` is where `runShutdownSequence` stands: context cancelled, queue being closed,
waiting for the syncer's loops, last push (`PushPending`, the syncer `final`), down.
The waits have budgets, so Close may be left running (`CloseExpired`) and so may
requests and loops; nothing but `down` stops them in the model.

### CardClaims

One card, with the fields that claims, deferral and the sweep read: state, agent,
heartbeat, worker status, time of the last update, and the set of edits made.
`store` is cache and disk together, `head` what git has. A critical section under
`writeMu` that does not block is one action: it writes the store, hands the commit
over or defers it, and unlocks (`Write`). A flush of deferred paths blocks on the
queue with the lock held. `Serve` is the queue's worker: it commits what the file
holds when it runs, as `CommitFile` does, not what it held when the job was
enqueued. `Failed` and `Rollback` restore the card the call had read. The stall
sweep scans without the lock (`Scan`) and looks again under it (`Stall`,
`SkipStall`). `Restart` loses the memory and commits what the disk holds, as the
startup sweep does. The queue is the FIFO that `CommitService` promises. `Plans`
bounds a behaviour: which operations and reports it has, which commits may fail and
how far the clock goes; `plan` is chosen in `Init`.

History variables: `claimant`, `confirmed` and `sign` follow the latest claim
that nothing has ended, whether its owner was told, and its last sign of life;
`flushLost` and `promoted` remember a failed flush and a promotion that defers.

### ClaimMerge and SharedClaims

`ClaimMerge` has the fields of a card that the merge of a claim reads: state, the
instance that holds it (`via`), time of the claim, last beat, epoch, time of the
last update. `MergeCard(base, ours, theirs)` is the three-way merge with its last
step, the repair of a cancelled card.

In `SharedClaims` each instance has its copy of the card (`local`: index, worktree
and HEAD, which only differ inside a step), the remote has `tip`. Git is reduced
to what a push and a merge depend on: `base` is the remote commit an instance last
saw, `behind` says that the remote has moved since, `ahead` that there are local
commits to push. A push that finds `behind` is rejected.

Writes outside a cycle (`Heartbeat`, `ReleaseCard`, `Mutate`, `Stall`) change the
local card; the queue has committed them by the time a cycle holds the locks,
which is what `WriteQuiesce` shows. The cycle of `Syncer.synced` is cut where other
instances can run:

| Step | Code |
|---|---|
| `Fetch(i, call)` | fetch, integrate, reload; `call` is the verified write, `"none"` for a periodic sync |
| `Apply...`, `Refuse...`, `StallNothing` | the callback of `SyncedMutation`, on the card as merged |
| `PushLands`, `PushRejected`, `PushFails`, `PushAnswerLost` | one push: accepted, overtaken, refused, or accepted and reported as failed |
| `Refetch`, `RefetchFails` | the next attempt, at most `maxAttempts` |
| `Success`, `Fail` (in the above) | confirm leases and answer; or undo the write and answer with the error |
| `AnswerClaim` | `claimCardVerified` reads the card again after the locks are free |

The lock manager's tables are `beats`, `confirmed` and `foreign`; `synced` is the
time of the last successful cycle, which a foreign stall requires to be recent.
`now` is the time of the slowest clock and `skew` how far each instance's is ahead
of it: cards carry what the local clock shows, while a lease is judged by the local
time since it was first seen, so the tables hold `now`.

`told` is a history variable: an instance told an agent that it holds the card, and
since then neither ended the claim nor published `claim.lost` (or, for a card that
arrives finished and unclaimed, its change of state). It is what the instance's
agents believe. A forced release that failed, but stands because something has changed
the card since, is the instance's own doing and ends it too. Two more remember what
takes a claim away without a word: `sunk`, a landing push let a claim go and showed its
holders no higher epoch; `reopened`, a board has open a card that its holder closed on the
remote. Neither is a state of the program; only `HolderKnows` reads them.

### PlaybookRun

One playbook on the instance that owns it. `card` has each card's state, its worker
status and the worker behind it (`box`); `playbook` the entries, the checked-off
steps, `runnable` and the run with its `stamp`; `walker`, `exiting` and `walk` are the
runner's maps and the goroutines they point to; `control` is the call that holds the
control token; `asked` and `reopening` are requests of people between two steps. A
playbook write shows in the store before its commit is answered and
is undone when it fails, so `mutex` holds the lock from the write to the answer, and
what to restore.

| Actions | Code |
|---|---|
| `Play`, `Stop`, `ControlStep` | `Runner.Play`, `Runner.Stop` up to the wait for the cancelled walker and the kill |
| `WalkerStep` | `walk`: wait for a tick, kick or cancellation, `pass` (a decision made from a snapshot, then the guarded write), the launch (its checks, the queued write and the trigger are three steps), the decision to exit under the mutex |
| `AddEntry`, `RemoveEntry`, `CheckOff`, `SetRunnable`, `EditAnswered` | `PlaybookService` |
| `HandRun`, `HandQueue` | a hand run's checks in `launch`; its queued write under the playbooks' lock (`QueueUnlessRunActive`) |
| `MoveToTodo`; `Reopen`, `ReopenWrite` | a person moves a card to todo; out of done, `refuseReopenDuringRun` looks at the runs without the playbooks' lock, and the write comes later. `CardService.writeMu` is held in between: no other write of a card (`Writable`) |
| `MoveToDone`, `StallSweep`, `CardAct` | what people, the sweep, the worker and its backend do to a card |
| `Shutdown`, `Restart` | `Runner.Shutdown`; a crash, or the process started again, with `Start` |

A worker may report completed on a card it leaves in todo (`WorkerEnds`): the code
accepts it for any card with a worker, clears `worker_status`, and the next pass launches
the card again. Nothing bounds that.

History: `sent` are the cards queued since the last Play by a pass whose run is the one
the playbook has, less those that somebody moved back to todo and those that a worker left
there with a clean end; `undone` says that an edit or a Stop was rolled back since the last
Play, `slipped` that a card was reopened into a run that was not there when the move looked
(the two are `Excused`), `stopOk` that the last Stop answered
without an error and was not `excused` (a kill failed, or a walker was left in a pass by
an earlier Stop or by a Play that was rolled back: `Stray`), `crashed` that the process
ended while a webhook was out.

### WorkerLife

One card and its run in the backend (`box`). `reports` are the run's callbacks on
their way, `events` the bus events not handled yet, which the bus may drop, `guard`
and `rounds` the end-session subscriber's guard and the kills it has still to send,
`sweep` the reconcile sweep between its listing, its second look and its write.
`launch` and `stop` are the two requests of `api/backend_launch.go`, cut where another
goroutine can run. `age` abstracts the clock: `new`, seen by one listing, or `old`
when `StaleWorkerGrace` has passed.

`Up` takes a run to start only when the callbacks of the card's earlier run have
arrived, the guard has expired and a stop that was asked for has sent its kill; a
callback is not delayed for longer than the interval between two listings (`owed`); and
`StaleWorkerGrace` is longer than a launch, an image pull, a callback and an interval
together (`Age`). These are the timing assumptions of the code's comments, and
`NoFalseLoss` and `LostIsNoticed` rest on them.

### ChatSession

A call is a thread: its program counter `pc` names where it stands, `then` where it
goes on. `row` is the session's row in the database, `box` its container and what it
was given, `lock` its status, hub and transcript mutexes, `pending` the count of opens
in flight that `WithinLimit` depends on, `bridge` the goroutine that reads the
container's log into the transcript. `Opens`, `Ends`, `Subscribes`, `Sends` and
`Bridge` are `OpenSession` (joined by calls that meet an open in flight), `EndSession`
and `DeleteSession`, `Subscribe`, `SendUserMessage` with its resend after a reopened
session, and the bridge's start. `Consumer` is the goroutine itself. The backend takes
a message or not, and its answer may be lost; `WorkerExits` ends a container;
`MarkWarmIdle` is the grace timer of the last subscriber.

History: `adrift` are sessions whose container the manager may have lost track of, by
an `EndChat` that failed, a lost answer of `StartChat`, a deletion or a crash during an
open; `crossed` are sessions in which a call that found the row open started a
consumer while an `EndSession` closed it.

## Runs

| Run | Instance | Shows |
|---|---|---|
| `queue_safety` | 3 jobs, 2 projects, a one-slot buffer, 2 cancellable jobs | types, counters, enqueue order, no send on a closed channel, Close loses nothing, truthful answers, refinement of `CommitService` |
| `queue_liveness` | 2 jobs of one project, one slot, both cancellable | every accepted job is answered, every Close completes |
| `quiesce_mutations` | 1 card and 1 playbook job, private and shared, awaited locked or not; a pull or manual sync, pushes and retries, a shutdown | a drained merge cycle sees a fully committed tree, no commit is left unpushed, not at a shutdown either, no pull overlaps a mutation, every mutation, sync and shutdown ends |
| `quiesce_rebase` | as above, private | violated: a rebase can race a commit |
| `claims_service` | 3 calls, 2 agents, the sweep, crashes, failing flushes; in one plan commits fail too | acknowledged claims hold, dirty files are accounted for, no edit is stranded, live agents are not stalled, a cancelled card is never claimed |
| `claims_rollback` | 2 calls, commits may fail | violated: disk and HEAD come apart |
| `shared_claims` | 2 instances, 3 claims, stalls, beats, releases, moves or sweeps, time to 3 | no claim is lost in silence, a cancelled card is unheld everywhere, no live lease is taken |
| `shared_converge` | 2 instances, 2 claims, forced releases or edits, one push that fails or whose answer is lost, one crash, clocks that differ by 1 | every board comes to hold the remote's card |
| `shared_undo` | 2 claims, one push that fails | violated: an undo overrides an acknowledged claim |
| `playbook_run` | 2 cards and a manual step that may be added; 3 of: calls, an act of a person, a fault, a restart | an active run has a walker, a stopped one is quiet, one worker at a time, a card is launched once unless it went back to todo, a shutdown strands nothing, every run settles unless its workers end cleanly in todo for ever |
| `worker_life` | 2 launches, and a stop, a fault, a restart or 2 edits | no live worker is declared lost, every lost one is, no container outlives its card |
| `chat_sessions` | 2 chats or a blueprint session, limit 1, 3 calls with 2 sends, a fault, a restart | the limit holds, rows and containers agree, an open session is read, no message is given twice, nobody waits in a circle |

**Bounds.** The queue's workers share only the counters and the flags, so two
projects show their interference; a third job of one project with one slot makes
a sender block behind a queued job behind a running one. Pauses and drains are not
bounded. The settings of `quiesce_mutations` allow one periodic
pull or manual sync; notifications add further syncs, so the syncer's goroutines
overlap. The settings with a shutdown have no tick on a private repository, where the
listener and the last push already meet each other and Close; no commit is cancelled in this run (`queue_safety`
has that, and the proofs cover it here). It has 390,000 states. In `CardClaims` a race needs a
call, a second that overtakes it and a third that sees the result; every call runs
once, the sweep any number of times. `MaxTime = 2` with `Timeout = 1` lets a card
be beaten, time out and be beaten again; no more than three calls run in one behaviour,
so `Plans` splits the operations into those that begin, keep and end a claim, those of
a worker's run, and those that matter when commits fail and roll back over each other.

In `shared_claims`, `MaxTime = 3` is one more than `LeaseTimeout`, the least at
which a lease can expire; the timings are the smallest that `LeaseAssumption`
(what `BoardsConfig` accepts) admits. Three writes are a claim, something that ends
or renews it, and a peer's takeover; cycles without a write are not bounded, so every
order of syncs around them is covered. With `MaxAttempts = 2` a push can be overtaken
and retried, and overtaken for good. Clocks agree in this run: with
`Skews = {0, 1}` it has 5 million states and takes five minutes, and its properties
hold too. Pushes do not fail in it: with a failing push it has four million states,
and `LiveLeaseStands` then sees claims that are merged but not yet on the remote (below).
`sunk` is never true here, so `HolderKnows` is checked without that excuse; the proof
covers what the bounds leave out. `shared_converge` has the failures, and needs no lease
to expire.
More instances add no new kind of step, since they meet only at the remote, and a
single peer can make it move at any point of a cycle.

In `playbook_run` every hazard needs a Play and at most two more events, which may be
any of the calls, edits, hand runs, failures, shutdowns and crashes; steps of the
walkers and of workers are not bounded. Three slots are the walker that exits, the one
that replaces it and one more. In `worker_life` a second launch meets what the
first left behind, and each setting adds one kind of trouble to it; `Edits` stands for
a move, a deletion, a forced release and a stall. The number of events is cut at 2:
one that is being handled and one that comes after. With the sweep off (`Alone`) there
is no trouble, since then nothing repairs a lost event. In `chat_sessions` two calls run
at a time and a third follows; a limit of 1 makes a second open meet it. (Four calls
without a restart, 3.2 million states, hold too.)

**Symmetry.** Calls and agents of `MCCardClaims`, the instances of `shared_claims`, and
the calls and sessions of `chat_sessions` are interchangeable, and none of these runs checks liveness, so
TLC may permute them. The other runs use none.

**Deadlock.** Checked in the `WriteQuiesce` runs and in the `CommitQueue` runs (the
pause and resume of the syncer never stop). The card,
playbook, worker and chat runs end when the bounded calls have been made, so it is off
there; `NobodyWaitsForever` states the absence of deadlock in `ChatSession` directly. It is on in the shared runs: a cycle can always go on,
and a periodic one can always begin.

## Fairness

`FairSpec` of `CommitQueue` assumes that a goroutine that can run does, that git
returns (it runs under a timeout) and that whoever quiesced the queue resumes it
(`UnlockWrites` is deferred). A sender and a worker are strongly fair. Go hands
a channel's free slot to blocked senders first-in first-out, and every Resume
closes the channel that wakes the waiting worker and leaves the queue open for the
sync interval, which is far longer than the worker needs. Without that, a syncer
that paused again in no time could starve a worker for ever, which the interval
excludes. Nothing makes a wait expire, a caller call or Close begin.

`WFairSpec` needs only weak fairness: jobs and ticks are bounded, so only a
deadlock could keep a lock from a waiter. A shutdown goes on once its context is
cancelled (its phases have budgets), the listener takes its notifications as long as it
is not; nothing makes a mutation, a tick or a shutdown begin, or a caller's wait expire.

`Fairness` of `SharedClaims`: a cycle that began goes on (`Working`; git calls run
under timeouts) and the periodic sync always comes again (`Fetch(i, "none")`, the
ticker of `periodicPull`). No caller has to call, time need not pass, and nothing has
to fail. `BoardsAgree` is only about what happens when the writes, faults and
crashes, which are bounded, are over.

`Fairness` of `PlaybookRun`: walkers and calls go on, the tick of a waiting walker comes,
commits are answered, a worker ends or its loss is noticed (`WorkerLife` shows that it
is), a move that holds `CardService.writeMu` is written, and a server told to shut down
is started again. `RunSettles` uses the form `[]<>`, since a Play may always come and start
the run again. It names the one way a run goes on for ever with no more calls: workers that
again and again end cleanly and leave their card in todo (`EndsInTodo`). Without that
disjunct TLC shows the circle of `Consider`, `Launch`, `Queue`, `Trigger` and `WorkerEnds`,
in which the run's block never changes. A fairness condition that excludes it would ask
workers for something that the server does not make them do.

`Fairness` of `WorkerLife`: goroutines go on, callbacks arrive or are given up after
their retries, the guard expires, the sweep's ticker comes. `Age` is strongly fair: a
write makes the card new again, but writes are bounded. Nothing makes a worker work or
exit, or a person act.

## Proofs

### The commit queue

Assumptions: `QueueAssumption` (finite sets of projects and jobs, a project for
every job, at least one slot, `NoJob` is no job). TLC evaluates it in the runs.

The invariants the runs check are not inductive: nothing in `Accounting` says that
the job a worker retires was counted. The argument builds one inductive invariant
in layers, each proved by a lemma per layer for the initial state and for a step:

1. `Typed`: types, and a worker holds a job exactly inside `processJob`.
2. `Placed`: a queued job is in its project's channel, once, a running one with
   its project's worker, and conversely. From it, what one action does to one job
   is known not to touch another.
3. `Accounting`: the counters are the cardinalities of the sets they count.
4. `Answered`: a job has an answer exactly from `Answer` on.
5. `Ordered`: a job whose Enqueue had returned is ahead of the later one in the
   channel, or already answered when the later one starts.
6. `Shutdown`: the closer's phases against senders, channels and workers. It needs
   `Accounting`: Close waits for `sending = 0` and concludes that nobody sends.
7. `Logged`: a job enters the history in the Execute step of its worker and the
   worker's result tells the truth about it until it is the answer.

| Theorem | Statement |
|---|---|
| `QueueTypeOK` | `Spec => [](TypeOK /\ WorkerHolds)` |
| `QueueAccounting` | `Spec => []Accounting` |
| `QueueEnqueueOrder` | `Spec => []EnqueueOrder` |
| `QueueNoSendOnClosedChannel` | `Spec => []NoSendOnClosedChannel` |
| `QueueCloseLosesNothing` | `Spec => []CloseLosesNothing` |
| `QueueLogMatchesAnswers` | `Spec => []LogMatchesAnswers` |
| `QueueImplementsCommitService` | `Spec => ImplementsCommitService` |

For the last one, `Send` maps to `Accept`, an `Execute` that lands to `Commit`,
`Answer` to `Reply`, the two outcomes of `Enqueue` to `Ask` and `Refuse`, the first
and last step of Close to `Close` and `Finish`, and every other step stutters.
`HasTurn` is the heart of it: a worker about to commit or answer has the turn,
by `Ordered` (what came before is answered) and `Placed` (a project has one worker,
so nothing else of the project is committed and unanswered).

### Locks, quiescing and pushes

Assumptions: `QueueAssumption` and `QuiesceAssumption` (`Nobody` and the syncer's
goroutines are no jobs, the settings have the right shape). Nothing is assumed about the number of card and playbook
mutations, which of them await their commit locked, the number of projects, or how
often the syncer runs.

| Theorem | Statement |
|---|---|
| `QuiesceUsesQueue` | `WSpec => Spec` |
| `QuiescePullSeesStillStore` | `WSpec => []PullSeesStillStore` |
| `QuiesceMergeSeesCommittedTree` | `WSpec => []MergeSeesCommittedTree` |
| `QuiesceCommitsReachRemote` | `WSpec => []CommitsReachRemote` |

`StepIsQueueStep` is why the proofs about the queue need no repetition: a step of a
mutation or the syncer is one of the queue's or leaves it alone, so `Sound`, the
invariant of `CommitServiceProofs`, holds here. `Locked` says who holds which mutex at
which point (`WriterLocks`, `SyncLocks`), which phases go with which kind of
repository, and that the queue is being quiesced exactly while the syncer is between
its locks and its release. From it, `DrainHolds`: once the poll has seen `pending = 0`
(`Accounting` turns the counter into jobs) nothing can enter the queue, because a
mutation about to hand a job over would hold a mutex that the cycle holds.

`CommitsReachRemote` is `NotifiedIsPushed` and `FinalPushSendsAll`. The first is not
inductive: a push that succeeds clears the failure and sets
the remote to the HEAD that the operation read when it began. `OperationCovers` says
what that HEAD may miss: only commits whose notification is in `pushCh`, or taken by a
listener that has yet to read HEAD. `HeadRead` says that no operation takes a commit
back from the remote. For the second, a queue that Close has drained changes neither
HEAD nor the closer (`DrainedQueueIsFrozen`, from the queue's `Shutdown`), so that every
operation that begins after the last push reads all of HEAD, and none that is over can
have left the remote behind without failing (`Stopping`, `ReadsAll`).

### Shared claims

Assumptions: `LeaseAssumption` (what `BoardsConfig` accepts) and `InstAssumption`
(`Nobody` is no instance). Nothing is assumed about the number of instances, how
far their clocks differ, or how many calls, faults and crashes there are.

| Theorem | Statement |
|---|---|
| `MergeAgrees` | two sides with different update times, and different claim times if both claimed, merge to one card whichever side merges |
| `SharedTypeOK` | `Spec => []STypeOK` |
| `SharedCancelledIsUnheld` | `Spec => []CancelledIsUnheld` |
| `SharedHolderKnows` | `Spec => []HolderKnows` |
| `SharedSyncedAgree` | an instance that has nothing to push or to fetch has the remote's card, always |
| `SharedTakenIsOld` | a card is taken from a peer only when the fastest clock is more than `lease_timeout` past the stamp of its lease |

`CancelledIsUnheld` speaks of the boards and the remote only, and is not inductive:
an undo restores the card that the cycle had read, so that card has to be unheld
too if it is cancelled. `Cancelled` adds it, `Boards` and `Tables` add the types; `Inv` is
their conjunction. A merge keeps it because it ends in the repair (`MergeSound`,
whatever the two sides hold); a claim because it refuses a cancelled card, which an
unheld one cannot renew; a move because cancelling clears the claim; releases and
stalls because they leave no claim at all. Each action has a lemma of its own.

The two conditions of `MergeAgrees` are needed: at equal times `mergeClaim` and
`pickLater` prefer their second argument.

`HolderKnows` rests on `Good`, one lemma per action. `Based`: how a board stands to the
remote (equal to its base unless it is ahead; a base that is the tip unless it is behind;
nothing sunk between base and tip; nothing open that the base has closed by its holder).
`Cycled`: what a cycle may undo. `Known`: a claim an agent was told of is on the board, or a
forced release has just ended it and its undo would put it back; and a renewal that is
undone puts back the same claim. The heart is `SilentMerge`: if a merge takes a claim away,
raises no epoch and leaves the card open, then the other side had let it go at an old
epoch, or this side was open where the base was closed; in all other cases `lostClaims`
sees it (`PullTells`). Both excuses are needed: TLC violates the property when
either is dropped. `SharedSyncedAgree` is a part of `Based`.

`SharedTakenIsOld` rests on `Stamps`: each beat, on a board, on the remote or kept for an
undo, was read off some clock that has passed it, and a peer's lease was seen no
earlier than that. Every action either stamps its own board by its own clock or moves
stamps around (`Stamping`); a merge makes none (`MergeStamps`).

### Card claims

Assumption: `ClaimAssumption`. Nothing is assumed about the number of calls and agents,
the transition relation, or what a plan allows. All operations are shown to be one
`Write` of a card (`OperationsWrite`), with what the invariants need to know of
it: that it is unclaimed if it is cancelled, keeps or ends the claim together with the
history, and is as recent as its agent's sign of life. Each invariant then has a case
for a write, the queue's worker, an answer, a restart and the sweep's scan.

| Theorem | Statement | Inductive invariant |
|---|---|---|
| `CardTypeOK` | `Spec => []CTypeOK` | itself |
| `CardCancelledIsUnclaimed` | `Spec => []CancelledIsUnclaimed` | `AllSound`: also the cards that pending rollbacks would restore |
| `CardAcknowledgedClaimHolds` | `Spec => []AcknowledgedClaimHolds` | `ClaimKept`: where commits succeed nothing rolls back, and the card's agent is the claimant whether told or not |
| `CardDirtyIsAccounted` | `Spec => []DirtyIsAccounted` | `FlushInv`, below |
| `CardNoStrandedEdit` | `Spec => []NoStrandedEdit` | `LeftInv`, below |
| `CardAliveIsNotStalled` | `Spec => AliveIsNotStalled` | `Alive`: a claimed card's heartbeat is no older than its agent's last sign of life |

`DirtyIsAccounted` needs to know why a flush that succeeded may forget the deferred
paths: from its enqueue to the reading of its answer the call holds `writeMu`
(`FlushHolds`), so nothing is written and the store is what was committed
(`FlushIsComplete`), and the one flush in the queue is the one that is waited for
(`FlushAwaited`, `OneFlush`, `FlushToCome`).

`NoStrandedEdit` needs two more facts. While an unowned card has deferred edits, and no
flush has failed and nothing was promoted, some call is flushing or will (`Flushes`):
each write that leaves a card unowned flushes itself, commits at once because the card
was unowned before, or is a promotion (`Left`, shown for every operation). And when all
calls have returned the queue is empty, because the commit of each call is waited for by
that call (`CardAwaited`, `OneCard`); what is dirty is then deferred.

### Playbook run

Assumption: `RunAssumption` (cards and manual steps are apart, the first entries are
entries, none of them twice: `buildEntry` refuses a second entry of a card; the slots are
finitely many numbers). Nothing is assumed about how many cards, walkers, calls, edits,
faults and restarts there are, nor about how workers end.

| Theorem | Statement |
|---|---|
| `PlaybookRunTyped` | `Spec => []PTypeOK` |
| `OneWalkerInPass` | `Spec => []` (at most one goroutine is in a pass) |
| `ActiveRunWalked` | `Spec => []ActiveRunIsWalked` |
| `StoppedQuiet` | `Spec => []StoppedRunIsQuiet` |
| `OneWorker` | `Spec => OneWorkerAtATime` |
| `NothingStranded` | `Spec => []ShutdownStrandsNothing` |
| `LaunchedOnce` | `Spec => QueuedOnce` |

None of the properties is inductive. `IInv` is a stack of layers, one lemma each for
the initial state and for a step:

1. `Typed`, `Decided`: what the variables hold, and what a pass has decided by where it
   stands: a walker about to launch has its card as the run's entry.
2. `Registry`, `Uncancelled`: walkers wait for one another in a chain whose end is the
   registered one, so that only one goroutine is in a pass; one outside the registry is
   cancelled. This replaces the two maps of the runner by one order.
3. `Locks`: who holds the playbooks' lock, and what a failed commit restores. A rolled
   back Stop makes the run active again, a rolled back Play inactive.
4. `Walked`: an active run has a walker that makes another pass, or a call is on its way
   to give it one. A walker at its release has not lost a nudge.
5. `Pending`: a card queued without a container is in the hands of its walker.
6. `Known`: a card that the run launched was an entry, and ids are not reused. A removed
   live card therefore cannot come back in the middle of a pass.
7. `Alone`, `Held`: after its look at the workers a pass knows of no live one among its
   entries, and no entry outside its snapshot has one that the run launched. Only its
   own `Queue` changes the first; a hand run would, but is refused while the run that the
   pass read is active, and Play and Stop write a block that no pass has read
   (`NewBlock`).
8. `Requested`: the card that a move holds is done, and hand runs are of cards.
9. `Quieting`, `Settled`: between its write and its answer Stop's targets hold every card
   with a worker in flight, and those that the cancelled walker may still launch.

`LaunchedOnce` needs as much again (`OnceInv`). The code has no list of what it launched;
that no card is launched twice follows from where the run's block points. The statement
has the exceptions of `QueuedOnce` and no other: a card that was moved back to todo, or left
there by a worker that ended cleanly, is no longer in `sent` and may be launched again, and
`Excused` covers rollbacks and late reopenings. Each is needed: without any one of them
TLC has a counterexample. Call a card spent when it is in `sent` and not done.

1. `Tried`: a spent card in todo has a worker or has failed, so a pass that finds the run
   on it waits for a person. A clean end in todo is the one step that would break it.
2. `Stands`: an active run points at its spent card, and every entry before that one is
   complete (`Leads`); if the write under way is rolled back, it points there again.
3. `Aimed`: a pass read the run when it stood on that card; it cannot walk past it, since
   it is not complete, nor stop short of it, since the entries before it are. Entries
   added since are behind it, and what it decides leaves the run on that card.
4. `Abreast`: as long as the run is the one it read, an entry that a pass skipped is
   still finished (a card of an active run cannot be taken out of done, a step not
   unchecked), and edits have kept the order (`Ordered`). This is what makes `Stands`
   true again when the pass queues its card.
5. `Distinct`, `Placed`: entries are distinct, and how far a pass has come.

The lemmas about `RemoveAt` and `Append` (`LeadsRemove`, `OrderedAppend`, ...) say that
adding at the end and removing keep an order. A Play clears the history, and no pass has
read its block.

TLC checked each layer as an invariant on larger instances than the run's (five calls,
two acts of people, two faults, a restart; or two restarts) before it was proved. There
some properties turned out to have held because of the bounds only, and their
statements became exact: `excused` and `crashed` name the states in which the code
promises less.

### Chat sessions

Assumption: `ChatAssumption` (sessions and callers are finite sets, apart, and hold
neither of the values that stand for no session and no holder; the limits are positive).
Nothing is assumed about how many calls, sends, faults and restarts there are.

| Theorem | Statement |
|---|---|
| `ChatSessionTyped` | `Spec => []CTypeOK` |
| `LimitKept` | `Spec => []WithinLimit` |
| `EndedIsDown` | `Spec => []ClosedIsEnded` |
| `OpenIsBridged` | `Spec => []LiveIsBridged` |
| `MessagesOnce` | `Spec => []GivenOnce` |
| `NoCircle` | `Spec => []NobodyWaitsForever` |

The inductive invariant `IInv` has six layers:

1. `Typed`: what the variables hold, and for every place a call can stand at, where it
   may return to (`Fits`), so that a return is never to a place the code does not have.
   Only a call between `Reserve` and the end of its open has a reservation.
2. `Mutexes`: the holder of the status mutex is at `cold`; of the hub's, inside
   `Subscribe`; of a transcript's, between `arm` and the end of its send, of a blueprint.
3. `Flights`: one open of a session at a time, and until its `Persist` the row is not
   open: no other action opens a row that is closed.
4. `Fresh`: a message that is still to be sent is in no container and no row, so a
   resume or a second send after a reopened session cannot repeat it; each call has a
   message of its own.
5. `Limited`: outside `adrift` a container has an open row that no `EndSession` is about
   to close, or an open at `persist`. The sessions with an open row or a reservation fit the limit;
   `Reserve` alone adds one, after it has counted both.
6. `Bridged`: outside `adrift` and `crossed`, a closed row, or one that an `EndSession`
   is closing, has no consumer; an open one without a consumer has a call that is about to register it or to close the
   row; a chat's consumer ends only when its container has.

A call's step is described once, by the lemma named after its action (`DoesKill`: where
the call stood and goes, and what is left alone). Lemmas over all steps follow
(`OthersStay`: no step moves another call, but for those that share its open), and each
layer is one lemma on top. `NoCircle` needs the first two layers only. They rank the
waiting threads: those on a status mutex wait for calls that never wait; on a hub mutex
or a flight, for those; on a transcript, for these; and `stopConsumer` waits for a
consumer with no mutex held. The lowest thread of any set waits for nobody in it.

### Workers

`LostIsLost` states `Spec => NoFalseLoss` and needs no assumption about the constants:
any number of launches, stops, edits, lost events and calls, crashes and restarts. What
it does rest on is in the model: the timing assumptions of `Up`, `Age` and `owed`
described above. The inductive invariant is `Typed` with the conjuncts of `Lost`:

1. `Aged`: a card with a live worker that nobody has written for the grace is not being
   launched, and no container is on its way to it.
2. `Listed`, `Missed`: what a listing did not find has not come up since, unless the card
   was written after it; so for the listing of this sweep and for the one before.
3. `Owed`, `Twice`: a card that was missed has no callback to come but those that were on
   their way at that listing, and one that was missed twice has none.
4. `Marked`: the sweep marks a card only after two misses.

One miss is not enough: the run's exit report may still be on its way, which is why the
second listing is a conjunct of its own (`Twice`).

### What is only model-checked

The liveness properties, among them `CleanedUp` and `LostIsNoticed` of `WorkerLife`,
and `BoardsAgree` (TLAPS cannot prove liveness under fairness here); and `LiveLeaseStands`,
which holds within its run's bounds only. A foreign lease is known by its beat and epoch.
Once a push fails a claim may be on the board of the instance that merged it and not on the
remote, or be put back by an undo after it was gone, and the lease that is taken is then
not the one on the remote. What remains for all constants is `SharedTakenIsOld`.

## What the checks found

1. **A rebase can race a commit on a private repository** (`quiesce_rebase`).
   `AwaitIdle` waits for `inflight = 0`, and a worker that has passed
   `waitUnpaused` has not counted itself yet. It commits while `pullRebase` runs
   git, although `AwaitIdle` returned without an error. `Drain` counts `pending`
   and is safe.
2. **A rollback can undo another caller's committed write** (`claims_rollback`).
   The commit is awaited after `writeMu` is released; a second caller reads,
   changes and commits the card before the first commit fails; the rollback
   restores the first caller's snapshot. Disk and HEAD differ, and an acknowledged
   write is gone from the store.
3. **An undo can override an acknowledged claim** (`shared_undo`). A and B claim at
   the same epoch, A a moment earlier; B's push lands first and B's agent is told.
   A's push is rejected, its merge keeps A's earlier claim, and its second push
   fails. The undo finds A's write still in place and commits the unclaimed card on
   top of B's claim, at B's epoch minus one. The comment on `undoClaimWrite` relies
   on the next merge to prefer B, but there is none: the next push is a
   fast-forward. `lostClaims` asks for a higher epoch, so B is not told.

Also met while modelling, and excused by name in the property concerned:

- A claim can go without a `claim.lost` in two ways besides the third finding's, on
  boards whose transitions let a finished card be reopened. A cancellation on an unclaimed
  card raises the epoch to that of a peer's claim already on the remote, wins the merge
  as a final state, and is reopened before the claimant syncs: what arrives there is an
  open, unclaimed card of the epoch it has (`sunk`). Or the holder reopens its finished
  card while a peer cancels it at the epoch of the completion: the merge takes the claim
  from the other side and the open state from the holder's (`reopened`).
- A forced release whose push failed is not undone when the cycle merged a change of
  the card meanwhile; it stands, its caller is told that it failed, and no event says that
  the claim is gone (`told` ends there).
- A promotion of an unclaimed card defers its commit and flushes nothing
  (`service_worker.go:686`); `docs/gotchas.md:122-124` says the run it starts flushes
  it, but promoting alone starts no run (`promoted` in `NoStrandedEdit`).
- `docs/running-cards.md:227` says "The runner never retries on its own", and it does: a
  worker may report completed while its card is still in todo
  (`service_worker.go:552-564` clears `worker_status` and checks no state), and
  `pass.go:99-115` then finds a todo card without a worker on a running run and launches it
  again, without limit. The comment at `pass.go:101-104` has the crash between the write
  and the trigger in mind, which the code cannot tell from it. `QueuedOnce` and
  `RunSettles` name the case (`sent` in `WorkerEnds`, `EndsInTodo`) and fail without it.
- `refuseReopenDuringRun` (`service_transitions.go:90-107`) does not hold the playbooks'
  lock: a Play between its look and the write finds a done card that is open a moment later,
  in front of the entry the run is on (`slipped`).
- A Play is visible before its commit, and a walker still registered may begin a pass on
  it. When the Play is rolled back that pass cannot write, but past its last write it
  queues its card for a run that is gone, and the next run may queue it again: such a
  launch is no launch of the run (`sent`, `Stray`).
- An edit or a Stop of a playbook that is rolled back was visible before: a pass may
  have acted on it (`undone`).
- A Stop that gave up waiting for its walker leaves one that may still launch a card
  which a later Stop does not look at (`runner.go:334-346`; `Stray`).
- A crash between `MarkQueued` and the answer of the trigger leaves the card queued until
  the reconcile sweep finds it (`crashed`).
- A call that finds a chat's row open may start a consumer while an `EndSession` closes
  it, against the comment at `manager.go:953-957` (`crossed`).
- A chat deleted while it is being opened keeps its container: the error of the second
  read in `openCold` returns without a rollback (`adrift`).
- The reaper ends a session that was used again after its listing, and the grace timer
  can leave a watched session warm; neither breaks a property here.
- A Stop between the queued write and the trigger kills nothing, and the worker still
  starts; it runs until the sweep or the end of its card (`docs/remote-execution.md:1196`).
- Callbacks carry no run identifier: a late exit report of an old run marks a newly
  queued one failed until that reports running. `Up` excludes it.

## Not modelled, and why

Left out of the modelled parts:

- `CommitQueue`: the content of commits; two concurrent quiescers, which
  `LockWrites` excludes.
- `WriteQuiesce`: what a merge cycle does to cards (that is `SharedClaims`), the pull at
  startup, several manual syncs at a time, auto-push switched off, the status figures;
  of the shutdown, the HTTP drain and the joins of other goroutines (they only wait).
  After a shutdown the process is gone: what a restart finds is in `CardClaims`.
- `SharedClaims`: local commits that fail, the fallback of a merge whose result
  does not validate, claims from before shared boards (they have no instance),
  subtasks, several cards or agents of one instance, verified creation of cards and
  projects. A crash inside a merge is taken as one before it: the next cycle
  aborts the stale merge.
- Between a takeover and the loser's next cycle two instances hold the card. The
  documentation allows it, and the fence narrows it; how long it can last is a
  real-time property that is not stated.
- `ClaimMerge`: worker status and phase, the log, the body, playbooks, project files.
- `CardClaims`: parent auto-transitions, deletion, vetting, dependencies and the
  other validators (they refuse a call, and a refused call changes nothing), store
  writes that fail, a startup sweep that fails, the card's other fields.
- `PlaybookRun`: the texts of reasons, unvetted and missing cards, cards claimed on
  another instance, deletion and reordering, lost answers of the trigger, an entry that is
  removed and added again (the code gives it a new id: a card whose kill failed could come
  back live in the middle of a pass). A card
  operation is one step (`CardClaims` and `CommitQueue` have its parts) but for a reopening
  and a launch, a failed and a killed worker are one, a hand run's write and trigger are one.
- `WorkerLife`: `claim.lost` and fencing on shared boards, stop-all, commits of the
  status write that fail, several runs of one card, other cards on the bus, the
  playbook's guard on hand runs.
- `ChatSession`: the creation of sessions, clearing the context, rehydration, the
  working indicator, usage, replay rings and the streams to browsers, database writes
  that fail (but for the open's), the limit of restarts of an architect. A restarted
  server takes its sessions up at once. `openCold`'s rollback of a start whose row is no
  longer cold (`manager.go:1614-1620`) cannot be reached: opens of a session share one
  flight, and only an open makes a cold row active. Which error a failed start returned is
  not kept: a send may count any of them as an unreachable backend (`StartFailed`).

Not modelled at all: the Jira outbox (one goroutine over one table), authentication (its races are closed by guarded SQL updates;
the rest is cryptography), the databases (every statement is a transaction),
board parsing and templates, Jira and GitHub import, image, knowledge and model
stores (pure I/O or lookups), MCP and REST decoding, configuration, the web client. These
and the request decoding, rendering and parsing inside the modelled components are
most of the repository's lines, which is why the lines that definitions translate
are a small share of them.

## Plan

Done, in this order: `CommitQueue` with `CommitService` and the proofs;
`WriteQuiesce`; `CardClaims`; `ClaimMerge` and `SharedClaims` with their first
theorems; `PlaybookRun`; `ChatSession`; `WorkerLife`; the proofs about `CardClaims`,
`WriteQuiesce`, `PlaybookRun`, `ChatSession` and `WorkerLife`; the rest of those about
`SharedClaims`.
Left, the most useful first:

1. A lock with a lease as the abstract specification of `SharedClaims`: who is told
   that it holds the card, and when another may take it.
2. Parent auto-transitions of cards with subtasks, and the chat's replay ring.
