---------------------------- MODULE CommitQueue ----------------------------
(***************************************************************************)
(* gitops.CommitQueue: one worker goroutine per project runs the commits   *)
(* of that project, and a syncer pauses, drains or closes the whole queue. *)
(*                                                                         *)
(* Every job is enqueued at most once.  processJob is split where another  *)
(* goroutine can run: after the receive, after waitUnpaused, after the     *)
(* context check, around the commit itself, and between the answer on      *)
(* job.Done and the deferred decrement of pending.                         *)
(***************************************************************************)
EXTENDS Integers, Sequences, FiniteSets

CONSTANTS
    Project,      \* commit partitions: a project, or the playbooks partition
    Job,          \* the commit jobs of a behaviour
    ProjectOf,    \* [Job -> Project]
    BufferSize,   \* queueBuf, the capacity of a project's channel
    Cancellable,  \* bound: the jobs whose caller may hang up
    NoJob

ASSUME QueueAssumption ==
    /\ IsFiniteSet(Project) /\ IsFiniteSet(Job)
    /\ ProjectOf \in [Job -> Project]
    /\ BufferSize \in Nat \ {0}
    /\ Cancellable \subseteq Job
    /\ NoJob \notin Job

VARIABLES
    closed,       \* q.closed
    paused,       \* q.paused (pauseCh is open exactly while it holds)
    inflight,     \* q.inflight
    pending,      \* q.pending
    sending,      \* the q.sending wait group
    channel,      \* q.workers: the buffered jobs of each project
    chanClosed,   \* the projects whose channel Close has closed
    workerPc,     \* where each project's worker goroutine is
    workerJob,    \* the job it holds
    workerErr,    \* the result execute returned for it
    stage,        \* where each job is between its caller and retirement
    outcome,      \* what was sent on job.Done ("none": nothing yet)
    cancelled,    \* the jobs whose Ctx is done
    quiescer,     \* the caller of Pause/AwaitIdle/Drain/Resume
    closer,       \* the goroutine Close starts
    log,          \* the git history: jobs in commit order
    before        \* history: jobs whose Enqueue returned before this one's began

queueVars == <<closed, paused, inflight, pending, sending, channel, chanClosed>>
workerVars == <<workerPc, workerJob, workerErr>>
jobVars == <<stage, outcome, cancelled, before>>
vars == <<queueVars, workerVars, jobVars, quiescer, closer, log>>

WorkerPcs == {"none", "receive", "waitUnpaused", "checkCtx", "markBusy",
              "execute", "markIdle", "answer", "retire", "exited"}
Errs == {"nil", "failed", "ctx"}

\* Jobs Enqueue counted and processJob has not retired.
Outstanding == {"sending", "queued", "running"}

TypeOK ==
    /\ closed \in BOOLEAN /\ paused \in BOOLEAN
    /\ inflight \in Int /\ pending \in Int /\ sending \in Int
    /\ channel \in [Project -> Seq(Job)]
    /\ chanClosed \subseteq Project
    /\ workerPc \in [Project -> WorkerPcs]
    /\ workerJob \in [Project -> Job \cup {NoJob}]
    /\ workerErr \in [Project -> Errs]
    /\ stage \in [Job -> {"new", "refused", "retired"} \cup Outstanding]
    /\ outcome \in [Job -> {"none", "closed"} \cup Errs]
    /\ cancelled \subseteq Job
    /\ quiescer \in {"free", "pausing", "awaiting", "quiet",
                     "draining", "drainWaiting", "drainPausing", "drained", "timedOut"}
    /\ closer \in {"open", "awaitSenders", "awaitWorkers", "done"}
    /\ log \in Seq(Job)
    /\ before \in [Job -> SUBSET Job]

Init ==
    /\ closed = FALSE /\ paused = FALSE
    /\ inflight = 0 /\ pending = 0 /\ sending = 0
    /\ channel = [p \in Project |-> <<>>]
    /\ chanClosed = {}
    /\ workerPc = [p \in Project |-> "none"]
    /\ workerJob = [p \in Project |-> NoJob]
    /\ workerErr = [p \in Project |-> "nil"]
    /\ stage = [j \in Job |-> "new"]
    /\ outcome = [j \in Job |-> "none"]
    /\ cancelled = {}
    /\ quiescer = "free" /\ closer = "open"
    /\ log = <<>>
    /\ before = [j \in Job |-> {}]

-----------------------------------------------------------------------------
(* Enqueue: the closed check and the counting are one critical section, the *)
(* channel send is outside it and blocks while the buffer is full.          *)

\* Jobs of j's project whose Enqueue call has returned.
Returned(j) == {i \in Job : /\ ProjectOf[i] = ProjectOf[j]
                            /\ stage[i] \in {"queued", "running", "retired"}}

EnqueueRefused(j) ==
    /\ stage[j] = "new" /\ closed
    /\ stage' = [stage EXCEPT ![j] = "refused"]
    /\ outcome' = [outcome EXCEPT ![j] = "closed"]
    /\ UNCHANGED <<queueVars, workerVars, cancelled, before, quiescer, closer, log>>

\* Mutant: every Enqueue starts the project's worker afresh.
MutantFreshWorker(j) ==
    LET p == ProjectOf[j] IN
    /\ stage[j] = "new" /\ ~closed
    /\ workerPc' = [workerPc EXCEPT ![p] = "receive"]
    /\ pending' = pending + 1
    /\ sending' = sending + 1
    /\ stage' = [stage EXCEPT ![j] = "sending"]
    /\ before' = [before EXCEPT ![j] = Returned(j)]
    /\ UNCHANGED <<closed, paused, inflight, channel, chanClosed, workerJob,
                   workerErr, outcome, cancelled, quiescer, closer, log>>

EnqueueAccepted(j) ==
    LET p == ProjectOf[j] IN
    /\ stage[j] = "new" /\ ~closed
    /\ workerPc' = IF workerPc[p] = "none"
                   THEN [workerPc EXCEPT ![p] = "receive"] ELSE workerPc
    /\ pending' = pending + 1
    /\ sending' = sending + 1
    /\ stage' = [stage EXCEPT ![j] = "sending"]
    /\ before' = [before EXCEPT ![j] = Returned(j)]
    /\ UNCHANGED <<closed, paused, inflight, channel, chanClosed, workerJob,
                   workerErr, outcome, cancelled, quiescer, closer, log>>

Send(j) ==
    LET p == ProjectOf[j] IN
    /\ stage[j] = "sending"
    /\ Len(channel[p]) < BufferSize
    /\ channel' = [channel EXCEPT ![p] = Append(@, j)]
    /\ sending' = sending - 1
    /\ stage' = [stage EXCEPT ![j] = "queued"]
    /\ UNCHANGED <<closed, paused, inflight, pending, chanClosed, workerVars,
                   outcome, cancelled, before, quiescer, closer, log>>

\* The caller's context is cancelled: a hung-up request or a shutdown.
Cancel(j) ==
    /\ j \in Cancellable \ cancelled
    /\ stage[j] \in {"new"} \cup Outstanding
    /\ cancelled' = cancelled \cup {j}
    /\ UNCHANGED <<queueVars, workerVars, stage, outcome, before, quiescer, closer, log>>

-----------------------------------------------------------------------------
(* A worker: run and processJob.                                            *)

Goto(p, from, to) ==
    /\ workerPc[p] = from
    /\ workerPc' = [workerPc EXCEPT ![p] = to]

Receive(p) ==
    /\ channel[p] # <<>>
    /\ Goto(p, "receive", "waitUnpaused")
    /\ workerJob' = [workerJob EXCEPT ![p] = Head(channel[p])]
    /\ channel' = [channel EXCEPT ![p] = Tail(@)]
    /\ stage' = [stage EXCEPT ![Head(channel[p])] = "running"]
    /\ UNCHANGED <<closed, paused, inflight, pending, sending, chanClosed,
                   workerErr, outcome, cancelled, before, quiescer, closer, log>>

\* Mutant: the worker takes the zero job a closed channel delivers for one.
MutantNoOkCheck(p) ==
    /\ channel[p] = <<>> /\ p \in chanClosed
    /\ Goto(p, "receive", "waitUnpaused")
    /\ UNCHANGED <<queueVars, workerJob, workerErr, jobVars, quiescer, closer, log>>

\* Mutant: the worker leaves a closed channel with its buffer unread.
MutantLeavesBuffer(p) ==
    /\ p \in chanClosed
    /\ Goto(p, "receive", "exited")
    /\ UNCHANGED <<queueVars, workerJob, workerErr, jobVars, quiescer, closer, log>>

\* run returns: the channel is closed and its buffer is empty.
Exit(p) ==
    /\ channel[p] = <<>> /\ p \in chanClosed
    /\ Goto(p, "receive", "exited")
    /\ UNCHANGED <<queueVars, workerJob, workerErr, jobVars, quiescer, closer, log>>

\* waitUnpaused returns when the queue is not paused or the context is done.
WaitUnpaused(p) ==
    /\ ~paused \/ workerJob[p] \in cancelled
    /\ Goto(p, "waitUnpaused", "checkCtx")
    /\ UNCHANGED <<queueVars, workerJob, workerErr, jobVars, quiescer, closer, log>>

CheckCtx(p) ==
    LET done == workerJob[p] \in cancelled IN
    /\ Goto(p, "checkCtx", IF done THEN "answer" ELSE "markBusy")
    /\ workerErr' = [workerErr EXCEPT ![p] = IF done THEN "ctx" ELSE "nil"]
    /\ UNCHANGED <<queueVars, workerJob, jobVars, quiescer, closer, log>>

MarkBusy(p) ==
    /\ Goto(p, "markBusy", "execute")
    /\ inflight' = inflight + 1
    /\ UNCHANGED <<closed, paused, pending, sending, channel, chanClosed,
                   workerJob, workerErr, jobVars, quiescer, closer, log>>

\* Mutant: an error of the commit is dropped.
MutantSwallowsError(p) ==
    /\ Goto(p, "execute", "markIdle")
    /\ \E landed \in BOOLEAN :
         log' = IF landed THEN Append(log, workerJob[p]) ELSE log
    /\ workerErr' = [workerErr EXCEPT ![p] = "nil"]
    /\ UNCHANGED <<queueVars, workerJob, jobVars, quiescer, closer>>

\* The commit runs.  A context cancelled during it fails the job, and a shell
\* commit killed that way may have reached HEAD already.
Execute(p) ==
    LET j == workerJob[p] IN
    /\ Goto(p, "execute", "markIdle")
    /\ \E err \in {"nil", "failed"}, landed \in BOOLEAN :
         /\ err = "nil" => landed
         /\ err = "failed" /\ landed => j \in cancelled
         /\ workerErr' = [workerErr EXCEPT ![p] = err]
         /\ log' = IF landed THEN Append(log, j) ELSE log
    /\ UNCHANGED <<queueVars, workerJob, jobVars, quiescer, closer>>

\* The last worker to go idle closes idleCh, which an AwaitIdle caller waits on.
MarkIdle(p) ==
    /\ Goto(p, "markIdle", "answer")
    /\ inflight' = inflight - 1
    /\ quiescer' = IF inflight' = 0 /\ quiescer = "awaiting" THEN "quiet" ELSE quiescer
    /\ UNCHANGED <<closed, paused, pending, sending, channel, chanClosed,
                   workerJob, workerErr, jobVars, closer, log>>

\* Mutant: a job whose context is done is dropped without an answer.
MutantDropsCancelled(p) ==
    /\ Goto(p, "answer", "retire")
    /\ outcome' = [outcome EXCEPT ![workerJob[p]] =
                     IF workerErr[p] = "ctx" THEN @ ELSE workerErr[p]]
    /\ UNCHANGED <<queueVars, workerJob, workerErr, stage, cancelled, before,
                   quiescer, closer, log>>

Answer(p) ==
    /\ Goto(p, "answer", "retire")
    /\ outcome' = [outcome EXCEPT ![workerJob[p]] = workerErr[p]]
    /\ UNCHANGED <<queueVars, workerJob, workerErr, stage, cancelled, before,
                   quiescer, closer, log>>

\* Mutant: the early return for a done context skips the decrement.
MutantKeepsPending(p) ==
    /\ Goto(p, "retire", "receive")
    /\ pending' = IF workerErr[p] = "ctx" THEN pending ELSE pending - 1
    /\ stage' = [stage EXCEPT ![workerJob[p]] = "retired"]
    /\ workerJob' = [workerJob EXCEPT ![p] = NoJob]
    /\ UNCHANGED <<closed, paused, inflight, sending, channel, chanClosed,
                   workerErr, outcome, cancelled, before, quiescer, closer, log>>

\* The deferred decrement of processJob.
Retire(p) ==
    /\ Goto(p, "retire", "receive")
    /\ pending' = pending - 1
    /\ stage' = [stage EXCEPT ![workerJob[p]] = "retired"]
    /\ workerJob' = [workerJob EXCEPT ![p] = NoJob]
    /\ UNCHANGED <<closed, paused, inflight, sending, channel, chanClosed,
                   workerErr, outcome, cancelled, before, quiescer, closer, log>>

-----------------------------------------------------------------------------
(* The caller that quiesces the queue.  CardService.LockWrites makes one of *)
(* these at a time: Pause then AwaitIdle on a private repository, Drain on  *)
(* a shared one; UnlockWrites resumes.                                      *)

quiet == <<closed, inflight, pending, sending, channel, chanClosed, workerVars,
           jobVars, closer, log>>

QuiescerGoto(from, to) == quiescer = from /\ quiescer' = to

Pause ==
    /\ QuiescerGoto("free", "pausing")
    /\ paused' = TRUE
    /\ UNCHANGED quiet

AwaitIdle ==
    /\ QuiescerGoto("pausing", IF inflight = 0 THEN "quiet" ELSE "awaiting")
    /\ UNCHANGED <<paused, quiet>>

AwaitIdleExpired ==
    /\ QuiescerGoto("awaiting", "timedOut")
    /\ UNCHANGED <<paused, quiet>>

DrainResume ==
    /\ QuiescerGoto("free", "draining")
    /\ paused' = FALSE
    /\ UNCHANGED quiet

\* Mutant: Drain waits for running jobs only, as AwaitIdle does.
MutantPollsInflight ==
    /\ QuiescerGoto("draining", IF inflight = 0 THEN "drainPausing" ELSE "drainWaiting")
    /\ UNCHANGED <<paused, quiet>>

DrainPoll ==
    /\ QuiescerGoto("draining", IF pending = 0 THEN "drainPausing" ELSE "drainWaiting")
    /\ UNCHANGED <<paused, quiet>>

DrainTick ==
    /\ QuiescerGoto("drainWaiting", "draining")
    /\ UNCHANGED <<paused, quiet>>

DrainPause ==
    /\ QuiescerGoto("drainPausing", "drained")
    /\ paused' = TRUE
    /\ UNCHANGED quiet

DrainExpired ==
    /\ QuiescerGoto("drainWaiting", "timedOut")
    /\ paused' = TRUE
    /\ UNCHANGED quiet

\* What the caller does once the queue is quiet is outside this module.
Held == quiescer \in {"quiet", "drained", "timedOut"}

\* Mutant: after a wait that timed out, the queue is left paused.
MutantForgetsResume ==
    /\ Held
    /\ quiescer' = "free"
    /\ paused' = (quiescer = "timedOut")
    /\ UNCHANGED quiet

Resume ==
    /\ Held
    /\ quiescer' = "free"
    /\ paused' = FALSE
    /\ UNCHANGED quiet

-----------------------------------------------------------------------------
(* Close: reject new jobs and lift the pause, wait out the senders, close   *)
(* the channels, wait for the workers.                                      *)

CloseBegin ==
    /\ closer = "open"
    /\ closed' = TRUE /\ paused' = FALSE
    /\ closer' = "awaitSenders"
    /\ UNCHANGED <<inflight, pending, sending, channel, chanClosed, workerVars,
                   jobVars, quiescer, log>>

\* Mutant: the channels are closed without waiting out the senders.
MutantClosesEarly ==
    /\ closer = "awaitSenders"
    /\ chanClosed' = {p \in Project : workerPc[p] # "none"}
    /\ closer' = "awaitWorkers"
    /\ UNCHANGED <<closed, paused, inflight, pending, sending, channel, workerVars,
                   jobVars, quiescer, log>>

\* Mutant: only the channels of idle workers are closed.
MutantClosesIdle ==
    /\ closer = "awaitSenders" /\ sending = 0
    /\ chanClosed' = {p \in Project : workerPc[p] = "receive"}
    /\ closer' = "awaitWorkers"
    /\ UNCHANGED <<closed, paused, inflight, pending, sending, channel, workerVars,
                   jobVars, quiescer, log>>

CloseChannels ==
    /\ closer = "awaitSenders" /\ sending = 0
    /\ chanClosed' = {p \in Project : workerPc[p] # "none"}
    /\ closer' = "awaitWorkers"
    /\ UNCHANGED <<closed, paused, inflight, pending, sending, channel, workerVars,
                   jobVars, quiescer, log>>

CloseDone ==
    /\ closer = "awaitWorkers"
    /\ \A p \in Project : workerPc[p] \in {"none", "exited"}
    /\ closer' = "done"
    /\ UNCHANGED <<queueVars, workerVars, jobVars, quiescer, log>>

-----------------------------------------------------------------------------
Enqueue(j) == EnqueueRefused(j) \/ EnqueueAccepted(j)

Worker(p) == \/ Receive(p) \/ Exit(p) \/ WaitUnpaused(p) \/ CheckCtx(p)
             \/ MarkBusy(p) \/ Execute(p) \/ MarkIdle(p) \/ Answer(p) \/ Retire(p)

\* The rest of LockWrites once it has begun to quiesce.
Waiting == \/ AwaitIdle \/ AwaitIdleExpired \/ DrainPoll \/ DrainTick
           \/ DrainPause \/ DrainExpired

Quiescer == Pause \/ DrainResume \/ Waiting \/ Resume

Closer == CloseBegin \/ CloseChannels \/ CloseDone

Next == \/ \E j \in Job : Enqueue(j) \/ Send(j) \/ Cancel(j)
        \/ \E p \in Project : Worker(p)
        \/ Quiescer
        \/ Closer

Spec == Init /\ [][Next]_vars

(* Goroutines that can run are scheduled, a commit returns, and the caller  *)
(* that quiesced the queue resumes it (LockWrites is paired with            *)
(* UnlockWrites by defer).  The worker and the sender are strongly fair: Go *)
(* serves blocked senders first-in first-out, and every Resume closes       *)
(* pauseCh, which wakes a worker, and leaves the queue open for the sync    *)
(* interval.  No wait is assumed to expire.                                 *)
Fairness ==
    /\ \A j \in Job : SF_vars(Send(j))
    /\ \A p \in Project : SF_vars(Worker(p))
    /\ WF_vars(Waiting) /\ WF_vars(Resume)
    /\ WF_vars(CloseChannels) /\ WF_vars(CloseDone)

FairSpec == Spec /\ Fairness

-----------------------------------------------------------------------------
(* Properties.                                                              *)

\* Counters that the code maintains by hand across goroutines and that Drain,
\* AwaitIdle and Close trust: pending is the number of jobs accepted and not
\* retired (the comment on Drain rests on it), inflight the number of workers
\* between markBusy and markIdle, sending the number of callers still sending.
Accounting ==
    /\ pending = Cardinality({j \in Job : stage[j] \in Outstanding})
    /\ inflight = Cardinality({p \in Project : workerPc[p] \in {"execute", "markIdle"}})
    /\ sending = Cardinality({j \in Job : stage[j] = "sending"})

\* The worker has picked j up, or j has been answered after a pick-up.
Started(j) == stage[j] \in {"running", "retired"}

\* "For a fixed Project, commits execute in enqueue order" (CommitQueue): when
\* Enqueue(i) returned before Enqueue(j) was called, nothing of j starts before
\* i has its answer.
EnqueueOrder ==
    \A j \in Job : \A i \in before[j] : Started(j) => outcome[i] # "none"

\* Close waits for the senders: no send can hit a channel Close has closed.
NoSendOnClosedChannel ==
    \A j \in Job : stage[j] = "sending" => ProjectOf[j] \notin chanClosed

\* "Close drains all buffered jobs": once it reports done, every job that
\* was accepted has been answered.
CloseLosesNothing ==
    closer = "done" => \A j \in Job : stage[j] \notin Outstanding

\* Only commits that ran are in the history, at most once each, and a caller
\* told its commit succeeded finds it there.
LogMatchesAnswers ==
    /\ \A m, n \in 1..Len(log) : log[m] = log[n] => m = n
    /\ \A j \in Job : outcome[j] = "nil" => \E n \in 1..Len(log) : log[n] = j
    /\ \A n \in 1..Len(log) : outcome[log[n]] \in {"none", "nil", "failed"}

\* Every job Enqueue accepted is eventually answered on job.Done, whatever
\* pauses, drains and shutdown interleave with it.
EveryJobAnswered ==
    \A j \in Job : (stage[j] = "sending") ~> (outcome[j] # "none")

\* A shutdown completes even when a syncer pauses the queue again after Close.
CloseCompletes == closed ~> (closer = "done")

\* Where a caller is in Enqueue; what happens to its job later does not show.
Asked == [j \in Job |-> CASE stage[j] = "sending" -> "asking"
                          [] stage[j] \in {"queued", "running", "retired"} -> "accepted"
                          [] OTHER -> stage[j]]

\* What a caller sees of the queue: CommitService with its state computed from
\* this module's.
Promise == INSTANCE CommitService WITH
    accepting <- ~closed,
    finished <- closer = "done",
    asked <- Asked,
    earlier <- before,
    history <- log,
    answer <- outcome

\* The queue keeps its documented promise: per-project order, one commit of a
\* project at a time, truthful answers and a shutdown that loses nothing.
ImplementsCommitService == Promise!Spec
=============================================================================
