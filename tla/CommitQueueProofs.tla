------------------------- MODULE CommitQueueProofs -------------------------
(***************************************************************************)
(* Proofs about CommitQueue for every number of projects, jobs and buffer  *)
(* slots.                                                                  *)
(***************************************************************************)
EXTENDS CommitQueue, FiniteSetTheorems, SequenceTheorems, TLAPS

-----------------------------------------------------------------------------
(* Type correctness, together with: a worker holds a job exactly between    *)
(* receiving it and retiring it.                                            *)

Busy == {"waitUnpaused", "checkCtx", "markBusy", "execute", "markIdle",
         "answer", "retire"}

WorkerHolds == \A p \in Project : workerJob[p] # NoJob <=> workerPc[p] \in Busy

Typed == TypeOK /\ WorkerHolds

LEMMA TypedInit == Init => Typed
<1> SUFFICES ASSUME Init PROVE Typed
  OBVIOUS
<1>1. log \in Seq(Job) /\ channel \in [Project -> Seq(Job)]
  BY DEF Init
<1>2. WorkerHolds
  BY DEF Init, WorkerHolds, Busy
<1>3. before \in [Job -> SUBSET Job]
  BY DEF Init
<1>4. TypeOK
  <2>1. workerPc \in [Project -> WorkerPcs] /\ workerErr \in [Project -> Errs]
    BY DEF Init, WorkerPcs, Errs
  <2>2. workerJob \in [Project -> Job \cup {NoJob}]
    BY DEF Init
  <2>3. /\ stage \in [Job -> {"new", "refused", "retired"} \cup Outstanding]
        /\ outcome \in [Job -> {"none", "closed"} \cup Errs]
    BY DEF Init
  <2>0. closed \in BOOLEAN /\ paused \in BOOLEAN
    BY Zenon DEF Init
  <2>4. /\ inflight \in Int /\ pending \in Int /\ sending \in Int
        /\ chanClosed \subseteq Project /\ cancelled \subseteq Job
    BY DEF Init
  <2>5. /\ quiescer \in {"free", "pausing", "awaiting", "quiet", "draining",
                         "drainWaiting", "drainPausing", "drained", "timedOut"}
        /\ closer \in {"open", "awaitSenders", "awaitWorkers", "done"}
    BY DEF Init
  <2>6. QED
    BY <1>1, <1>3, <2>0, <2>1, <2>2, <2>3, <2>4, <2>5 DEF TypeOK
<1>5. QED
  BY <1>2, <1>4 DEF Typed

LEMMA TypedStep == Typed /\ [Next]_vars => Typed'
<1> SUFFICES ASSUME Typed, [Next]_vars PROVE Typed'
  OBVIOUS
<1> USE QueueAssumption DEF Typed, TypeOK, WorkerHolds, Busy, Outstanding, WorkerPcs,
        Errs, queueVars, workerVars, jobVars, Goto, QuiescerGoto, quiet
<1>1. ASSUME NEW j \in Job, Enqueue(j) PROVE Typed'
  <2>1. CASE EnqueueRefused(j)
    BY <2>1 DEF EnqueueRefused
  <2>2. CASE EnqueueAccepted(j)
    <3>1. ProjectOf[j] \in Project /\ Returned(j) \in SUBSET Job
      BY DEF Returned
    <3>2. before' \in [Job -> SUBSET Job]
      BY <2>2, <3>1 DEF EnqueueAccepted
    <3>3. workerPc' \in [Project -> WorkerPcs] /\ WorkerHolds'
      BY <2>2, <3>1 DEF EnqueueAccepted
    <3>4. QED
      BY <2>2, <3>1, <3>2, <3>3 DEF EnqueueAccepted
  <2>3. QED
    BY <1>1, <2>1, <2>2 DEF Enqueue
<1>2. ASSUME NEW j \in Job, Send(j) PROVE Typed'
  BY <1>2 DEF Send
<1>3. ASSUME NEW j \in Job, Cancel(j) PROVE Typed'
  BY <1>3 DEF Cancel
<1>4. ASSUME NEW p \in Project, Worker(p) PROVE Typed'
  <2>1. CASE Receive(p)
    BY <2>1 DEF Receive
  <2>2. CASE Exit(p)
    BY <2>2 DEF Exit
  <2>10. CASE WaitUnpaused(p)
    BY <2>10 DEF WaitUnpaused
  <2>3. CASE CheckCtx(p)
    BY <2>3 DEF CheckCtx
  <2>4. CASE MarkBusy(p)
    BY <2>4 DEF MarkBusy
  <2>5. CASE Execute(p)
    <3>1. workerJob[p] \in Job
      BY <2>5 DEF Execute
    <3>2. log' \in Seq(Job) /\ workerErr' \in [Project -> Errs]
      BY <2>5, <3>1 DEF Execute
    <3>3. QED
      BY <2>5, <3>2 DEF Execute
  <2>6. CASE MarkIdle(p)
    BY <2>6 DEF MarkIdle
  <2>7. CASE Answer(p)
    BY <2>7 DEF Answer
  <2>8. CASE Retire(p)
    BY <2>8 DEF Retire
  <2>9. QED
    BY <1>4, <2>1, <2>2, <2>3, <2>4, <2>5, <2>6, <2>7, <2>8, <2>10 DEF Worker
<1>5. CASE Quiescer
  BY <1>5 DEF Quiescer, Waiting, Pause, AwaitIdle, AwaitIdleExpired, DrainResume,
              DrainPoll, DrainTick, DrainPause, DrainExpired, Resume
<1>6. CASE Closer
  BY <1>6 DEF Closer, CloseBegin, CloseChannels, CloseDone
<1>7. CASE UNCHANGED vars
  BY <1>7 DEF vars
<1>8. QED
  BY <1>1, <1>2, <1>3, <1>4, <1>5, <1>6, <1>7 DEF Next

\* The queue's variables always have their types, and a worker goroutine holds
\* a job exactly while it is inside processJob.
THEOREM QueueTypeOK == Spec => [](TypeOK /\ WorkerHolds)
<1>1. Spec => []Typed
  BY TypedInit, TypedStep, PTL DEF Spec
<1>2. QED
  BY <1>1 DEF Typed

-----------------------------------------------------------------------------
(* Where a job is: its stage says in which channel or worker to find it.    *)

ChannelHoldsQueued ==
    \A p \in Project : \A n \in 1..Len(channel[p]) :
        ProjectOf[channel[p][n]] = p /\ stage[channel[p][n]] = "queued"
ChannelDistinct ==
    \A p \in Project : \A m, n \in 1..Len(channel[p]) :
        channel[p][m] = channel[p][n] => m = n
QueuedInChannel ==
    \A j \in Job : stage[j] = "queued" =>
        \E n \in 1..Len(channel[ProjectOf[j]]) : channel[ProjectOf[j]][n] = j
WorkerHoldsRunning ==
    \A p \in Project : workerJob[p] # NoJob =>
        ProjectOf[workerJob[p]] = p /\ stage[workerJob[p]] = "running"
RunningInWorker ==
    \A j \in Job : stage[j] = "running" => workerJob[ProjectOf[j]] = j

Placed == /\ ChannelHoldsQueued /\ ChannelDistinct /\ QueuedInChannel
          /\ WorkerHoldsRunning /\ RunningInWorker

\* Only these steps move a job.
Moves == \/ \E j \in Job : EnqueueRefused(j) \/ EnqueueAccepted(j) \/ Send(j)
         \/ \E p \in Project : Receive(p) \/ Retire(p)

LEMMA OtherStepsMoveNothing ==
    [Next]_vars => Moves \/ UNCHANGED <<channel, stage, workerJob, before>>
BY DEF Moves, Next, vars, Enqueue, Worker, Quiescer, Waiting, Closer, queueVars, workerVars,
       jobVars, quiet, Cancel, Exit, WaitUnpaused, CheckCtx, MarkBusy, Execute, MarkIdle,
       Answer, Pause, AwaitIdle, AwaitIdleExpired, DrainResume, DrainPoll, DrainTick,
       DrainPause, DrainExpired, Resume, CloseBegin, CloseChannels, CloseDone

LEMMA PlacedInit == Init => Placed
BY QueueAssumption DEF Init, Placed, ChannelHoldsQueued, ChannelDistinct, QueuedInChannel,
   WorkerHoldsRunning, RunningInWorker

LEMMA PlacedStep == Typed /\ Placed /\ [Next]_vars => Placed'
<1> SUFFICES ASSUME Typed, Placed, [Next]_vars PROVE Placed'
  OBVIOUS
<1> USE QueueAssumption DEF Typed, TypeOK, Outstanding, queueVars, workerVars, jobVars, Goto
<1>0. \A p \in Project : /\ Len(channel[p]) \in Nat
                        /\ \A n \in 1..Len(channel[p]) : channel[p][n] \in Job
  OBVIOUS
<1>1. ASSUME NEW j \in Job, EnqueueRefused(j) \/ EnqueueAccepted(j) PROVE Placed'
  <2>1. /\ stage[j] = "new" /\ stage'[j] \in {"refused", "sending"}
        /\ \A i \in Job : i # j => stage'[i] = stage[i]
        /\ UNCHANGED <<channel, workerJob>>
    BY <1>1 DEF EnqueueRefused, EnqueueAccepted
  <2>2. ChannelHoldsQueued' /\ ChannelDistinct'
    BY <1>0, <2>1 DEF Placed, ChannelHoldsQueued, ChannelDistinct
  <2>3. QueuedInChannel'
    BY <2>1 DEF Placed, QueuedInChannel
  <2>4. WorkerHoldsRunning' /\ RunningInWorker'
    BY <2>1 DEF Placed, WorkerHoldsRunning, RunningInWorker
  <2>5. QED
    BY <2>2, <2>3, <2>4 DEF Placed
<1>2. ASSUME NEW j \in Job, Send(j) PROVE Placed'
  <2> DEFINE q == ProjectOf[j]
  <2>1. /\ stage[j] = "sending" /\ stage'[j] = "queued"
        /\ \A i \in Job : i # j => stage'[i] = stage[i]
        /\ channel' = [channel EXCEPT ![q] = Append(channel[q], j)]
        /\ UNCHANGED workerJob
    BY <1>2 DEF Send
  <2>2. /\ Len(channel'[q]) = Len(channel[q]) + 1
        /\ \A n \in 1..Len(channel[q]) : channel'[q][n] = channel[q][n]
        /\ channel'[q][Len(channel[q]) + 1] = j
        /\ \A p \in Project : p # q => channel'[p] = channel[p]
        /\ q \in Project
    BY <2>1, AppendProperties
  <2>3. \A p \in Project : \A n \in 1..Len(channel[p]) : channel[p][n] # j
    BY <2>1 DEF Placed, ChannelHoldsQueued
  <2>4. \A p \in Project : \A n \in 1..Len(channel'[p]) :
          \/ n \in 1..Len(channel[p]) /\ channel'[p][n] = channel[p][n]
          \/ p = q /\ n = Len(channel[q]) + 1 /\ channel'[p][n] = j
    BY <1>0, <2>2
  <2>5. ChannelHoldsQueued'
    BY <1>0, <2>1, <2>3, <2>4 DEF Placed, ChannelHoldsQueued
  <2>6. ChannelDistinct'
    <3> SUFFICES ASSUME NEW p \in Project, NEW m \in 1..Len(channel'[p]),
                        NEW n \in 1..Len(channel'[p]), channel'[p][m] = channel'[p][n]
                 PROVE  m = n
      BY DEF ChannelDistinct
    <3>1. ASSUME NEW k \in 1..Len(channel'[p])
          PROVE  \/ k \in 1..Len(channel[p]) /\ channel'[p][k] = channel[p][k]
                                            /\ channel'[p][k] # j
                 \/ k = Len(channel[q]) + 1 /\ channel'[p][k] = j
      BY <2>3, <2>4
    <3>2. CASE channel'[p][m] = j
      BY <3>1, <3>2
    <3>3. CASE channel'[p][m] # j
      <4>1. /\ m \in 1..Len(channel[p]) /\ n \in 1..Len(channel[p])
            /\ channel[p][m] = channel[p][n]
        BY <3>1, <3>3
      <4>2. QED
        BY <4>1 DEF Placed, ChannelDistinct
    <3>4. QED
      BY <3>2, <3>3
  <2>7. QueuedInChannel'
    <3> SUFFICES ASSUME NEW i \in Job, stage'[i] = "queued"
                 PROVE  \E n \in 1..Len(channel'[ProjectOf[i]]) : channel'[ProjectOf[i]][n] = i
      BY DEF QueuedInChannel
    <3>1. CASE i = j
      BY <1>0, <2>2, <3>1
    <3>2. CASE i # j
      <4>1. PICK n \in 1..Len(channel[ProjectOf[i]]) : channel[ProjectOf[i]][n] = i
        BY <2>1, <3>2 DEF Placed, QueuedInChannel
      <4>2. n \in 1..Len(channel'[ProjectOf[i]]) /\ channel'[ProjectOf[i]][n] = i
        <5>1. CASE ProjectOf[i] = q
          <6>1. n \in 1..Len(channel[q])
            BY <4>1, <5>1
          <6>2. n \in 1..Len(channel'[q]) /\ channel'[q][n] = channel[q][n]
            BY <1>0, <2>2, <6>1
          <6>3. QED
            BY <4>1, <5>1, <6>2
        <5>2. CASE ProjectOf[i] # q
          BY <2>2, <4>1, <5>2
        <5>3. QED
          BY <5>1, <5>2
      <4>3. QED
        BY <4>2
    <3>3. QED
      BY <3>1, <3>2
  <2>8. WorkerHoldsRunning' /\ RunningInWorker'
    BY <2>1 DEF Placed, WorkerHoldsRunning, RunningInWorker
  <2>9. QED
    BY <2>5, <2>6, <2>7, <2>8 DEF Placed
<1>3. ASSUME NEW p \in Project, Receive(p) PROVE Placed'
  <2> DEFINE j == Head(channel[p])
  <2>1. /\ channel[p] # <<>> /\ workerJob[p] = NoJob
        /\ workerJob' = [workerJob EXCEPT ![p] = j]
        /\ channel' = [channel EXCEPT ![p] = Tail(channel[p])]
        /\ stage' = [stage EXCEPT ![j] = "running"]
    BY <1>3 DEF Receive, WorkerHolds, Busy
  <2>2. /\ Len(channel'[p]) = Len(channel[p]) - 1 /\ Len(channel[p]) \in Nat \ {0}
        /\ \A n \in 1..Len(channel'[p]) : channel'[p][n] = channel[p][n + 1]
        /\ j = channel[p][1] /\ j \in Job
        /\ \A q \in Project : q # p => channel'[q] = channel[q]
    BY <2>1, HeadTailProperties, EmptySeq
  <2>3. /\ ProjectOf[j] = p /\ stage[j] = "queued" /\ stage'[j] = "running"
        /\ \A i \in Job : i # j => stage'[i] = stage[i]
    <3>1. 1 \in 1..Len(channel[p])
      BY <2>2
    <3>2. ProjectOf[j] = p /\ stage[j] = "queued"
      BY <2>2, <3>1 DEF Placed, ChannelHoldsQueued
    <3>3. QED
      BY <2>1, <2>2, <3>2
  <2>4. \A n \in 1..Len(channel'[p]) : n + 1 \in 1..Len(channel[p]) /\ channel[p][n + 1] # j
    <3> TAKE n \in 1..Len(channel'[p])
    <3>1. n + 1 \in 1..Len(channel[p]) /\ 1 \in 1..Len(channel[p]) /\ n + 1 # 1
      BY <2>2
    <3>2. QED
      BY <2>2, <3>1 DEF Placed, ChannelDistinct
  <2>5. ChannelHoldsQueued'
    <3> SUFFICES ASSUME NEW q \in Project, NEW n \in 1..Len(channel'[q])
                 PROVE  ProjectOf[channel'[q][n]] = q /\ stage'[channel'[q][n]] = "queued"
      BY DEF ChannelHoldsQueued
    <3>1. CASE q = p
      <4>1. /\ n + 1 \in 1..Len(channel[p]) /\ channel[p][n + 1] # j
            /\ channel'[q][n] = channel[p][n + 1]
        BY <2>2, <2>4, <3>1
      <4>2. /\ channel[p][n + 1] \in Job /\ ProjectOf[channel[p][n + 1]] = p
            /\ stage[channel[p][n + 1]] = "queued"
        BY <1>0, <4>1 DEF Placed, ChannelHoldsQueued
      <4>3. QED
        BY <2>3, <3>1, <4>1, <4>2
    <3>2. CASE q # p
      BY <1>0, <2>2, <2>3, <3>2 DEF Placed, ChannelHoldsQueued
    <3>3. QED
      BY <3>1, <3>2
  <2>6. ChannelDistinct'
    <3> SUFFICES ASSUME NEW q \in Project, NEW m \in 1..Len(channel'[q]),
                        NEW n \in 1..Len(channel'[q]), channel'[q][m] = channel'[q][n]
                 PROVE  m = n
      BY DEF ChannelDistinct
    <3>1. CASE q = p
      <4>1. channel[p][m + 1] = channel[p][n + 1]
        BY <2>2, <3>1
      <4>2. m + 1 = n + 1
        BY <2>4, <3>1, <4>1 DEF Placed, ChannelDistinct
      <4>3. QED
        BY <2>2, <3>1, <4>2
    <3>2. CASE q # p
      BY <2>2, <3>2 DEF Placed, ChannelDistinct
    <3>3. QED
      BY <3>1, <3>2
  <2>7. QueuedInChannel'
    <3> SUFFICES ASSUME NEW i \in Job, stage'[i] = "queued"
                 PROVE  \E n \in 1..Len(channel'[ProjectOf[i]]) : channel'[ProjectOf[i]][n] = i
      BY DEF QueuedInChannel
    <3>1. i # j /\ stage[i] = "queued"
      BY <2>3
    <3>2. PICK n \in 1..Len(channel[ProjectOf[i]]) : channel[ProjectOf[i]][n] = i
      BY <3>1 DEF Placed, QueuedInChannel
    <3>3. CASE ProjectOf[i] = p
      <4>1. n # 1 /\ n - 1 \in 1..Len(channel'[p]) /\ (n - 1) + 1 = n
        BY <2>2, <3>1, <3>2, <3>3
      <4>2. channel'[p][n - 1] = i
        BY <2>2, <3>2, <3>3, <4>1
      <4>3. QED
        BY <3>3, <4>1, <4>2
    <3>4. CASE ProjectOf[i] # p
      BY <2>2, <3>2, <3>4
    <3>5. QED
      BY <3>3, <3>4
  <2>8. WorkerHoldsRunning'
    BY <2>1, <2>2, <2>3 DEF Placed, WorkerHoldsRunning
  <2>9. RunningInWorker'
    BY <2>1, <2>2, <2>3 DEF Placed, RunningInWorker
  <2>10. QED
    BY <2>5, <2>6, <2>7, <2>8, <2>9 DEF Placed
<1>4. ASSUME NEW p \in Project, Retire(p) PROVE Placed'
  <2> DEFINE j == workerJob[p]
  <2>1. /\ j \in Job /\ workerJob' = [workerJob EXCEPT ![p] = NoJob]
        /\ stage'[j] = "retired" /\ \A i \in Job : i # j => stage'[i] = stage[i]
        /\ UNCHANGED channel
    BY <1>4 DEF Retire, WorkerHolds, Busy
  <2>2. stage[j] = "running" /\ ProjectOf[j] = p
    BY <2>1 DEF Placed, WorkerHoldsRunning
  <2>3. ChannelHoldsQueued' /\ ChannelDistinct'
    BY <1>0, <2>1, <2>2 DEF Placed, ChannelHoldsQueued, ChannelDistinct
  <2>4. QueuedInChannel'
    BY <2>1 DEF Placed, QueuedInChannel
  <2>5. WorkerHoldsRunning'
    BY <2>1, <2>2 DEF Placed, WorkerHoldsRunning
  <2>6. RunningInWorker'
    BY <2>1, <2>2 DEF Placed, RunningInWorker
  <2>7. QED
    BY <2>3, <2>4, <2>5, <2>6 DEF Placed
<1>5. CASE UNCHANGED <<channel, stage, workerJob, before>>
  BY <1>5 DEF Placed, ChannelHoldsQueued, ChannelDistinct, QueuedInChannel,
              WorkerHoldsRunning, RunningInWorker
<1>6. QED
  BY <1>1, <1>2, <1>3, <1>4, <1>5, OtherStepsMoveNothing DEF Moves

-----------------------------------------------------------------------------
(* The counters.                                                            *)

OutstandingJobs == {j \in Job : stage[j] \in Outstanding}
SendingJobs == {j \in Job : stage[j] = "sending"}
CommittingWorkers == {p \in Project : workerPc[p] \in {"execute", "markIdle"}}

LEMMA AccountingSets ==
    /\ IsFiniteSet(OutstandingJobs) /\ IsFiniteSet(SendingJobs)
    /\ IsFiniteSet(CommittingWorkers)
<1>1. OutstandingJobs \in SUBSET Job /\ SendingJobs \in SUBSET Job
      /\ CommittingWorkers \in SUBSET Project
  BY DEF OutstandingJobs, SendingJobs, CommittingWorkers
<1>2. QED
  BY <1>1, FS_Subset, QueueAssumption

LEMMA AccountingInit == Init => Accounting
<1> SUFFICES ASSUME Init PROVE Accounting
  OBVIOUS
<1>1. OutstandingJobs = {} /\ SendingJobs = {} /\ CommittingWorkers = {}
  BY DEF Init, OutstandingJobs, SendingJobs, CommittingWorkers, Outstanding
<1>2. QED
  BY <1>1, FS_EmptySet DEF Init, Accounting, OutstandingJobs, SendingJobs, CommittingWorkers

LEMMA AccountingStep == Typed /\ Placed /\ Accounting /\ [Next]_vars => Accounting'
<1> SUFFICES ASSUME Typed, Placed, Accounting, [Next]_vars PROVE Accounting'
  OBVIOUS
<1> DEFINE O == OutstandingJobs
           S == SendingJobs
           C == CommittingWorkers
<1>a. /\ pending = Cardinality(O) /\ sending = Cardinality(S) /\ inflight = Cardinality(C)
      /\ IsFiniteSet(O) /\ IsFiniteSet(S) /\ IsFiniteSet(C)
      /\ Cardinality(O) \in Nat /\ Cardinality(S) \in Nat /\ Cardinality(C) \in Nat
  BY AccountingSets, FS_CardinalityType
     DEF Accounting, OutstandingJobs, SendingJobs, CommittingWorkers
<1>b. Accounting' <=> /\ pending' = Cardinality(O') /\ sending' = Cardinality(S')
                      /\ inflight' = Cardinality(C')
  BY DEF Accounting, OutstandingJobs, SendingJobs, CommittingWorkers
<1> HIDE DEF O, S, C
<1> USE QueueAssumption DEF Typed, TypeOK, queueVars, workerVars, jobVars, Goto
<1>0. CASE UNCHANGED <<pending, sending, inflight>> /\ O' = O /\ S' = S /\ C' = C
  BY <1>a, <1>b, <1>0
<1>1. ASSUME NEW j \in Job, EnqueueRefused(j) PROVE Accounting'
  BY <1>0, <1>1 DEF EnqueueRefused, O, S, C, OutstandingJobs, SendingJobs,
                    CommittingWorkers, Outstanding
<1>2. ASSUME NEW j \in Job, EnqueueAccepted(j) PROVE Accounting'
  <2>1. O' = O \cup {j} /\ S' = S \cup {j} /\ j \notin O /\ j \notin S
    BY <1>2 DEF EnqueueAccepted, O, S, OutstandingJobs, SendingJobs, Outstanding
  <2>2. C' = C
    BY <1>2 DEF EnqueueAccepted, C, CommittingWorkers
  <2>3. pending' = pending + 1 /\ sending' = sending + 1 /\ inflight' = inflight
    BY <1>2 DEF EnqueueAccepted
  <2>4. QED
    BY <1>a, <1>b, <2>1, <2>2, <2>3, FS_AddElement
<1>3. ASSUME NEW j \in Job, Send(j) PROVE Accounting'
  <2>1. O' = O /\ S' = S \ {j} /\ j \in S
    BY <1>3 DEF Send, O, S, OutstandingJobs, SendingJobs, Outstanding
  <2>2. C' = C
    BY <1>3 DEF Send, C, CommittingWorkers
  <2>3. pending' = pending /\ sending' = sending - 1 /\ inflight' = inflight
    BY <1>3 DEF Send
  <2>4. QED
    BY <1>a, <1>b, <2>1, <2>2, <2>3, FS_RemoveElement
<1>4. ASSUME NEW p \in Project, Receive(p) PROVE Accounting'
  <2>1. stage[Head(channel[p])] = "queued" /\ Head(channel[p]) \in Job
    <3>1. channel[p] # <<>> /\ channel[p] \in Seq(Job)
      BY <1>4 DEF Receive
    <3>2. 1 \in 1..Len(channel[p]) /\ Head(channel[p]) = channel[p][1]
      BY <3>1, EmptySeq
    <3>3. QED
      BY <3>1, <3>2, HeadTailProperties DEF Placed, ChannelHoldsQueued
  <2>2. O' = O /\ S' = S
    BY <1>4, <2>1 DEF Receive, O, S, OutstandingJobs, SendingJobs, Outstanding
  <2>3. C' = C /\ UNCHANGED <<pending, sending, inflight>>
    BY <1>4 DEF Receive, C, CommittingWorkers, WorkerPcs
  <2>4. QED
    BY <1>0, <2>2, <2>3
<1>5. ASSUME NEW p \in Project, MarkBusy(p) PROVE Accounting'
  <2>1. O' = O /\ S' = S
    BY <1>5 DEF MarkBusy, O, S, OutstandingJobs, SendingJobs
  <2>2. C' = C \cup {p} /\ p \notin C
    BY <1>5 DEF MarkBusy, C, CommittingWorkers, WorkerPcs
  <2>3. pending' = pending /\ sending' = sending /\ inflight' = inflight + 1
    BY <1>5 DEF MarkBusy
  <2>4. QED
    BY <1>a, <1>b, <2>1, <2>2, <2>3, FS_AddElement
<1>6. ASSUME NEW p \in Project, MarkIdle(p) PROVE Accounting'
  <2>1. O' = O /\ S' = S
    BY <1>6 DEF MarkIdle, O, S, OutstandingJobs, SendingJobs
  <2>2. C' = C \ {p} /\ p \in C
    BY <1>6 DEF MarkIdle, C, CommittingWorkers, WorkerPcs
  <2>3. pending' = pending /\ sending' = sending /\ inflight' = inflight - 1
    BY <1>6 DEF MarkIdle
  <2>4. QED
    BY <1>a, <1>b, <2>1, <2>2, <2>3, FS_RemoveElement
<1>7. ASSUME NEW p \in Project, Retire(p) PROVE Accounting'
  <2>1. workerJob[p] \in Job /\ stage[workerJob[p]] = "running"
    BY <1>7 DEF Retire, WorkerHolds, Busy, Placed, WorkerHoldsRunning
  <2>0. PICK j \in Job : j = workerJob[p]
    BY <2>1
  <2>2. O' = O \ {j} /\ j \in O /\ S' = S
    BY <1>7, <2>0, <2>1 DEF Retire, O, S, OutstandingJobs, SendingJobs, Outstanding
  <2>3. C' = C
    BY <1>7 DEF Retire, C, CommittingWorkers, WorkerPcs
  <2>4. pending' = pending - 1 /\ sending' = sending /\ inflight' = inflight
    BY <1>7 DEF Retire
  <2>5. QED
    BY <1>a, <1>b, <2>2, <2>3, <2>4, FS_RemoveElement
<1>8. ASSUME NEW p \in Project,
             Exit(p) \/ WaitUnpaused(p) \/ CheckCtx(p) \/ Execute(p) \/ Answer(p)
      PROVE  Accounting'
  <2>1. UNCHANGED <<pending, sending, inflight, stage>>
    BY <1>8 DEF Exit, WaitUnpaused, CheckCtx, Execute, Answer
  <2>2. C' = C
    BY <1>8 DEF Exit, WaitUnpaused, CheckCtx, Execute, Answer, C, CommittingWorkers, WorkerPcs
  <2>3. O' = O /\ S' = S
    BY <2>1 DEF O, S, OutstandingJobs, SendingJobs
  <2>4. QED
    BY <1>0, <2>1, <2>2, <2>3
<1>9. CASE (\E j \in Job : Cancel(j)) \/ Quiescer \/ Closer \/ UNCHANGED vars
  <2>1. UNCHANGED <<pending, sending, inflight, stage, workerPc>>
    BY <1>9 DEF Cancel, Quiescer, Waiting, Closer, quiet, Pause, AwaitIdle,
       AwaitIdleExpired, DrainResume, DrainPoll, DrainTick, DrainPause, DrainExpired,
       Resume, CloseBegin, CloseChannels, CloseDone, vars
  <2>2. O' = O /\ S' = S /\ C' = C
    BY <2>1 DEF O, S, C, OutstandingJobs, SendingJobs, CommittingWorkers
  <2>3. QED
    BY <1>0, <2>1, <2>2
<1>10. QED
  BY <1>1, <1>2, <1>3, <1>4, <1>5, <1>6, <1>7, <1>8, <1>9 DEF Next, Enqueue, Worker

\* The hand-kept counters of the queue always equal what they count, so Drain's
\* pending = 0, AwaitIdle's inflight = 0 and Close's wait for the senders mean
\* what the code takes them to mean.
THEOREM QueueAccounting == Spec => []Accounting
<1>1. Init => Typed /\ Placed /\ Accounting
  BY TypedInit, PlacedInit, AccountingInit
<1>2. (Typed /\ Placed /\ Accounting) /\ [Next]_vars => (Typed /\ Placed /\ Accounting)'
  BY TypedStep, PlacedStep, AccountingStep
<1>3. QED
  BY <1>1, <1>2, PTL DEF Spec

-----------------------------------------------------------------------------
(* Answers: a job has one exactly from the worker's Answer step on.         *)

Answered ==
    /\ \A j \in Job : stage[j] \in {"new", "sending", "queued"} => outcome[j] = "none"
    /\ \A j \in Job : stage[j] \in {"refused", "retired"} => outcome[j] # "none"
    /\ \A p \in Project :
         workerPc[p] \in Busy => (outcome[workerJob[p]] = "none" <=> workerPc[p] # "retire")

LEMMA AnsweredInit == Init => Answered
BY DEF Init, Answered, Busy

LEMMA AnsweredStep == Typed /\ Placed /\ Answered /\ [Next]_vars => Answered'
<1> SUFFICES ASSUME Typed, Placed, Answered, [Next]_vars PROVE Answered'
  OBVIOUS
<1> USE QueueAssumption DEF Typed, TypeOK, WorkerHolds, Outstanding, Errs, queueVars, workerVars,
        jobVars, Goto
<1>0. \A p \in Project : workerPc[p] \in Busy =>
        /\ workerJob[p] \in Job /\ stage[workerJob[p]] = "running"
        /\ ProjectOf[workerJob[p]] = p
  BY DEF Placed, WorkerHoldsRunning
<1>1. ASSUME NEW j \in Job, EnqueueRefused(j) PROVE Answered'
  BY <1>0, <1>1 DEF EnqueueRefused, Answered
<1>2. ASSUME NEW j \in Job, EnqueueAccepted(j) PROVE Answered'
  <2>1. /\ stage[j] = "new" /\ stage' = [stage EXCEPT ![j] = "sending"]
        /\ UNCHANGED <<outcome, workerJob>>
        /\ \A p \in Project : workerPc'[p] \in Busy => workerPc'[p] = workerPc[p]
    BY <1>2 DEF EnqueueAccepted, Busy
  <2>2. QED
    BY <2>1 DEF Answered
<1>3. ASSUME NEW j \in Job, Send(j) PROVE Answered'
  BY <1>0, <1>3 DEF Send, Answered
<1>4. ASSUME NEW p \in Project, Receive(p) PROVE Answered'
  <2> DEFINE j == Head(channel[p])
  <2>1. /\ channel[p] # <<>> /\ channel[p] \in Seq(Job)
        /\ workerPc' = [workerPc EXCEPT ![p] = "waitUnpaused"]
        /\ workerJob' = [workerJob EXCEPT ![p] = j] /\ stage' = [stage EXCEPT ![j] = "running"]
        /\ UNCHANGED outcome
    BY <1>4 DEF Receive
  <2>2. j \in Job /\ stage[j] = "queued"
    <3>1. 1 \in 1..Len(channel[p]) /\ j = channel[p][1]
      BY <2>1, EmptySeq
    <3>2. QED
      BY <2>1, <3>1, HeadTailProperties DEF Placed, ChannelHoldsQueued
  <2>3. outcome[j] = "none"
    BY <2>2 DEF Answered
  <2>4. QED
    BY <2>1, <2>2, <2>3 DEF Answered, Busy
<1>5. ASSUME NEW p \in Project, Answer(p) PROVE Answered'
  <2>1. /\ workerPc[p] = "answer" /\ workerJob[p] \in Job
        /\ workerPc' = [workerPc EXCEPT ![p] = "retire"]
        /\ outcome' = [outcome EXCEPT ![workerJob[p]] = workerErr[p]]
        /\ workerErr[p] # "none" /\ UNCHANGED <<stage, workerJob>>
    BY <1>0, <1>5 DEF Answer, Busy
  <2>2. \A q \in Project : workerPc[q] \in Busy /\ q # p => workerJob[q] # workerJob[p]
    BY <1>0, <2>1 DEF Busy
  <2>3. QED
    BY <1>0, <2>1, <2>2 DEF Answered, Busy
<1>6. ASSUME NEW p \in Project, Retire(p) PROVE Answered'
  <2>1. /\ workerPc[p] = "retire" /\ workerJob[p] \in Job /\ outcome[workerJob[p]] # "none"
        /\ workerPc' = [workerPc EXCEPT ![p] = "receive"]
        /\ workerJob' = [workerJob EXCEPT ![p] = NoJob]
        /\ stage' = [stage EXCEPT ![workerJob[p]] = "retired"] /\ UNCHANGED outcome
    BY <1>0, <1>6 DEF Retire, Busy, Answered
  <2>2. QED
    BY <2>1 DEF Answered, Busy
<1>7. ASSUME NEW p \in Project,
             Exit(p) \/ WaitUnpaused(p) \/ CheckCtx(p) \/ MarkBusy(p) \/ Execute(p) \/ MarkIdle(p)
      PROVE  Answered'
  <2>1. /\ UNCHANGED <<stage, outcome, workerJob>>
        /\ \A q \in Project : q # p => workerPc'[q] = workerPc[q]
        /\ workerPc'[p] \in Busy => workerPc[p] \in Busy \ {"retire"} /\ workerPc'[p] # "retire"
    BY <1>7 DEF Exit, WaitUnpaused, CheckCtx, MarkBusy, Execute, MarkIdle, Busy
  <2>2. QED
    BY <2>1 DEF Answered
<1>8. CASE (\E j \in Job : Cancel(j)) \/ Quiescer \/ Closer \/ UNCHANGED vars
  <2>1. UNCHANGED <<stage, outcome, workerJob, workerPc>>
    BY <1>8 DEF Cancel, Quiescer, Waiting, Closer, quiet, Pause, AwaitIdle,
       AwaitIdleExpired, DrainResume, DrainPoll, DrainTick, DrainPause, DrainExpired,
       Resume, CloseBegin, CloseChannels, CloseDone, vars
  <2>2. QED
    BY <2>1 DEF Answered
<1>9. QED
  BY <1>1, <1>2, <1>3, <1>4, <1>5, <1>6, <1>7, <1>8 DEF Next, Enqueue, Worker

-----------------------------------------------------------------------------
(* Enqueue order.  Two jobs of which one's Enqueue returned before the      *)
(* other's began are in the channel in that order for as long as both are.  *)

Behind(j, i) ==
    \A m, n \in 1..Len(channel[ProjectOf[j]]) :
        channel[ProjectOf[j]][m] = i /\ channel[ProjectOf[j]][n] = j => m < n

OrderedPair(j, i) ==
    /\ ProjectOf[i] = ProjectOf[j]
    /\ stage[i] \in {"queued", "running", "retired"}
    /\ stage[j] \in Outstanding \cup {"retired"}
    /\ Behind(j, i)
    /\ Started(j) => outcome[i] # "none"

Ordered == \A j \in Job : \A i \in before[j] : OrderedPair(j, i)

LEMMA OrderedInit == Init => Ordered
BY DEF Init, Ordered

LEMMA OrderedStep ==
    Typed /\ Placed /\ Answered /\ Ordered /\ [Next]_vars => Ordered'
<1> SUFFICES ASSUME Typed, Placed, Answered, Ordered, [Next]_vars,
                    NEW j \in Job, NEW i \in before'[j]
             PROVE  OrderedPair(j, i)'
  BY DEF Ordered
<1> USE QueueAssumption DEF Typed, TypeOK, WorkerHolds, Outstanding, queueVars, workerVars,
        jobVars, Goto, Started
<1>a. \A p \in Project : /\ Len(channel[p]) \in Nat
                        /\ \A n \in 1..Len(channel[p]) : stage[channel[p][n]] = "queued"
  BY DEF Placed, ChannelHoldsQueued
<1>1. ASSUME NEW k \in Job, EnqueueRefused(k) PROVE OrderedPair(j, i)'
  <2>1. OrderedPair(j, i) /\ stage[k] = "new" /\ UNCHANGED channel
        /\ stage' = [stage EXCEPT ![k] = "refused"]
        /\ outcome' = [outcome EXCEPT ![k] = "closed"] /\ i \in Job
    BY <1>1 DEF EnqueueRefused, Ordered
  <2>2. i # k /\ j # k
    BY <2>1 DEF OrderedPair
  <2>3. QED
    BY <2>1, <2>2 DEF OrderedPair, Behind
<1>2. ASSUME NEW k \in Job, EnqueueAccepted(k) PROVE OrderedPair(j, i)'
  <2>1. /\ stage[k] = "new" /\ stage' = [stage EXCEPT ![k] = "sending"]
        /\ before' = [before EXCEPT ![k] = Returned(k)] /\ UNCHANGED <<channel, outcome>>
    BY <1>2 DEF EnqueueAccepted
  <2>2. CASE j = k
    <3>1. i \in Returned(k)
      BY <2>1, <2>2
    <3>2. /\ i \in Job /\ i # k /\ ProjectOf[i] = ProjectOf[k]
          /\ stage[i] \in {"queued", "running", "retired"}
      BY <2>1, <3>1 DEF Returned
    <3>3. Behind(k, i)'
      BY <1>a, <2>1 DEF Behind
    <3>4. QED
      BY <2>1, <2>2, <3>2, <3>3 DEF OrderedPair
  <2>3. CASE j # k
    <3>1. OrderedPair(j, i) /\ i \in Job
      BY <2>1, <2>3 DEF Ordered
    <3>2. i # k
      BY <2>1, <3>1 DEF OrderedPair
    <3>3. QED
      BY <2>1, <2>3, <3>1, <3>2 DEF OrderedPair, Behind
  <2>4. QED
    BY <2>2, <2>3
<1>3. ASSUME NEW k \in Job, Send(k) PROVE OrderedPair(j, i)'
  <2> DEFINE q == ProjectOf[k]
  <2>1. /\ stage[k] = "sending" /\ stage' = [stage EXCEPT ![k] = "queued"]
        /\ channel' = [channel EXCEPT ![q] = Append(channel[q], k)]
        /\ UNCHANGED <<before, outcome>>
    BY <1>3 DEF Send
  <2>2. OrderedPair(j, i) /\ i \in Job
    BY <2>1 DEF Ordered
  <2>3. i # k
    BY <2>1, <2>2 DEF OrderedPair
  <2>4. /\ Len(channel'[q]) = Len(channel[q]) + 1
        /\ \A n \in 1..Len(channel[q]) : channel'[q][n] = channel[q][n]
        /\ channel'[q][Len(channel[q]) + 1] = k
        /\ \A p \in Project : p # q => channel'[p] = channel[p]
    BY <2>1, AppendProperties
  <2>5. Behind(j, i)'
    <3> DEFINE r == ProjectOf[j]
    <3> SUFFICES ASSUME NEW m \in 1..Len(channel'[r]), NEW n \in 1..Len(channel'[r]),
                        channel'[r][m] = i, channel'[r][n] = j
                 PROVE  m < n
      BY DEF Behind
    <3>1. CASE r = q
      <4>1. m \in 1..Len(channel[q]) /\ channel[q][m] = i
        BY <1>a, <2>3, <2>4, <3>1
      <4>2. CASE n \in 1..Len(channel[q])
        <5>1. channel[q][n] = j
          BY <2>4, <3>1, <4>2
        <5>2. QED
          BY <2>2, <3>1, <4>1, <4>2, <5>1 DEF OrderedPair, Behind
      <4>3. CASE n = Len(channel[q]) + 1
        BY <1>a, <4>1, <4>3
      <4>4. QED
        BY <1>a, <2>4, <3>1, <4>2, <4>3
    <3>2. CASE r # q
      BY <2>2, <2>4, <3>2 DEF OrderedPair, Behind
    <3>3. QED
      BY <3>1, <3>2
  <2>6. QED
    BY <2>1, <2>2, <2>3, <2>5 DEF OrderedPair
<1>4. ASSUME NEW p \in Project, Receive(p) PROVE OrderedPair(j, i)'
  <2> DEFINE h == Head(channel[p])
  <2>1. /\ channel[p] # <<>> /\ channel[p] \in Seq(Job) /\ workerJob[p] = NoJob
        /\ channel' = [channel EXCEPT ![p] = Tail(channel[p])]
        /\ stage' = [stage EXCEPT ![h] = "running"] /\ UNCHANGED <<before, outcome>>
    BY <1>4 DEF Receive, Busy
  <2>2. OrderedPair(j, i) /\ i \in Job
    BY <2>1 DEF Ordered
  <2>3. /\ Len(channel'[p]) = Len(channel[p]) - 1 /\ 1 \in 1..Len(channel[p])
        /\ \A n \in 1..Len(channel'[p]) : channel'[p][n] = channel[p][n + 1]
        /\ h = channel[p][1] /\ h \in Job
        /\ \A q \in Project : q # p => channel'[q] = channel[q]
    BY <2>1, HeadTailProperties, EmptySeq
  <2>4. ProjectOf[h] = p /\ stage[h] = "queued"
    BY <2>3 DEF Placed, ChannelHoldsQueued
  <2>5. Behind(j, i)'
    <3> DEFINE r == ProjectOf[j]
    <3> SUFFICES ASSUME NEW m \in 1..Len(channel'[r]), NEW n \in 1..Len(channel'[r]),
                        channel'[r][m] = i, channel'[r][n] = j
                 PROVE  m < n
      BY DEF Behind
    <3>1. CASE r = p
      <4>1. /\ m + 1 \in 1..Len(channel[p]) /\ channel[p][m + 1] = i
            /\ n + 1 \in 1..Len(channel[p]) /\ channel[p][n + 1] = j
        <5>1. m \in 1..Len(channel'[p]) /\ n \in 1..Len(channel'[p])
          BY <3>1
        <5>2. channel[p][m + 1] = channel'[p][m] /\ channel[p][n + 1] = channel'[p][n]
          BY <2>3, <5>1
        <5>3. m + 1 \in 1..Len(channel[p]) /\ n + 1 \in 1..Len(channel[p])
          BY <2>3, <5>1
        <5>4. QED
          BY <3>1, <5>2, <5>3
      <4>2. m + 1 < n + 1
        BY <2>2, <3>1, <4>1 DEF OrderedPair, Behind
      <4>3. QED
        BY <1>a, <2>3, <3>1, <4>2
    <3>2. CASE r # p
      BY <2>2, <2>3, <3>2 DEF OrderedPair, Behind
    <3>3. QED
      BY <3>1, <3>2
  <2>6. ASSUME j = h PROVE outcome[i] # "none"
    <3>1. ProjectOf[i] = p
      BY <2>2, <2>4, <2>6 DEF OrderedPair
    <3>2. stage[i] # "running"
      BY <2>1, <3>1 DEF Placed, RunningInWorker
    <3>3. stage[i] # "queued"
      <4> SUFFICES ASSUME stage[i] = "queued" PROVE FALSE
        OBVIOUS
      <4>1. PICK m \in 1..Len(channel[p]) : channel[p][m] = i
        BY <2>2, <3>1 DEF Placed, QueuedInChannel
      <4>2. m < 1
        BY <2>2, <2>3, <2>4, <2>6, <4>1 DEF OrderedPair, Behind
      <4>3. QED
        BY <4>2
    <3>4. QED
      BY <2>2, <3>2, <3>3 DEF OrderedPair, Answered
  <2>7. QED
    BY <2>1, <2>2, <2>3, <2>4, <2>5, <2>6 DEF OrderedPair
<1>5. ASSUME NEW p \in Project, Answer(p) PROVE OrderedPair(j, i)'
  <2>1. /\ outcome' = [outcome EXCEPT ![workerJob[p]] = workerErr[p]]
        /\ workerErr[p] # "none" /\ UNCHANGED <<stage, channel, before>>
    BY <1>5 DEF Answer, Errs
  <2>2. OrderedPair(j, i) /\ i \in Job
    BY <2>1 DEF Ordered
  <2>3. outcome[i] # "none" => outcome'[i] # "none"
    BY <2>1, <2>2
  <2>4. QED
    BY <2>1, <2>2, <2>3 DEF OrderedPair, Behind
<1>6. ASSUME NEW p \in Project, Retire(p) PROVE OrderedPair(j, i)'
  <2>1. /\ workerJob[p] \in Job /\ stage' = [stage EXCEPT ![workerJob[p]] = "retired"]
        /\ UNCHANGED <<outcome, channel, before>>
    BY <1>6 DEF Retire, Busy
  <2>2. OrderedPair(j, i) /\ i \in Job /\ stage[workerJob[p]] = "running"
    BY <2>1 DEF Ordered, Placed, WorkerHoldsRunning
  <2>3. QED
    BY <2>1, <2>2 DEF OrderedPair, Behind
<1>7. CASE UNCHANGED <<channel, stage, before, outcome>>
  BY <1>7 DEF Ordered, OrderedPair, Behind
<1>8. QED
  <2>1. \/ \E k \in Job : EnqueueRefused(k) \/ EnqueueAccepted(k) \/ Send(k)
        \/ \E p \in Project : Receive(p) \/ Answer(p) \/ Retire(p)
        \/ UNCHANGED <<channel, stage, before, outcome>>
    BY DEF Next, vars, Enqueue, Worker, Quiescer, Waiting, Closer, quiet, Cancel, Exit,
       WaitUnpaused, CheckCtx, MarkBusy, Execute, MarkIdle, Pause, AwaitIdle,
       AwaitIdleExpired, DrainResume, DrainPoll, DrainTick, DrainPause, DrainExpired, Resume,
       CloseBegin, CloseChannels, CloseDone
  <2>2. QED
    BY <1>1, <1>2, <1>3, <1>4, <1>5, <1>6, <1>7, <2>1

\* For a fixed project, commits execute in enqueue order, for any number of
\* projects, jobs, buffer slots, pauses, drains, cancellations and shutdowns.
THEOREM QueueEnqueueOrder == Spec => []EnqueueOrder
<1>1. Init => Typed /\ Placed /\ Answered /\ Ordered
  BY TypedInit, PlacedInit, AnsweredInit, OrderedInit
<1>2. (Typed /\ Placed /\ Answered /\ Ordered) /\ [Next]_vars
      => (Typed /\ Placed /\ Answered /\ Ordered)'
  BY TypedStep, PlacedStep, AnsweredStep, OrderedStep
<1>3. Ordered => EnqueueOrder
  BY DEF Ordered, OrderedPair, EnqueueOrder
<1>4. QED
  BY <1>1, <1>2, <1>3, PTL DEF Spec
=============================================================================
