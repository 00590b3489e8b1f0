------------------------ MODULE CommitServiceProofs ------------------------
(***************************************************************************)
(* Shutdown and truthful answers of CommitQueue, and from them and the     *)
(* invariants of CommitQueueProofs that the queue implements CommitService. *)
(***************************************************************************)
EXTENDS CommitQueueProofs

-----------------------------------------------------------------------------
(* Shutdown.  Once the channels are closed nobody is sending and nobody can *)
(* start to; a worker has left only when its closed channel was empty.      *)

CloserIsOnItsWay ==
    /\ closed <=> closer # "open"
    /\ closer \in {"open", "awaitSenders"} => chanClosed = {}
    /\ closer \in {"awaitWorkers", "done"} => \A j \in Job : stage[j] # "sending"
    /\ closer = "done" => \A p \in Project : workerPc[p] \in {"none", "exited"}

WorkersServe ==
    /\ \A j \in Job : stage[j] \in Outstanding => workerPc[ProjectOf[j]] # "none"
    /\ \A p \in Project : workerPc[p] = "exited" => p \in chanClosed /\ channel[p] = <<>>

Shutdown == CloserIsOnItsWay /\ WorkersServe

LEMMA ShutdownInit == Init => Shutdown
<1> SUFFICES ASSUME Init PROVE Shutdown
  OBVIOUS
<1>1. CloserIsOnItsWay
  BY DEF Init, CloserIsOnItsWay
<1>2. WorkersServe
  BY DEF Init, WorkersServe, Outstanding
<1>3. QED
  BY <1>1, <1>2 DEF Shutdown

LEMMA ShutdownStep ==
    Typed /\ Placed /\ Accounting /\ Shutdown /\ [Next]_vars => Shutdown'
<1> SUFFICES ASSUME Typed, Placed, Accounting, Shutdown, [Next]_vars PROVE Shutdown'
  OBVIOUS
<1> USE QueueAssumption DEF Typed, TypeOK, WorkerHolds, Outstanding, queueVars, workerVars,
        jobVars, Goto
<1>1. ASSUME NEW j \in Job, EnqueueRefused(j) PROVE Shutdown'
  BY <1>1 DEF EnqueueRefused, Shutdown, CloserIsOnItsWay, WorkersServe
<1>2. ASSUME NEW j \in Job, EnqueueAccepted(j) PROVE Shutdown'
  <2>1. closer = "open" /\ chanClosed = {}
    BY <1>2 DEF EnqueueAccepted, Shutdown, CloserIsOnItsWay
  <2>2. CloserIsOnItsWay'
    BY <1>2, <2>1 DEF EnqueueAccepted, Shutdown, CloserIsOnItsWay
  <2>3. WorkersServe'
    BY <1>2, <2>1 DEF EnqueueAccepted, Shutdown, WorkersServe
  <2>4. QED
    BY <2>2, <2>3 DEF Shutdown
<1>3. ASSUME NEW j \in Job, Send(j) PROVE Shutdown'
  <2>1. closer \notin {"awaitWorkers", "done"} /\ chanClosed = {}
    BY <1>3 DEF Send, Shutdown, CloserIsOnItsWay
  <2>2. CloserIsOnItsWay'
    BY <1>3, <2>1 DEF Send, Shutdown, CloserIsOnItsWay
  <2>3. WorkersServe'
    BY <1>3, <2>1 DEF Send, Shutdown, WorkersServe
  <2>4. QED
    BY <2>2, <2>3 DEF Shutdown
<1>4. ASSUME NEW p \in Project, Receive(p) PROVE Shutdown'
  <2> DEFINE h == Head(channel[p])
  <2>1. /\ workerPc[p] = "receive" /\ channel[p] # <<>> /\ channel[p] \in Seq(Job)
        /\ workerPc' = [workerPc EXCEPT ![p] = "waitUnpaused"]
        /\ channel' = [channel EXCEPT ![p] = Tail(channel[p])]
        /\ stage' = [stage EXCEPT ![h] = "running"]
        /\ UNCHANGED <<closed, closer, chanClosed>>
    BY <1>4 DEF Receive
  <2>2. h \in Job /\ ProjectOf[h] = p /\ stage[h] = "queued"
    <3>1. 1 \in 1..Len(channel[p]) /\ h = channel[p][1]
      BY <2>1, EmptySeq
    <3>2. QED
      BY <2>1, <3>1, HeadTailProperties DEF Placed, ChannelHoldsQueued
  <2>3. CloserIsOnItsWay'
    BY <2>1, <2>2 DEF Shutdown, CloserIsOnItsWay
  <2>4. WorkersServe'
    BY <2>1, <2>2 DEF Shutdown, WorkersServe
  <2>5. QED
    BY <2>3, <2>4 DEF Shutdown
<1>5. ASSUME NEW p \in Project, Exit(p) PROVE Shutdown'
  BY <1>5 DEF Exit, Shutdown, CloserIsOnItsWay, WorkersServe
<1>6. ASSUME NEW p \in Project,
             WaitUnpaused(p) \/ CheckCtx(p) \/ MarkBusy(p) \/ Execute(p)
             \/ MarkIdle(p) \/ Answer(p)
      PROVE  Shutdown'
  <2>1. /\ UNCHANGED <<closed, closer, chanClosed, stage, channel>>
        /\ workerPc[p] \notin {"none", "exited"} /\ workerPc'[p] \notin {"none", "exited"}
        /\ \A q \in Project : q # p => workerPc'[q] = workerPc[q]
    BY <1>6 DEF WaitUnpaused, CheckCtx, MarkBusy, Execute, MarkIdle, Answer
  <2>2. QED
    BY <2>1 DEF Shutdown, CloserIsOnItsWay, WorkersServe
<1>7. ASSUME NEW p \in Project, Retire(p) PROVE Shutdown'
  <2>1. /\ workerPc[p] = "retire" /\ workerJob[p] \in Job
        /\ workerPc' = [workerPc EXCEPT ![p] = "receive"]
        /\ stage' = [stage EXCEPT ![workerJob[p]] = "retired"]
        /\ UNCHANGED <<closed, closer, chanClosed, channel>>
    BY <1>7 DEF Retire, Busy
  <2>2. QED
    BY <2>1 DEF Shutdown, CloserIsOnItsWay, WorkersServe
<1>8. CASE CloseBegin
  BY <1>8 DEF CloseBegin, Shutdown, CloserIsOnItsWay, WorkersServe
<1>9. CASE CloseChannels
  <2>1. SendingJobs = {}
    <3>1. Cardinality(SendingJobs) = 0
      BY <1>9 DEF CloseChannels, Accounting, SendingJobs
    <3>2. QED
      BY <3>1, AccountingSets, FS_EmptySet
  <2>2. \A j \in Job : stage[j] # "sending"
    BY <2>1 DEF SendingJobs
  <2>3. QED
    BY <1>9, <2>2 DEF CloseChannels, Shutdown, CloserIsOnItsWay, WorkersServe
<1>10. CASE CloseDone
  BY <1>10 DEF CloseDone, Shutdown, CloserIsOnItsWay, WorkersServe
<1>11. CASE (\E j \in Job : Cancel(j)) \/ Quiescer \/ UNCHANGED vars
  <2>1. UNCHANGED <<closed, closer, chanClosed, stage, channel, workerPc>>
    BY <1>11 DEF Cancel, Quiescer, Waiting, quiet, Pause, AwaitIdle, AwaitIdleExpired,
       DrainResume, DrainPoll, DrainTick, DrainPause, DrainExpired, Resume, vars
  <2>2. QED
    BY <2>1 DEF Shutdown, CloserIsOnItsWay, WorkersServe
<1>12. QED
  BY <1>1, <1>2, <1>3, <1>4, <1>5, <1>6, <1>7, <1>8, <1>9, <1>10, <1>11
     DEF Next, Enqueue, Worker, Closer

\* Once the senders and the workers are gone no accepted job is left.
LEMMA NothingIsLeft ==
    ASSUME Typed, Placed, Shutdown, closer \in {"awaitWorkers", "done"},
           \A p \in Project : workerPc[p] \in {"none", "exited"}, NEW j \in Job
    PROVE  stage[j] \notin Outstanding
<1> USE QueueAssumption DEF Typed, TypeOK
<1>1. SUFFICES ASSUME stage[j] \in Outstanding PROVE FALSE
  OBVIOUS
<1>2. workerPc[ProjectOf[j]] = "exited" /\ channel[ProjectOf[j]] = <<>>
  BY <1>1 DEF Shutdown, CloserIsOnItsWay, WorkersServe
<1>3. stage[j] # "sending"
  BY DEF Shutdown, CloserIsOnItsWay
<1>4. stage[j] # "queued"
  BY <1>2 DEF Placed, QueuedInChannel
<1>5. stage[j] # "running"
  BY <1>2 DEF Placed, RunningInWorker, WorkerHolds, Busy
<1>6. QED
  BY <1>1, <1>3, <1>4, <1>5 DEF Outstanding

Safe == Typed /\ Placed /\ Accounting /\ Shutdown

LEMMA SafeAlways == Spec => []Safe
<1>1. Init => Safe
  BY TypedInit, PlacedInit, AccountingInit, ShutdownInit DEF Safe
<1>2. Safe /\ [Next]_vars => Safe'
  BY TypedStep, PlacedStep, AccountingStep, ShutdownStep DEF Safe
<1>3. QED
  BY <1>1, <1>2, PTL DEF Spec

\* No send meets a channel that Close has closed: the wait for the senders
\* covers every caller that passed the closed check.
THEOREM QueueNoSendOnClosedChannel == Spec => []NoSendOnClosedChannel
<1>1. Safe => NoSendOnClosedChannel
  BY DEF Safe, Typed, TypeOK, Shutdown, CloserIsOnItsWay, NoSendOnClosedChannel
<1>2. QED
  BY <1>1, SafeAlways, PTL

\* Close answers every job it has accepted before it returns.
THEOREM QueueCloseLosesNothing == Spec => []CloseLosesNothing
<1>1. Safe => CloseLosesNothing
  BY NothingIsLeft DEF Safe, Shutdown, CloserIsOnItsWay, CloseLosesNothing
<1>2. QED
  BY <1>1, SafeAlways, PTL

-----------------------------------------------------------------------------
(* The history.  A commit enters it in the Execute step of its worker, and  *)
(* that worker's result says so until it is the answer.                     *)

InLog(j) == \E n \in 1..Len(log) : log[n] = j

LogDistinct == \A m, n \in 1..Len(log) : log[m] = log[n] => m = n
LoggedRan == \A j \in Job : InLog(j) => stage[j] \in {"running", "retired"}
NotYetMade ==
    \A p \in Project : workerPc[p] \in {"waitUnpaused", "checkCtx", "markBusy", "execute"} =>
        ~InLog(workerJob[p])
ResultIsTrue ==
    \A p \in Project : workerPc[p] \in {"markIdle", "answer"} =>
        /\ workerErr[p] = "nil" => InLog(workerJob[p])
        /\ workerErr[p] = "ctx" => ~InLog(workerJob[p])
AnswerIsTrue ==
    \A j \in Job : /\ outcome[j] = "nil" => InLog(j)
                   /\ outcome[j] \in {"ctx", "closed"} => ~InLog(j)

Logged == LogDistinct /\ LoggedRan /\ NotYetMade /\ ResultIsTrue /\ AnswerIsTrue

LEMMA LoggedInit == Init => Logged
BY DEF Init, Logged, LogDistinct, LoggedRan, NotYetMade, ResultIsTrue, AnswerIsTrue, InLog

LEMMA LoggedStep == Typed /\ Placed /\ Answered /\ Logged /\ [Next]_vars => Logged'
<1> SUFFICES ASSUME Typed, Placed, Answered, Logged, [Next]_vars PROVE Logged'
  OBVIOUS
<1> USE QueueAssumption DEF Typed, TypeOK, WorkerHolds, Busy, queueVars, workerVars,
        jobVars, Goto
<1>0. \A p \in Project : workerPc[p] \in Busy =>
        /\ workerJob[p] \in Job /\ stage[workerJob[p]] = "running"
        /\ ProjectOf[workerJob[p]] = p
  BY DEF Placed, WorkerHoldsRunning
<1>1. ASSUME NEW j \in Job, EnqueueRefused(j) \/ EnqueueAccepted(j) PROVE Logged'
  <2>1. /\ stage[j] = "new" /\ UNCHANGED <<log, workerJob, workerErr>>
        /\ \A i \in Job : i # j => stage'[i] = stage[i]
        /\ \A i \in Job : outcome'[i] # outcome[i] => i = j /\ outcome'[i] = "closed"
        /\ \A p \in Project : workerPc'[p] # "receive" => workerPc'[p] = workerPc[p]
    BY <1>1 DEF EnqueueRefused, EnqueueAccepted
  <2>2. ~InLog(j)
    BY <2>1 DEF Logged, LoggedRan
  <2>3. LogDistinct' /\ LoggedRan' /\ AnswerIsTrue'
    BY <2>1, <2>2 DEF Logged, LogDistinct, LoggedRan, AnswerIsTrue, InLog
  <2>4. NotYetMade' /\ ResultIsTrue'
    BY <2>1 DEF Logged, NotYetMade, ResultIsTrue, InLog
  <2>5. QED
    BY <2>3, <2>4 DEF Logged
<1>2. ASSUME NEW j \in Job, Send(j) PROVE Logged'
  <2>1. /\ stage[j] = "sending" /\ stage' = [stage EXCEPT ![j] = "queued"]
        /\ UNCHANGED <<log, outcome, workerPc, workerJob, workerErr>>
    BY <1>2 DEF Send
  <2>2. QED
    BY <2>1 DEF Logged, LogDistinct, LoggedRan, NotYetMade, ResultIsTrue, AnswerIsTrue, InLog
<1>3. ASSUME NEW p \in Project, Receive(p) PROVE Logged'
  <2> DEFINE h == Head(channel[p])
  <2>1. /\ channel[p] # <<>> /\ channel[p] \in Seq(Job)
        /\ workerPc' = [workerPc EXCEPT ![p] = "waitUnpaused"]
        /\ workerJob' = [workerJob EXCEPT ![p] = h] /\ stage' = [stage EXCEPT ![h] = "running"]
        /\ UNCHANGED <<log, outcome, workerErr>>
    BY <1>3 DEF Receive
  <2>2. h \in Job /\ stage[h] = "queued"
    <3>1. 1 \in 1..Len(channel[p]) /\ h = channel[p][1]
      BY <2>1, EmptySeq
    <3>2. QED
      BY <2>1, <3>1, HeadTailProperties DEF Placed, ChannelHoldsQueued
  <2>3. ~InLog(h)
    BY <2>2 DEF Logged, LoggedRan
  <2>4. LogDistinct' /\ \A i : InLog(i)' <=> InLog(i)
    BY <2>1 DEF Logged, LogDistinct, InLog
  <2>5. LoggedRan' /\ AnswerIsTrue'
    BY <2>1, <2>2, <2>4 DEF Logged, LoggedRan, AnswerIsTrue
  <2>6. NotYetMade'
    BY <2>1, <2>2, <2>3, <2>4 DEF Logged, NotYetMade
  <2>7. ResultIsTrue'
    BY <2>1, <2>2, <2>4 DEF Logged, ResultIsTrue
  <2>8. QED
    BY <2>4, <2>5, <2>6, <2>7 DEF Logged
<1>4. ASSUME NEW p \in Project, CheckCtx(p) PROVE Logged'
  BY <1>4 DEF CheckCtx, Logged, LogDistinct, LoggedRan, NotYetMade, ResultIsTrue,
              AnswerIsTrue, InLog
<1>5. ASSUME NEW p \in Project, Execute(p) PROVE Logged'
  <2> DEFINE j == workerJob[p]
  <2>1. /\ j \in Job /\ stage[j] = "running" /\ ProjectOf[j] = p /\ ~InLog(j)
        /\ outcome[j] = "none"
    BY <1>0, <1>5 DEF Execute, Logged, NotYetMade, Answered
  <2>2. PICK err \in {"nil", "failed"}, landed \in BOOLEAN :
          /\ err = "nil" => landed
          /\ workerErr' = [workerErr EXCEPT ![p] = err]
          /\ log' = IF landed THEN Append(log, j) ELSE log
    BY <1>5 DEF Execute
  <2>3. /\ workerPc' = [workerPc EXCEPT ![p] = "markIdle"] /\ workerPc[p] = "execute"
        /\ UNCHANGED <<stage, outcome, workerJob>>
    BY <1>5 DEF Execute
  <2>4. \A q \in Project : q # p /\ workerPc[q] \in Busy => workerJob[q] # j
    BY <1>0, <2>1
  <2>5. /\ \A i \in Job : i # j => (InLog(i)' <=> InLog(i))
        /\ InLog(j)' <=> landed
        /\ LogDistinct'
    <3>1. CASE landed
      <4>1. /\ Len(log') = Len(log) + 1 /\ log'[Len(log) + 1] = j
            /\ \A n \in 1..Len(log) : log'[n] = log[n]
        BY <2>1, <2>2, <3>1, AppendProperties
      <4>2. Len(log) \in Nat
        OBVIOUS
      <4>3. \A n \in 1..Len(log') : n \in 1..Len(log) \/ n = Len(log) + 1
        BY <4>1, <4>2
      <4>4. LogDistinct'
        <5> SUFFICES ASSUME NEW m \in 1..Len(log'), NEW n \in 1..Len(log'), log'[m] = log'[n]
                     PROVE  m = n
          BY DEF LogDistinct
        <5>1. CASE m \in 1..Len(log) /\ n \in 1..Len(log)
          BY <4>1, <5>1 DEF Logged, LogDistinct
        <5>2. \A k \in 1..Len(log) : log[k] # j
          BY <2>1 DEF InLog
        <5>3. QED
          BY <4>1, <4>3, <5>1, <5>2
      <4>5. ASSUME NEW i \in Job, i # j PROVE InLog(i)' <=> InLog(i)
        <5>1. InLog(i) => InLog(i)'
          BY <4>1, <4>2 DEF InLog
        <5>2. InLog(i)' => InLog(i)
          BY <4>1, <4>3, <4>5 DEF InLog
        <5>3. QED
          BY <5>1, <5>2
      <4>6. InLog(j)'
        <5>1. Len(log) + 1 \in 1..Len(log') /\ log'[Len(log) + 1] = j'
          BY <2>3, <4>1, <4>2
        <5>2. QED
          BY <5>1 DEF InLog
      <4>7. QED
        BY <3>1, <4>4, <4>5, <4>6
    <3>2. CASE ~landed
      <4>1. log' = log
        BY <2>2, <3>2
      <4>2. QED
        BY <2>1, <2>3, <3>2, <4>1 DEF InLog, Logged, LogDistinct
    <3>3. QED
      BY <3>1, <3>2
  <2>6. LoggedRan' /\ AnswerIsTrue'
    BY <2>1, <2>3, <2>5 DEF Logged, LoggedRan, AnswerIsTrue
  <2>7. NotYetMade'
    BY <1>0, <2>3, <2>4, <2>5 DEF Logged, NotYetMade
  <2>8. ResultIsTrue'
    BY <1>0, <2>2, <2>3, <2>4, <2>5 DEF Logged, ResultIsTrue
  <2>9. QED
    BY <2>5, <2>6, <2>7, <2>8 DEF Logged
<1>6. ASSUME NEW p \in Project, Answer(p) PROVE Logged'
  <2>1. /\ workerPc[p] = "answer" /\ workerJob[p] \in Job
        /\ workerPc' = [workerPc EXCEPT ![p] = "retire"]
        /\ outcome' = [outcome EXCEPT ![workerJob[p]] = workerErr[p]]
        /\ workerErr[p] \in {"nil", "failed", "ctx"}
        /\ UNCHANGED <<log, stage, workerJob, workerErr>>
    BY <1>0, <1>6 DEF Answer, Errs
  <2>2. LogDistinct' /\ \A i : InLog(i)' <=> InLog(i)
    BY <2>1 DEF Logged, LogDistinct, InLog
  <2>3. AnswerIsTrue'
    BY <2>1, <2>2 DEF Logged, ResultIsTrue, AnswerIsTrue
  <2>4. LoggedRan' /\ NotYetMade' /\ ResultIsTrue'
    BY <2>1, <2>2 DEF Logged, LoggedRan, NotYetMade, ResultIsTrue
  <2>5. QED
    BY <2>2, <2>3, <2>4 DEF Logged
<1>7. ASSUME NEW p \in Project,
             Exit(p) \/ WaitUnpaused(p) \/ MarkBusy(p) \/ MarkIdle(p)
      PROVE  Logged'
  <2>1. /\ UNCHANGED <<log, stage, outcome, workerJob, workerErr>>
        /\ \A q \in Project : q # p => workerPc'[q] = workerPc[q]
        /\ \/ workerPc'[p] = "exited"
           \/ /\ workerPc[p] \in {"waitUnpaused", "markBusy"}
              /\ workerPc'[p] \in {"checkCtx", "execute"}
           \/ workerPc[p] = "markIdle" /\ workerPc'[p] = "answer"
    BY <1>7 DEF Exit, WaitUnpaused, MarkBusy, MarkIdle
  <2>2. LogDistinct' /\ \A i : InLog(i)' <=> InLog(i)
    BY <2>1 DEF Logged, LogDistinct, InLog
  <2>3. QED
    BY <2>1, <2>2 DEF Logged, LoggedRan, NotYetMade, ResultIsTrue, AnswerIsTrue
<1>8. ASSUME NEW p \in Project, Retire(p) PROVE Logged'
  <2>1. /\ workerPc[p] = "retire" /\ workerJob[p] \in Job
        /\ workerPc' = [workerPc EXCEPT ![p] = "receive"]
        /\ workerJob' = [workerJob EXCEPT ![p] = NoJob]
        /\ stage' = [stage EXCEPT ![workerJob[p]] = "retired"]
        /\ UNCHANGED <<log, outcome, workerErr>>
    BY <1>0, <1>8 DEF Retire
  <2>2. LogDistinct' /\ \A i : InLog(i)' <=> InLog(i)
    BY <2>1 DEF Logged, LogDistinct, InLog
  <2>3. QED
    BY <2>1, <2>2 DEF Logged, LoggedRan, NotYetMade, ResultIsTrue, AnswerIsTrue
<1>9. CASE (\E j \in Job : Cancel(j)) \/ Quiescer \/ Closer \/ UNCHANGED vars
  <2>1. UNCHANGED <<log, stage, outcome, workerPc, workerJob, workerErr>>
    BY <1>9 DEF Cancel, Quiescer, Waiting, Closer, quiet, Pause, AwaitIdle,
       AwaitIdleExpired, DrainResume, DrainPoll, DrainTick, DrainPause, DrainExpired,
       Resume, CloseBegin, CloseChannels, CloseDone, vars
  <2>2. QED
    BY <2>1 DEF Logged, LogDistinct, LoggedRan, NotYetMade, ResultIsTrue, AnswerIsTrue, InLog
<1>10. QED
  BY <1>1, <1>2, <1>3, <1>4, <1>5, <1>6, <1>7, <1>8, <1>9 DEF Next, Enqueue, Worker

\* Everything the proofs below rest on, as one inductive invariant.
Sound == Safe /\ Answered /\ Ordered /\ Logged

LEMMA SoundAlways == Spec => []Sound
<1>1. Init => Sound
  BY TypedInit, PlacedInit, AccountingInit, ShutdownInit, AnsweredInit, OrderedInit,
     LoggedInit DEF Sound, Safe
<1>2. Sound /\ [Next]_vars => Sound'
  BY TypedStep, PlacedStep, AccountingStep, ShutdownStep, AnsweredStep, OrderedStep,
     LoggedStep DEF Sound, Safe
<1>3. QED
  BY <1>1, <1>2, PTL DEF Spec

\* The history holds only commits that ran, each once, and every commit whose
\* caller was told it succeeded.
THEOREM QueueLogMatchesAnswers == Spec => []LogMatchesAnswers
<1>1. Sound => LogMatchesAnswers
  <2> SUFFICES ASSUME Sound PROVE LogMatchesAnswers
    OBVIOUS
  <2> USE DEF Sound, Safe, Typed, TypeOK, Logged
  <2>1. LogDistinct /\ \A j \in Job : outcome[j] = "nil" => InLog(j)
    BY DEF AnswerIsTrue
  <2>2. \A n \in 1..Len(log) : outcome[log[n]] \in {"none", "nil", "failed"}
    <3> TAKE n \in 1..Len(log)
    <3>1. log[n] \in Job /\ InLog(log[n])
      BY DEF InLog
    <3>2. QED
      BY <3>1 DEF AnswerIsTrue, Errs
  <2>3. QED
    BY <2>1, <2>2 DEF LogMatchesAnswers, LogDistinct, InLog
<1>2. QED
  BY <1>1, SoundAlways, PTL

-----------------------------------------------------------------------------
(* The queue implements CommitService.  Send is Accept, the step of Execute *)
(* that lands is Commit, Answer is Reply; a worker's other steps, and all   *)
(* of the quiescer's, cannot be seen.                                       *)

LEMMA MadeIsInLog == \A j : Promise!Made(j) <=> InLog(j)
BY DEF Promise!Made, InLog

\* A worker that may commit or answer has the turn: order and exclusion.
LEMMA HasTurn ==
    ASSUME Sound, NEW p \in Project, workerPc[p] \in {"execute", "answer"}
    PROVE  Promise!Turn(workerJob[p])
<1> DEFINE j == workerJob[p]
<1> USE QueueAssumption DEF Sound, Safe, Typed, TypeOK
<1>1. /\ j \in Job /\ stage[j] = "running" /\ ProjectOf[j] = p /\ outcome[j] = "none"
  BY DEF WorkerHolds, Busy, Placed, WorkerHoldsRunning, Answered
<1>2. Asked[j] = "accepted"
  BY <1>1 DEF Asked
<1>3. \A i \in before[j] : outcome[i] # "none"
  BY <1>1 DEF Ordered, OrderedPair, Started
<1>4. ASSUME NEW i \in Promise!Peers(j), Promise!Made(i) PROVE outcome[i] # "none"
  <2>1. i \in Job /\ i # j /\ ProjectOf[i] = p
    BY <1>1, <1>4 DEF Promise!Peers
  <2>2. InLog(i)
    BY <1>4, MadeIsInLog
  <2>3. stage[i] \in {"running", "retired"}
    BY <2>1, <2>2 DEF Logged, LoggedRan
  <2>4. stage[i] # "running"
    BY <2>1 DEF Placed, RunningInWorker
  <2>5. QED
    BY <2>1, <2>3, <2>4 DEF Answered
<1>5. QED
  BY <1>1, <1>2, <1>3, <1>4 DEF Promise!Turn

LEMMA InitRefines == Init => Promise!Init
<1> SUFFICES ASSUME Init PROVE Promise!Init
  OBVIOUS
<1>1. Asked = [j \in Job |-> "new"]
  BY DEF Init, Asked
<1>2. QED
  BY <1>1 DEF Init, Promise!Init

LEMMA StepRefines == Sound /\ [Next]_vars => [Promise!Next]_Promise!svars
<1> SUFFICES ASSUME Sound, [Next]_vars PROVE Promise!Next \/ UNCHANGED Promise!svars
  OBVIOUS
<1> USE QueueAssumption DEF Sound, Safe, Typed, TypeOK, queueVars, workerVars, jobVars, Goto
<1>1. ASSUME NEW j \in Job, EnqueueRefused(j) PROVE Promise!Refuse(j)
  <2>1. /\ closed /\ stage[j] = "new" /\ stage' = [stage EXCEPT ![j] = "refused"]
        /\ outcome' = [outcome EXCEPT ![j] = "closed"]
        /\ UNCHANGED <<closed, before, log, closer>>
    BY <1>1 DEF EnqueueRefused
  <2>2. Asked[j] = "new" /\ Asked' = [Asked EXCEPT ![j] = "refused"]
    BY <2>1 DEF Asked
  <2>3. QED
    BY <2>1, <2>2 DEF Promise!Refuse
<1>2. ASSUME NEW j \in Job, EnqueueAccepted(j) PROVE Promise!Ask(j)
  <2>1. /\ ~closed /\ stage[j] = "new" /\ stage' = [stage EXCEPT ![j] = "sending"]
        /\ before' = [before EXCEPT ![j] = Returned(j)]
        /\ UNCHANGED <<closed, outcome, log, closer>>
    BY <1>2 DEF EnqueueAccepted
  <2>2. Asked[j] = "new" /\ Asked' = [Asked EXCEPT ![j] = "asking"]
    BY <2>1 DEF Asked
  <2>3. \A i \in Job : Asked[i] = "accepted" <=> stage[i] \in {"queued", "running", "retired"}
    BY DEF Asked, Outstanding
  <2>4. Returned(j) = {i \in Promise!Peers(j) : Asked[i] = "accepted"}
    BY <2>1, <2>3 DEF Returned, Promise!Peers
  <2>5. QED
    BY <2>1, <2>2, <2>4 DEF Promise!Ask
<1>3. ASSUME NEW j \in Job, Send(j) PROVE Promise!Accept(j)
  <2>1. /\ stage[j] = "sending" /\ stage' = [stage EXCEPT ![j] = "queued"]
        /\ UNCHANGED <<closed, before, outcome, log, closer>>
    BY <1>3 DEF Send
  <2>2. Asked[j] = "asking" /\ Asked' = [Asked EXCEPT ![j] = "accepted"]
    BY <2>1 DEF Asked
  <2>3. QED
    BY <2>1, <2>2 DEF Promise!Accept
<1>4. ASSUME NEW p \in Project, Receive(p) PROVE UNCHANGED Promise!svars
  <2> DEFINE h == Head(channel[p])
  <2>1. /\ channel[p] # <<>> /\ channel[p] \in Seq(Job) /\ stage' = [stage EXCEPT ![h] = "running"]
        /\ UNCHANGED <<closed, before, outcome, log, closer>>
    BY <1>4 DEF Receive
  <2>2. h \in Job /\ stage[h] = "queued"
    <3>1. 1 \in 1..Len(channel[p]) /\ h = channel[p][1]
      BY <2>1, EmptySeq
    <3>2. QED
      BY <2>1, <3>1, HeadTailProperties DEF Placed, ChannelHoldsQueued
  <2>3. UNCHANGED Asked
    BY <2>1, <2>2 DEF Asked
  <2>4. QED
    BY <2>1, <2>3 DEF Promise!svars
<1>5. ASSUME NEW p \in Project, Execute(p)
      PROVE  Promise!Commit(workerJob[p]) \/ UNCHANGED Promise!svars
  <2> DEFINE j == workerJob[p]
  <2>1. /\ workerPc[p] = "execute" /\ UNCHANGED <<closed, before, outcome, stage, closer>>
        /\ log' = log \/ log' = Append(log, j)
    BY <1>5 DEF Execute
  <2>2. UNCHANGED Asked
    BY <2>1 DEF Asked
  <2>3. Promise!Turn(j) /\ ~Promise!Made(j)
    BY <2>1, HasTurn, MadeIsInLog DEF Logged, NotYetMade
  <2>4. QED
    BY <2>1, <2>2, <2>3 DEF Promise!Commit, Promise!svars
<1>6. ASSUME NEW p \in Project, Answer(p) PROVE Promise!Reply(workerJob[p])
  <2> DEFINE j == workerJob[p]
  <2>1. /\ workerPc[p] = "answer" /\ outcome' = [outcome EXCEPT ![j] = workerErr[p]]
        /\ UNCHANGED <<closed, before, log, stage, closer>>
    BY <1>6 DEF Answer
  <2>2. UNCHANGED Asked
    BY <2>1 DEF Asked
  <2>3. /\ workerErr[p] \in {"nil", "failed", "ctx"}
        /\ workerErr[p] = "nil" => Promise!Made(j)
        /\ workerErr[p] = "ctx" => ~Promise!Made(j)
    BY <2>1, MadeIsInLog DEF Logged, ResultIsTrue, Errs
  <2>4. Promise!Turn(j)
    BY <2>1, HasTurn
  <2>5. QED
    BY <2>1, <2>2, <2>3, <2>4 DEF Promise!Reply
<1>7. ASSUME NEW p \in Project, Retire(p) PROVE UNCHANGED Promise!svars
  <2>1. /\ workerJob[p] \in Job /\ stage[workerJob[p]] = "running"
        /\ stage' = [stage EXCEPT ![workerJob[p]] = "retired"]
        /\ UNCHANGED <<closed, before, outcome, log, closer>>
    BY <1>7 DEF Retire, WorkerHolds, Busy, Placed, WorkerHoldsRunning
  <2>2. UNCHANGED Asked
    BY <2>1 DEF Asked
  <2>3. QED
    BY <2>1, <2>2 DEF Promise!svars
<1>8. CASE CloseBegin
  <2>1. ~closed /\ closed' /\ UNCHANGED <<before, outcome, log, stage>>
        /\ closer = "open" /\ closer' = "awaitSenders"
    BY <1>8 DEF CloseBegin, Shutdown, CloserIsOnItsWay
  <2>2. UNCHANGED Asked
    BY <2>1 DEF Asked
  <2>3. Promise!Close
    BY <2>1, <2>2 DEF Promise!Close
  <2>4. QED
    BY <2>3 DEF Promise!Next
<1>9. CASE CloseDone
  <2>1. /\ closer = "awaitWorkers" /\ closer' = "done" /\ closed
        /\ UNCHANGED <<closed, before, outcome, log, stage>>
    BY <1>9 DEF CloseDone, Shutdown, CloserIsOnItsWay
  <2>2. UNCHANGED Asked
    BY <2>1 DEF Asked
  <2>3. ASSUME NEW j \in Job, Asked[j] # "new" PROVE outcome[j] # "none"
    <3>1. stage[j] \notin Outstanding
      BY <1>9, NothingIsLeft DEF CloseDone
    <3>2. stage[j] # "new"
      BY <2>3 DEF Asked
    <3>3. QED
      BY <3>1, <3>2 DEF Answered
  <2>4. Promise!Finish
    BY <2>1, <2>2, <2>3 DEF Promise!Finish
  <2>5. QED
    BY <2>4 DEF Promise!Next
<1>10. CASE \/ \E j \in Job : Cancel(j)
            \/ \E p \in Project : Exit(p) \/ WaitUnpaused(p) \/ CheckCtx(p) \/ MarkBusy(p)
                                  \/ MarkIdle(p)
            \/ Quiescer \/ CloseChannels \/ UNCHANGED vars
  <2>1. /\ UNCHANGED <<closed, before, outcome, log, stage>>
        /\ closer' = "done" <=> closer = "done"
    BY <1>10 DEF Cancel, Exit, WaitUnpaused, CheckCtx, MarkBusy, MarkIdle, Quiescer, Waiting,
       quiet, Pause, AwaitIdle, AwaitIdleExpired, DrainResume, DrainPoll, DrainTick,
       DrainPause, DrainExpired, Resume, CloseChannels, vars
  <2>2. UNCHANGED Asked
    BY <2>1 DEF Asked
  <2>3. QED
    BY <2>1, <2>2 DEF Promise!svars
<1>11. QED
  <2>1. \A p \in Project : Execute(p) \/ Answer(p) => workerJob[p] \in Job
    BY DEF Execute, Answer, WorkerHolds, Busy
  <2>2. QED
    BY <1>1, <1>2, <1>3, <1>4, <1>5, <1>6, <1>7, <1>8, <1>9, <1>10, <2>1
       DEF Next, Enqueue, Worker, Closer, Promise!Next

\* Every behaviour of the queue is, seen by its callers, one of CommitService.
THEOREM QueueImplementsCommitService == Spec => ImplementsCommitService
<1>1. Spec => Promise!Init /\ [][Promise!Next]_Promise!svars
  BY InitRefines, StepRefines, SoundAlways, PTL DEF Spec
<1>2. QED
  BY <1>1, PTL DEF ImplementsCommitService, Promise!Spec
=============================================================================
