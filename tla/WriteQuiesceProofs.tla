------------------------- MODULE WriteQuiesceProofs -------------------------
(***************************************************************************)
(* Proofs about WriteQuiesce for every number of card and playbook         *)
(* mutations, on private and on shared repositories.  Every step of it is  *)
(* a step of CommitQueue or leaves the queue alone, so all that            *)
(* CommitQueueProofs and CommitServiceProofs show holds here too.          *)
(***************************************************************************)
EXTENDS WriteQuiesce, CommitServiceProofs

-----------------------------------------------------------------------------
(* The queue inside.                                                        *)

LEMMA StepIsQueueStep == [WNext]_wvars => [Next]_vars
<1> SUFFICES ASSUME [WNext]_wvars PROVE [Next]_vars
  OBVIOUS
<1>1. ASSUME NEW j \in Job, Mutation(j) PROVE [Next]_vars
  BY <1>1 DEF Mutation, WriterStep, CardLock, PlaybookLock, WriterEnqueue, CardUnlock,
     CardAnswered, CardRollback, AnsweredLocked, Next
<1>2. ASSUME NEW s \in Syncer, SyncBegin(s) \/ SyncStep(s) PROVE [Next]_vars
  <2>1. UNCHANGED vars \/ Pause \/ DrainResume \/ Resume
    BY <1>2 DEF SyncStep, SyncBegin, Start, SyncLockPlaybook, SyncLockWrites, SyncQuiesce,
       SyncOperate, SyncResume, SyncUnlockWrites, SyncEnd
  <2>2. QED
    BY <2>1 DEF Next, Quiescer
<1>3. CASE Queue
  BY <1>3 DEF Queue, Next, Quiescer, Closer
<1>4. CASE StopStep
  BY <1>4 DEF StopStep, AppCancel, QueueClose, CloseReturned, CloseExpired, FinalPush, Start,
     Exited, Next, Closer
<1>5. CASE Finished \/ UNCHANGED wvars
  BY <1>5 DEF Finished, wvars
<1>6. QED
  BY <1>1, <1>2, <1>3, <1>4, <1>5 DEF WNext

\* The locks and the syncer only restrict when the queue is used: every
\* behaviour of the composition is one of CommitQueue.
THEOREM QuiesceUsesQueue == WSpec => Spec
<1>1. WInit => Init
  BY DEF WInit
<1>2. QED
  BY <1>1, StepIsQueueStep, PTL DEF WSpec, Spec

-----------------------------------------------------------------------------
(* Types.                                                                   *)

WriterPcs == {"idle", "locked", "enqueuing", "awaiting", "rollback", "done"}
SyncPcs == {"idle", "wantPlaybook", "wantWrite", "locked", "quiescing", "op",
            "resumed", "released"}
PrivatePhases == Pulls \cup {"push", "retryPush"}

WTyped ==
    /\ shared \in BOOLEAN /\ held \subseteq CardJob
    /\ writer \in [Job -> WriterPcs]
    /\ syncPc \in [Syncer -> SyncPcs]
    /\ phase \in [Syncer -> PrivatePhases \cup {"cycle", "idle"}]

LEMMA WTypedInit == WInit => WTyped
<1> SUFFICES ASSUME WInit PROVE WTyped
  OBVIOUS
<1>1. shared \in BOOLEAN /\ held \subseteq CardJob
  BY QuiesceAssumption DEF WInit
<1>2. QED
  BY <1>1 DEF WInit, WTyped, WriterPcs, SyncPcs

LEMMA WTypedStep == WTyped /\ [WNext]_wvars => WTyped'
<1> SUFFICES ASSUME WTyped, [WNext]_wvars PROVE WTyped'
  OBVIOUS
<1> USE DEF WTyped, WriterPcs, SyncPcs, PrivatePhases, Pulls, lockVars, syncVars, setting,
        quiesceVars
<1>1. ASSUME NEW j \in Job, Mutation(j) PROVE WTyped'
  <2>1. UNCHANGED <<shared, held, syncPc, phase>>
        /\ \E pc \in WriterPcs : writer' = [writer EXCEPT ![j] = pc]
    BY <1>1 DEF Mutation, WriterStep, CardLock, PlaybookLock, WriterEnqueue, CardUnlock,
       CardAnswered, CardRollback, AnsweredLocked, WriterGoto
  <2>2. QED
    BY <2>1
<1>2. ASSUME NEW s \in Syncer, Start(s), writer' = writer PROVE WTyped'
  <2>1. StartPhase(s) \in PrivatePhases \cup {"cycle"}
    BY DEF StartPhase
  <2>2. FirstStep(StartPhase(s)) \in SyncPcs
    BY DEF FirstStep
  <2>3. QED
    BY <1>2, <2>1, <2>2 DEF Start, SyncGoto
<1>3. ASSUME NEW s \in Syncer, SyncStep(s) PROVE WTyped'
  <2>1. UNCHANGED <<shared, held, writer>>
        /\ \E pc \in SyncPcs : syncPc' = [syncPc EXCEPT ![s] = pc]
    BY <1>3 DEF SyncStep, SyncLockPlaybook, SyncLockWrites, SyncQuiesce, SyncOperate, SyncResume,
       SyncUnlockWrites, SyncEnd, SyncGoto, FirstStep
  <2>2. phase' = phase \/ \E ph \in PrivatePhases \cup {"cycle", "idle"} :
                             phase' = [phase EXCEPT ![s] = ph]
    <3>1. CASE SyncResume(s)
      BY <3>1 DEF SyncResume, PushOk, PushRejected, PullOk, SyncFailed
    <3>2. CASE ~SyncResume(s)
      BY <1>3, <3>2 DEF SyncStep, SyncLockPlaybook, SyncLockWrites, SyncQuiesce, SyncOperate,
         SyncUnlockWrites, SyncEnd
    <3>3. QED
      BY <3>1, <3>2
  <2>3. QED
    BY <2>1, <2>2
<1>4. ASSUME UNCHANGED <<shared, held, writer, syncPc, phase>> PROVE WTyped'
  BY <1>4
<1>5. QED
  BY <1>1, <1>2, <1>3, <1>4 DEF WNext, SyncBegin, Start, StopStep, AppCancel, QueueClose,
     CloseReturned, CloseExpired, FinalPush, Exited, Finished, wvars, Syncer

-----------------------------------------------------------------------------
(* The locks.  A mutation has its service's mutex while it writes and hands *)
(* its commit over; the syncer has the cards' mutex around an operation,    *)
(* and the playbooks' as well unless it only pushes.                        *)

MutexOf(j) == IF j \in CardJob THEN writeMu ELSE playbookMu

WriterLocks == \A j \in Job : MutexOf(j) = j <=> writer[j] \in {"locked", "enqueuing"}
SyncLocks ==
    \A s \in Syncer :
        /\ writeMu = s <=> syncPc[s] \in {"locked", "quiescing", "op", "resumed"}
        /\ syncPc[s] \in {"wantWrite", "locked", "quiescing", "op"}
           /\ phase[s] \in Pulls \cup {"cycle"} => playbookMu = s
PhasesFit ==
    \A s \in Syncer :
        /\ phase[s] \in IF shared THEN {"cycle", "idle"} ELSE PrivatePhases \cup {"idle"}
        /\ phase[s] = "idle" => syncPc[s] \in {"idle", "resumed", "released"}
        /\ syncPc[s] = "idle" => phase[s] = "idle"
QuiescerFits ==
    /\ quiescer # "free" <=> \E s \in Syncer : syncPc[s] \in {"quiescing", "op"}
    /\ quiescer \in {"draining", "drainWaiting", "drainPausing", "drained"} => shared

Locked == WriterLocks /\ SyncLocks /\ PhasesFit /\ QuiescerFits

LEMMA LockedInit == WInit => Locked
<1> SUFFICES ASSUME WInit PROVE Locked
  OBVIOUS
<1> USE QuiesceAssumption DEF WInit, Init, Locked
<1>1. WriterLocks /\ SyncLocks
  BY DEF WriterLocks, MutexOf, SyncLocks, Syncer
<1>2. PhasesFit /\ QuiescerFits
  BY DEF PhasesFit, QuiescerFits
<1>3. QED
  BY <1>1, <1>2

\* What a mutation does with its mutex.
LEMMA WriterSteps ==
    ASSUME NEW j \in Job, Mutation(j)
    PROVE  /\ UNCHANGED <<shared, syncPc, phase, quiescer>>
           /\ \E pc \in WriterPcs :
                /\ writer' = [writer EXCEPT ![j] = pc]
                /\ \/ /\ pc = "locked" /\ writer[j] = "idle" /\ MutexOf(j) = Nobody
                      /\ MutexOf(j)' = j
                   \/ /\ pc = "enqueuing" /\ writer[j] = "locked"
                      /\ MutexOf(j)' = MutexOf(j)
                   \/ /\ pc \in {"awaiting", "done"} /\ writer[j] = "enqueuing"
                      /\ MutexOf(j)' = Nobody
                   \/ /\ pc \in {"rollback", "done"} /\ writer[j] \in {"awaiting", "rollback"}
                      /\ MutexOf(j)' = MutexOf(j)
           /\ IF j \in CardJob THEN playbookMu' = playbookMu ELSE writeMu' = writeMu
<1> USE QuiesceAssumption DEF WriterGoto, MutexOf, WriterPcs, vars, setting, lockVars, syncVars
<1>1. CASE CardLock(j) \/ PlaybookLock(j)
  BY <1>1 DEF CardLock, PlaybookLock
<1>2. CASE WriterEnqueue(j)
  BY <1>2 DEF WriterEnqueue, Enqueue, EnqueueRefused, EnqueueAccepted
<1>3. CASE CardUnlock(j) \/ AnsweredLocked(j)
  BY <1>3 DEF CardUnlock, AnsweredLocked
<1>4. CASE CardAnswered(j) \/ CardRollback(j)
  BY <1>4 DEF CardAnswered, CardRollback
<1>5. QED
  BY <1>1, <1>2, <1>3, <1>4 DEF Mutation, WriterStep

LEMMA WriterKeepsLocked ==
    ASSUME WTyped, Locked, NEW j \in Job, Mutation(j)
    PROVE  Locked'
<1> USE QuiesceAssumption DEF Locked
<1>1. UNCHANGED <<shared, syncPc, phase, quiescer>>
  BY WriterSteps
<1>2. PICK pc \in WriterPcs :
        /\ writer' = [writer EXCEPT ![j] = pc]
        /\ \/ /\ pc = "locked" /\ writer[j] = "idle" /\ MutexOf(j) = Nobody
              /\ MutexOf(j)' = j
           \/ /\ pc = "enqueuing" /\ writer[j] = "locked"
              /\ MutexOf(j)' = MutexOf(j)
           \/ /\ pc \in {"awaiting", "done"} /\ writer[j] = "enqueuing"
              /\ MutexOf(j)' = Nobody
           \/ /\ pc \in {"rollback", "done"} /\ writer[j] \in {"awaiting", "rollback"}
              /\ MutexOf(j)' = MutexOf(j)
  BY WriterSteps
<1>3. IF j \in CardJob THEN playbookMu' = playbookMu ELSE writeMu' = writeMu
  BY WriterSteps
<1>4. \/ MutexOf(j) = Nobody /\ MutexOf(j)' = j
      \/ MutexOf(j) = j /\ MutexOf(j)' = Nobody
      \/ MutexOf(j)' = MutexOf(j)
  BY <1>2 DEF WriterLocks
<1>5. WriterLocks'
  <2> SUFFICES ASSUME NEW i \in Job
               PROVE  (MutexOf(i) = i <=> writer[i] \in {"locked", "enqueuing"})'
    BY DEF WriterLocks
  <2>1. MutexOf(i) = i <=> writer[i] \in {"locked", "enqueuing"}
    BY DEF WriterLocks
  <2>2. CASE i = j
    BY <1>2, <2>1, <2>2 DEF WTyped
  <2>3. CASE i # j
    <3>1. writer'[i] = writer[i]
      BY <1>2, <2>3 DEF WTyped
    <3>2. MutexOf(i)' = i <=> MutexOf(i) = i
      BY <1>3, <1>4, <2>3 DEF MutexOf
    <3>3. QED
      BY <2>1, <3>1, <3>2
  <2>4. QED
    BY <2>2, <2>3
<1>6. SyncLocks'
  <2> SUFFICES ASSUME NEW s \in Syncer PROVE (writeMu' = s <=> writeMu = s)
                                             /\ (playbookMu' = s <=> playbookMu = s)
    BY <1>1 DEF SyncLocks
  <2>1. s # j /\ s # Nobody
    OBVIOUS
  <2>2. QED
    BY <1>3, <1>4, <2>1 DEF MutexOf
<1>7. PhasesFit' /\ QuiescerFits'
  BY <1>1 DEF PhasesFit, QuiescerFits
<1>8. QED
  BY <1>5, <1>6, <1>7

LEMMA SyncKeepsLocked ==
    ASSUME WTyped, Locked, NEW s \in Syncer, Start(s) \/ SyncStep(s)
    PROVE  Locked'
<1> USE QuiesceAssumption DEF Locked, vars, lockVars, setting, SyncGoto
<1>1. UNCHANGED <<shared, writer>>
  BY DEF SyncStep, Start, SyncLockPlaybook, SyncLockWrites, SyncQuiesce,
     SyncOperate, SyncResume, SyncUnlockWrites, SyncEnd
<1>2. \/ writeMu' = writeMu
      \/ writeMu = Nobody /\ writeMu' = s
      \/ writeMu = s /\ writeMu' = Nobody
  BY DEF SyncStep, Start, SyncLockPlaybook, SyncLockWrites, SyncQuiesce,
     SyncOperate, SyncResume, SyncUnlockWrites, SyncEnd, SyncLocks
<1>3. \/ playbookMu' = playbookMu
      \/ playbookMu = Nobody /\ playbookMu' = s
      \/ playbookMu = s /\ playbookMu' = Nobody
  BY DEF SyncStep, Start, SyncLockPlaybook, SyncLockWrites, SyncQuiesce,
     SyncOperate, SyncResume, SyncUnlockWrites, SyncEnd
<1>4. WriterLocks'
  <2> SUFFICES ASSUME NEW i \in Job PROVE MutexOf(i)' = i <=> MutexOf(i) = i
    BY <1>1 DEF WriterLocks
  <2>1. i # s /\ i # Nobody
    OBVIOUS
  <2>2. QED
    BY <1>2, <1>3, <2>1 DEF MutexOf
<1>5. ASSUME NEW t \in Syncer, t # s
      PROVE  /\ syncPc'[t] = syncPc[t] /\ phase'[t] = phase[t]
             /\ writeMu' = t <=> writeMu = t
             /\ playbookMu' = t <=> playbookMu = t
  <2>1. syncPc'[t] = syncPc[t] /\ phase'[t] = phase[t]
    BY <1>5 DEF SyncStep, Start, SyncLockPlaybook, SyncLockWrites, SyncQuiesce,
       SyncOperate, SyncResume, SyncUnlockWrites, SyncEnd, PushOk, PushRejected, PullOk,
       SyncFailed, WTyped
  <2>2. t # Nobody
    OBVIOUS
  <2>3. QED
    BY <1>2, <1>3, <1>5, <2>1, <2>2
<1>6. /\ writeMu' = s <=> syncPc'[s] \in {"locked", "quiescing", "op", "resumed"}
      /\ syncPc'[s] \in {"wantWrite", "locked", "quiescing", "op"}
         /\ phase'[s] \in Pulls \cup {"cycle"} => playbookMu' = s
  <2> USE DEF SyncLocks, WTyped, SyncPcs, Syncer
  <2>1. CASE Start(s)
    BY <2>1 DEF Start, StartPhase, FirstStep, Pulls
  <2>2. CASE SyncLockPlaybook(s) \/ SyncLockWrites(s)
    BY <2>2 DEF SyncLockPlaybook, SyncLockWrites
  <2>3. CASE SyncQuiesce(s) \/ SyncOperate(s)
    BY <2>3 DEF SyncQuiesce, SyncOperate
  <2>4. CASE SyncResume(s) \/ SyncUnlockWrites(s)
    BY <2>4 DEF SyncResume, SyncUnlockWrites
  <2>5. CASE SyncEnd(s)
    BY <2>5 DEF SyncEnd, FirstStep, Pulls
  <2>6. QED
    BY <2>1, <2>2, <2>3, <2>4, <2>5 DEF SyncStep
<1>7. SyncLocks'
  BY <1>5, <1>6 DEF SyncLocks
<1>8. PhasesFit'
  <2> USE DEF PhasesFit, WTyped, SyncPcs, PrivatePhases, Pulls
  <2>1. SUFFICES /\ phase'[s] \in IF shared THEN {"cycle", "idle"} ELSE PrivatePhases \cup {"idle"}
                 /\ phase'[s] = "idle" => syncPc'[s] \in {"idle", "resumed", "released"}
                 /\ syncPc'[s] = "idle" => phase'[s] = "idle"
    BY <1>1, <1>5
  <2>2. CASE Start(s)
    BY <2>2 DEF Start, StartPhase, FirstStep, Pulls
  <2>3. CASE SyncLockPlaybook(s) \/ SyncLockWrites(s) \/ SyncQuiesce(s) \/ SyncOperate(s)
    BY <2>3 DEF SyncLockPlaybook, SyncLockWrites, SyncQuiesce, SyncOperate
  <2>4. CASE SyncResume(s)
    BY <2>4 DEF SyncResume, PushOk, PushRejected, PullOk, SyncFailed
  <2>5. CASE SyncUnlockWrites(s) \/ SyncEnd(s)
    BY <2>5 DEF SyncUnlockWrites, SyncEnd, FirstStep, Pulls
  <2>6. QED
    BY <2>2, <2>3, <2>4, <2>5 DEF SyncStep
<1>9. QuiescerFits'
  <2> USE DEF QuiescerFits, WTyped, SyncPcs
  <2>1. CASE SyncQuiesce(s)
    BY <1>1, <2>1 DEF SyncQuiesce, DrainResume, Pause, QuiescerGoto
  <2>2. CASE SyncOperate(s)
    BY <1>1, <2>2 DEF SyncOperate, Held
  <2>3. CASE SyncResume(s)
    <3>1. quiescer' = "free" /\ syncPc'[s] = "resumed" /\ syncPc[s] = "op"
      BY <2>3 DEF SyncResume, Resume
    <3>2. \A t \in Syncer : t # s => syncPc'[t] \notin {"quiescing", "op"}
      BY <1>5, <3>1 DEF SyncLocks
    <3>3. QED
      BY <3>1, <3>2
  <2>4. CASE Start(s) \/ SyncLockPlaybook(s) \/ SyncLockWrites(s) \/ SyncUnlockWrites(s)
             \/ SyncEnd(s)
    <3>1. quiescer' = quiescer /\ syncPc[s] \notin {"quiescing", "op"}
          /\ syncPc'[s] \notin {"quiescing", "op"}
      BY <2>4 DEF Start, SyncLockPlaybook, SyncLockWrites, SyncUnlockWrites, SyncEnd,
         FirstStep
    <3>2. QED
      BY <1>1, <1>5, <3>1
  <2>5. QED
    BY <2>1, <2>2, <2>3, <2>4 DEF SyncStep
<1>10. QED
  BY <1>4, <1>7, <1>8, <1>9

LEMMA LockedStep == WTyped /\ Locked /\ [WNext]_wvars => Locked'
<1> SUFFICES ASSUME WTyped, Locked, [WNext]_wvars PROVE Locked'
  OBVIOUS
<1>1. ASSUME UNCHANGED <<shared, lockVars, writer, syncPc, phase>>,
             quiescer' = "free" <=> quiescer = "free",
             quiescer' \in {"draining", "drainWaiting", "drainPausing", "drained"}
               => quiescer \in {"draining", "drainWaiting", "drainPausing", "drained"}
      PROVE  Locked'
  BY <1>1 DEF lockVars, Locked, WriterLocks, MutexOf, SyncLocks, PhasesFit, QuiescerFits
<1>2. CASE Queue /\ UNCHANGED quiesceVars
  <2>1. /\ quiescer' = "free" <=> quiescer = "free"
        /\ quiescer' \in {"draining", "drainWaiting", "drainPausing", "drained"}
           => quiescer \in {"draining", "drainWaiting", "drainPausing", "drained"}
    BY <1>2 DEF Queue, Send, Cancel, Worker, Waiting, Receive, Exit, WaitUnpaused, CheckCtx,
       MarkBusy, Execute, MarkIdle, Answer, Retire, AwaitIdle, AwaitIdleExpired, DrainPoll,
       DrainTick, DrainPause, DrainExpired, QuiescerGoto, CloseChannels, CloseDone
  <2>2. QED
    BY <1>1, <1>2, <2>1 DEF quiesceVars, setting, syncVars
<1>3. CASE StopStep
  <2>1. CASE FinalPush
    BY <2>1, SyncKeepsLocked DEF FinalPush, Syncer
  <2>2. CASE ~FinalPush
    <3>1. UNCHANGED <<shared, lockVars, writer, syncPc, phase, quiescer>>
      BY <1>3, <2>2 DEF StopStep, AppCancel, QueueClose, CloseReturned, CloseExpired, Exited,
         CloseBegin, syncVars, vars
    <3>2. QED
      BY <1>1, <3>1
  <2>3. QED
    BY <2>1, <2>2
<1>4. CASE Finished \/ UNCHANGED wvars
  BY <1>1, <1>4 DEF Finished, wvars, vars, quiesceVars, setting, syncVars
<1>5. QED
  BY <1>2, <1>3, <1>4, WriterKeepsLocked, SyncKeepsLocked DEF WNext, SyncBegin

-----------------------------------------------------------------------------
(* A drain.  Once the poll has seen pending = 0 nothing can enter the queue *)
(* again: whoever could hand a job over waits for a mutex the cycle holds.  *)

NothingOutstanding == \A j \in Job : stage[j] \notin Outstanding
DrainHolds == quiescer \in {"drainPausing", "drained"} => NothingOutstanding

\* While a drain is under way, no mutation is between its lock and its hand-over.
LEMMA DrainKeepsWritersOut ==
    ASSUME WTyped, Locked, NEW s \in Syncer, syncPc[s] \in {"quiescing", "op"},
           phase[s] \in Pulls \cup {"cycle"}, NEW j \in Job
    PROVE  writer[j] \notin {"locked", "enqueuing"}
<1>1. writeMu = s /\ playbookMu = s
  BY DEF Locked, SyncLocks
<1>2. s # j
  BY QuiesceAssumption
<1>3. QED
  BY <1>1, <1>2 DEF Locked, WriterLocks, MutexOf

LEMMA DrainingIsCycle ==
    ASSUME WTyped, Locked, quiescer \in {"draining", "drainWaiting", "drainPausing", "drained"}
    PROVE  \E s \in Syncer : syncPc[s] \in {"quiescing", "op"} /\ phase[s] = "cycle"
<1>1. shared /\ \E s \in Syncer : syncPc[s] \in {"quiescing", "op"}
  BY DEF Locked, QuiescerFits
<1>2. QED
  BY <1>1 DEF Locked, PhasesFit

LEMMA DrainHoldsStep ==
    Sound /\ WTyped /\ Locked /\ DrainHolds /\ [WNext]_wvars => DrainHolds'
<1> SUFFICES ASSUME Sound, WTyped, Locked, DrainHolds, [WNext]_wvars,
                    quiescer' \in {"drainPausing", "drained"}
             PROVE  NothingOutstanding'
  BY DEF DrainHolds
<1> USE QueueAssumption DEF Sound, Safe, Typed, TypeOK
<1>1. quiescer \in {"draining", "drainPausing", "drained"}
      /\ (quiescer = "draining" => DrainPoll)
  <2>1. [Next]_vars
    BY StepIsQueueStep
  <2>2. QED
    BY <2>1 DEF Next, vars, queueVars, Enqueue, EnqueueRefused, EnqueueAccepted, Send, Cancel,
       Worker, Receive, Exit, WaitUnpaused, CheckCtx, MarkBusy, Execute, MarkIdle, Answer,
       Retire, Quiescer, Waiting, QuiescerGoto, Pause, AwaitIdle, AwaitIdleExpired, DrainResume,
       DrainPoll, DrainTick, DrainPause, DrainExpired, Resume, Held, Closer, CloseBegin,
       CloseChannels, CloseDone
<1>2. PICK s \in Syncer : syncPc[s] \in {"quiescing", "op"} /\ phase[s] = "cycle"
  BY <1>1, DrainingIsCycle
<1>3. \A j \in Job : writer[j] # "locked"
  BY <1>2, DrainKeepsWritersOut
<1>4. NothingOutstanding
  <2>1. CASE quiescer # "draining"
    BY <1>1, <2>1 DEF DrainHolds
  <2>2. CASE quiescer = "draining"
    <3>1. pending = 0
      BY <1>1, <2>2 DEF DrainPoll, QuiescerGoto
    <3>2. OutstandingJobs = {}
      BY <3>1, AccountingSets, FS_EmptySet DEF Accounting, OutstandingJobs
    <3>3. QED
      BY <3>2 DEF OutstandingJobs, NothingOutstanding
  <2>3. QED
    BY <2>1, <2>2
<1>5. \A j \in Job : stage'[j] \in Outstanding => stage[j] \in Outstanding
  <2> USE DEF Outstanding, queueVars, workerVars, jobVars
  <2>1. ASSUME NEW j \in Job, Mutation(j) PROVE UNCHANGED stage
                 \/ stage' = [stage EXCEPT ![j] = "refused"]
    <3>1. CASE WriterEnqueue(j)
      BY <1>3, <3>1 DEF WriterEnqueue, WriterGoto
    <3>2. CASE ~WriterEnqueue(j)
      BY <2>1, <3>2 DEF Mutation, WriterStep, CardLock, PlaybookLock, CardUnlock,
         CardAnswered, CardRollback, AnsweredLocked, vars
    <3>3. QED
      BY <3>1, <3>2
  <2>2. ASSUME NEW t \in Syncer, SyncBegin(t) \/ SyncStep(t) PROVE UNCHANGED stage
    BY <2>2 DEF SyncStep, SyncBegin, Start, SyncLockPlaybook, SyncLockWrites, SyncQuiesce,
       SyncOperate, SyncResume, SyncUnlockWrites, SyncEnd, Pause, DrainResume, Resume, quiet, vars
  <2>3. ASSUME NEW j \in Job, Send(j) \/ Cancel(j)
        PROVE  \A i \in Job : stage'[i] \in Outstanding => stage[i] \in Outstanding
    BY <2>3 DEF Send, Cancel
  <2>4. ASSUME NEW p \in Project, Receive(p) PROVE FALSE
    <3>1. channel[p] \in Seq(Job) /\ channel[p] # <<>>
      BY <2>4 DEF Receive
    <3>2. 1 \in 1..Len(channel[p]) /\ channel[p][1] \in Job
      BY <3>1, EmptySeq
    <3>3. stage[channel[p][1]] = "queued"
      BY <3>2 DEF Placed, ChannelHoldsQueued
    <3>4. QED
      BY <1>4, <3>2, <3>3 DEF NothingOutstanding
  <2>5. ASSUME NEW p \in Project, Worker(p), ~Receive(p)
        PROVE  \A i \in Job : stage'[i] \in Outstanding => stage[i] \in Outstanding
    BY <2>5 DEF Worker, Exit, WaitUnpaused, CheckCtx, MarkBusy, Execute, MarkIdle, Answer, Retire
  <2>6. CASE Waiting \/ CloseChannels \/ CloseDone
    BY <2>6 DEF Waiting, AwaitIdle, AwaitIdleExpired, DrainPoll, DrainTick, DrainPause,
       DrainExpired, quiet, CloseChannels, CloseDone
  <2>7. CASE StopStep
    BY <2>7 DEF StopStep, AppCancel, QueueClose, CloseReturned, CloseExpired, FinalPush, Start,
       Exited, CloseBegin, vars
  <2>8. CASE Finished \/ UNCHANGED wvars
    BY <2>8 DEF Finished, wvars, vars
  <2>9. QED
    BY <2>1, <2>2, <2>3, <2>4, <2>5, <2>6, <2>7, <2>8 DEF WNext, Queue
<1>6. QED
  BY <1>4, <1>5 DEF NothingOutstanding

Quiesced == Sound /\ WTyped /\ Locked /\ DrainHolds

LEMMA QuiescedAlways == WSpec => []Quiesced
<1>1. WInit => Quiesced
  <2> SUFFICES ASSUME WInit PROVE Quiesced
    OBVIOUS
  <2>1. Init
    BY DEF WInit
  <2>2. Sound
    BY <2>1, TypedInit, PlacedInit, AccountingInit, ShutdownInit, AnsweredInit, OrderedInit,
       LoggedInit DEF Sound, Safe
  <2>3. DrainHolds
    BY <2>1 DEF Init, DrainHolds
  <2>4. QED
    BY <2>2, <2>3, WTypedInit, LockedInit DEF Quiesced
<1>2. Quiesced /\ [WNext]_wvars => Quiesced'
  <2>1. Sound /\ [Next]_vars => Sound'
    BY TypedStep, PlacedStep, AccountingStep, ShutdownStep, AnsweredStep, OrderedStep,
       LoggedStep DEF Sound, Safe
  <2>2. QED
    BY <2>1, StepIsQueueStep, WTypedStep, LockedStep, DrainHoldsStep DEF Quiesced
<1>3. QED
  BY <1>1, <1>2, PTL DEF WSpec

-----------------------------------------------------------------------------
(* What a git operation may rely on.                                        *)

\* A pull reloads the store from the tree: no card or playbook mutation is
\* between taking its lock and handing its commit over while it runs.
THEOREM QuiescePullSeesStillStore == WSpec => []PullSeesStillStore
<1>1. Quiesced => PullSeesStillStore
  BY DrainKeepsWritersOut DEF Quiesced, PullSeesStillStore, Operating
<1>2. QED
  BY <1>1, QuiescedAlways, PTL

\* "the merge that follows has to see a fully committed tree": a cycle whose
\* drain succeeded runs with no job in the queue, no worker at one and no
\* mutation between its store write and its answer.
THEOREM QuiesceMergeSeesCommittedTree == WSpec => []MergeSeesCommittedTree
<1>1. ASSUME Quiesced PROVE MergeSeesCommittedTree
  <2> SUFFICES ASSUME NEW s \in Syncer, Operating(s), quiescer = "drained"
               PROVE  /\ \A j \in Job : /\ stage[j] \notin Outstanding
                                        /\ writer[j] \notin {"locked", "enqueuing"}
                      /\ \A p \in Project : workerPc[p] \in {"none", "receive", "exited"}
    BY DEF MergeSeesCommittedTree
  <2> USE <1>1 DEF Quiesced
  <2>1. NothingOutstanding
    BY DEF DrainHolds
  <2>2. phase[s] = "cycle"
    BY DEF Operating, Locked, QuiescerFits, PhasesFit
  <2>3. \A j \in Job : writer[j] \notin {"locked", "enqueuing"}
    BY <2>2, DrainKeepsWritersOut DEF Operating
  <2>4. ASSUME NEW p \in Project PROVE workerPc[p] \in {"none", "receive", "exited"}
    <3> USE DEF Sound, Safe
    <3>1. workerPc[p] \notin Busy
      <4> SUFFICES ASSUME workerPc[p] \in Busy PROVE FALSE
        OBVIOUS
      <4>1. workerJob[p] \in Job /\ stage[workerJob[p]] = "running"
        BY DEF Typed, TypeOK, WorkerHolds, Placed, WorkerHoldsRunning
      <4>2. QED
        BY <2>1, <4>1 DEF NothingOutstanding, Outstanding
    <3>2. QED
      BY <3>1 DEF Typed, TypeOK, WorkerPcs, Busy
  <2>5. QED
    BY <2>1, <2>3, <2>4 DEF NothingOutstanding
<1>2. QED
  BY <1>1, QuiescedAlways, PTL

-----------------------------------------------------------------------------
(* No commit is left unpushed.  Whoever was answered has notified; the      *)
(* notification waits in pushCh or has been taken by a listener that will   *)
(* still read HEAD, and while an operation runs, what its HEAD misses was   *)
(* notified after it was read.                                              *)

Told(j) == writer[j] = "done" /\ outcome[j] = "nil"
ListenerWillRead == phase["listener"] # "idle" /\ syncPc["listener"] # "op"

WriterKnows ==
    \A j \in Job : /\ writer[j] \in {"rollback", "done"} => outcome[j] # "none"
                   /\ writer[j] = "rollback" => outcome[j] # "nil"
HeadRead ==
    /\ pushed \subseteq Committed
    /\ \A s \in Syncer : syncPc[s] = "op" => pushed \subseteq pushHead /\ pushHead \subseteq Committed
OperationCovers ==
    \A s \in Syncer : syncPc[s] = "op" =>
        \A j \in Job : Told(j) => j \in pushHead \/ pushCh \/ ListenerWillRead

Pushing == /\ WriterKnows /\ HeadRead /\ OperationCovers /\ NotifiedIsPushed
           /\ \A s \in {"listener", "final"} : phase[s] \notin {"pull", "manualPull"}

\* An answer is final, and the history only grows.
LEMMA AnswersAreFinal ==
    ASSUME Sound, [Next]_vars
    PROVE  /\ \A j \in Job : outcome[j] # "none" => outcome'[j] = outcome[j]
           /\ Committed \subseteq Committed'
<1> USE QueueAssumption DEF Sound, Safe, Typed, TypeOK, queueVars, workerVars, jobVars
<1>1. ASSUME NEW p \in Project, Execute(p)
      PROVE  UNCHANGED outcome /\ Committed \subseteq Committed'
  <2>1. UNCHANGED outcome /\ (log' = log \/ log' = Append(log, workerJob[p]))
        /\ workerJob[p] \in Job
    BY <1>1 DEF Execute, Goto, WorkerHolds, Busy
  <2>2. CASE log' = Append(log, workerJob[p])
    <3>1. Len(log') = Len(log) + 1 /\ Len(log) \in Nat
          /\ \A n \in 1..Len(log) : log'[n] = log[n]
      BY <2>1, <2>2, AppendProperties, LenProperties
    <3>2. ASSUME NEW j \in Committed PROVE j \in Committed'
      <4>1. PICK n \in 1..Len(log) : j = log[n]
        BY DEF Committed
      <4>2. n \in 1..Len(log') /\ log'[n] = j
        BY <3>1, <4>1
      <4>3. QED
        BY <4>2 DEF Committed
    <3>3. QED
      BY <2>1, <3>2
  <2>3. QED
    BY <2>1, <2>2 DEF Committed
<1>2. ASSUME NEW p \in Project, Answer(p)
      PROVE  UNCHANGED log /\ \A j \in Job : outcome[j] # "none" => outcome'[j] = outcome[j]
  <2>1. workerPc[p] = "answer" /\ workerJob[p] \in Job
    BY <1>2 DEF Answer, Goto, WorkerHolds, Busy
  <2>2. outcome[workerJob[p]] = "none"
    BY <2>1 DEF Answered, Busy
  <2>3. QED
    BY <1>2, <2>1, <2>2 DEF Answer
<1>3. ASSUME NEW j \in Job, Enqueue(j)
      PROVE  UNCHANGED log /\ \A i \in Job : outcome[i] # "none" => outcome'[i] = outcome[i]
  BY <1>3 DEF Enqueue, EnqueueRefused, EnqueueAccepted, Answered
<1>4. ASSUME [Next]_vars, \A p \in Project : ~Execute(p) /\ ~Answer(p),
             \A j \in Job : ~Enqueue(j)
      PROVE  UNCHANGED <<log, outcome>>
  BY <1>4 DEF Next, vars, Send, Cancel, Worker, Receive, Exit, WaitUnpaused, CheckCtx, MarkBusy,
     MarkIdle, Retire, Quiescer, Waiting, quiet, Pause, AwaitIdle, AwaitIdleExpired, DrainResume,
     DrainPoll, DrainTick, DrainPause, DrainExpired, Resume, Closer, CloseBegin, CloseChannels,
     CloseDone
<1>5. QED
  BY <1>1, <1>2, <1>3, <1>4 DEF Committed

LEMMA PushingInit == WInit => Pushing
<1> SUFFICES ASSUME WInit PROVE Pushing
  OBVIOUS
<1>1. WriterKnows /\ HeadRead /\ OperationCovers /\ NotifiedIsPushed
  BY DEF WInit, WriterKnows, HeadRead, OperationCovers, NotifiedIsPushed
<1>2. QED
  BY <1>1 DEF Pushing, WInit, Syncer

LEMMA WriterKeepsPushing ==
    ASSUME Quiesced, Pushing, [Next]_vars, NEW j \in Job, Mutation(j)
    PROVE  Pushing'
<1> USE DEF Quiesced, Pushing, WTyped, vars, setting, lockVars, syncVars, WriterGoto
<1>1. UNCHANGED <<syncPc, phase, pushHead, pushed, pushFailed, log>> /\ (pushCh => pushCh')
  <2>1. UNCHANGED <<syncPc, phase, pushHead, pushed, pushFailed, log>>
    BY DEF Mutation, WriterStep, CardLock, PlaybookLock, WriterEnqueue, CardUnlock, CardAnswered,
       CardRollback, AnsweredLocked, Enqueue, EnqueueRefused, EnqueueAccepted
  <2>2. UNCHANGED pushCh \/ Notify(j)
    BY DEF Mutation, WriterStep, CardLock, PlaybookLock, WriterEnqueue, CardUnlock, CardAnswered,
       CardRollback, AnsweredLocked
  <2>3. Notify(j) => (pushCh => pushCh')
    BY Zenon DEF Notify
  <2>4. QED
    BY <2>1, <2>2, <2>3
<1>2. \A i \in Job : i # j => writer'[i] = writer[i]
  BY DEF Mutation, WriterStep, CardLock, PlaybookLock, WriterEnqueue, CardUnlock, CardAnswered,
     CardRollback, AnsweredLocked
<1>3. \A i \in Job : outcome[i] # "none" => outcome'[i] = outcome[i]
  BY AnswersAreFinal
<1>4. \A i \in Job : i # j => outcome'[i] = outcome[i]
  BY QueueAssumption DEF Mutation, WriterStep, CardLock, PlaybookLock, WriterEnqueue, CardUnlock,
     CardAnswered, CardRollback, AnsweredLocked, Enqueue, EnqueueRefused, EnqueueAccepted, Sound,
     Safe, Typed, TypeOK, jobVars
<1>5. /\ writer'[j] \in {"rollback", "done"} => outcome'[j] # "none"
      /\ writer'[j] = "rollback" => outcome'[j] # "nil"
      /\ Told(j)' => pushCh'
  <2>1. CASE CardLock(j) \/ PlaybookLock(j) \/ WriterEnqueue(j) \/ CardUnlock(j)
    <3>1. writer'[j] \notin {"rollback", "done"}
      BY <2>1 DEF CardLock, PlaybookLock, WriterEnqueue, CardUnlock
    <3>2. QED
      BY <3>1 DEF Told
  <2>2. CASE CardRollback(j)
    <3>1. writer[j] = "rollback" /\ outcome' = outcome
      BY <2>2 DEF CardRollback, jobVars
    <3>2. QED
      BY <3>1 DEF WriterKnows, Told
  <2>3. CASE CardAnswered(j) \/ AnsweredLocked(j)
    <3>1. /\ outcome[j] # "none" /\ outcome' = outcome /\ Notify(j)
          /\ writer'[j] = "rollback" => outcome[j] # "nil"
      BY <2>3 DEF CardAnswered, AnsweredLocked, jobVars
    <3>2. outcome[j] = "nil" /\ Notify(j) => pushCh'
      BY Zenon DEF Notify
    <3>3. QED
      BY <3>1, <3>2 DEF Told
  <2>4. QED
    BY <2>1, <2>2, <2>3 DEF Mutation, WriterStep
<1>6. \A i \in Job : Told(i)' => Told(i) \/ pushCh'
  BY <1>2, <1>4, <1>5 DEF Told
<1>7. WriterKnows'
  BY <1>2, <1>4, <1>5 DEF WriterKnows
<1>8. HeadRead'
  BY <1>1 DEF HeadRead, Committed
<1>9. OperationCovers'
  BY <1>1, <1>6 DEF OperationCovers, ListenerWillRead
<1>10. NotifiedIsPushed'
  BY <1>1, <1>6 DEF NotifiedIsPushed, Told
<1>11. QED
  BY <1>1, <1>7, <1>8, <1>9, <1>10

LEMMA SyncKeepsPushing ==
    ASSUME Quiesced, Pushing, NEW s \in Syncer,
           \/ Start(s) /\ (s # "listener" => UNCHANGED pushCh)
           \/ SyncStep(s)
    PROVE  Pushing'
<1> USE DEF Quiesced, Pushing, WTyped, SyncPcs, vars, setting, lockVars, syncVars, SyncGoto
<1>1. UNCHANGED <<writer, outcome, log>>
  BY DEF SyncStep, Start, SyncLockPlaybook, SyncLockWrites, SyncQuiesce, SyncOperate,
     SyncResume, SyncUnlockWrites, SyncEnd, Pause, DrainResume, Resume, quiet, jobVars
<1>2. WriterKnows' /\ Committed' = Committed /\ \A j \in Job : Told(j)' <=> Told(j)
  BY <1>1 DEF WriterKnows, Committed, Told
<1>3. CASE Start(s) /\ (s # "listener" => UNCHANGED pushCh)
  <2>1. /\ syncPc' = [syncPc EXCEPT ![s] = FirstStep(StartPhase(s))]
        /\ phase' = [phase EXCEPT ![s] = StartPhase(s)]
        /\ UNCHANGED <<pushHead, pushed, pushFailed>>
    BY <1>3 DEF Start
  <2>2. StartPhase(s) # "idle" /\ \A t \in {"listener", "final"} : StartPhase(t) \in {"cycle", "push"}
    BY DEF StartPhase
  <2>3. syncPc'[s] # "op" /\ \A t \in Syncer : syncPc'[t] = "op" => syncPc[t] = "op"
    BY <2>1 DEF FirstStep
  <2>4. s = "listener" => ListenerWillRead'
    BY <2>1, <2>2, <2>3 DEF ListenerWillRead
  <2>5. s # "listener" => UNCHANGED pushCh /\ phase'["listener"] = phase["listener"]
                          /\ syncPc'["listener"] = syncPc["listener"]
    BY <1>3, <2>1 DEF Syncer
  <2>6. HeadRead' /\ OperationCovers'
    BY <1>2, <2>1, <2>3, <2>4, <2>5 DEF HeadRead, OperationCovers, ListenerWillRead
  <2>7. NotifiedIsPushed'
    BY <1>1, <2>1, <2>4, <2>5 DEF NotifiedIsPushed, ListenerWillRead
  <2>8. \A t \in {"listener", "final"} : phase'[t] \notin {"pull", "manualPull"}
    BY <2>1, <2>2 DEF Syncer
  <2>9. QED
    BY <1>2, <2>6, <2>7, <2>8
<1>4. CASE SyncOperate(s)
  <2>1. /\ syncPc[s] = "quiescing" /\ syncPc' = [syncPc EXCEPT ![s] = "op"]
        /\ pushHead' = Committed
        /\ UNCHANGED <<phase, pushed, pushFailed, pushCh>>
    BY <1>4 DEF SyncOperate
  <2>2. \A j \in Job : Told(j) => j \in Committed
    BY DEF Told, Sound, Logged, AnswerIsTrue, InLog, Committed
  <2>3. HeadRead'
    BY <1>2, <2>1 DEF HeadRead
  <2>4. OperationCovers'
    BY <1>2, <2>1, <2>2 DEF OperationCovers
  <2>5. NotifiedIsPushed'
    BY <1>1, <2>1 DEF NotifiedIsPushed
  <2>6. QED
    BY <1>2, <2>1, <2>3, <2>4, <2>5
<1>5. CASE SyncResume(s)
  <2>1. /\ syncPc[s] = "op" /\ syncPc' = [syncPc EXCEPT ![s] = "resumed"]
        /\ UNCHANGED <<pushHead, pushCh>>
        /\ PushOk(s) \/ PushRejected(s) \/ PullOk(s) \/ SyncFailed(s)
    BY <1>5 DEF SyncResume
  <2>2. \A t \in Syncer : syncPc'[t] # "op"
    BY <2>1 DEF Locked, SyncLocks
  <2>3. pushed' = pushed \/ pushed' = pushHead
    BY <2>1 DEF PushOk, PushRejected, PullOk, SyncFailed
  <2>4. HeadRead' /\ OperationCovers'
    BY <1>2, <2>1, <2>2, <2>3 DEF HeadRead, OperationCovers
  <2>5. s # "listener" => phase'["listener"] = phase["listener"]
    BY <2>1 DEF PushOk, PushRejected, PullOk, SyncFailed, Syncer
  <2>6. ASSUME s \in {"listener", "final"} PROVE phase'[s] \notin {"pull", "manualPull"}
                                   /\ (PullOk(s) => phase'[s] = "retryPush")
    <3>1. PullOk(s) => phase[s] = "retryPull" /\ phase'[s] = "retryPush"
      BY <2>6 DEF PullOk, Pulls
    <3>2. QED
      BY <2>1, <3>1 DEF PushOk, PushRejected, SyncFailed
  <2>7. NotifiedIsPushed'
    <3> SUFFICES ASSUME NEW j \in Job, Told(j), ~pushFailed'
                 PROVE  j \in pushed' \/ pushCh' \/ phase'["listener"] # "idle"
      BY <1>2 DEF NotifiedIsPushed, Told
    <3>1. CASE PushOk(s)
      <4>1. pushed' = pushHead
        BY <3>1 DEF PushOk
      <4>2. j \in pushHead \/ pushCh \/ ListenerWillRead
        BY <2>1 DEF OperationCovers
      <4>3. QED
        BY <2>1, <2>5, <4>1, <4>2 DEF ListenerWillRead
    <3>2. CASE PushRejected(s) \/ PullOk(s) \/ SyncFailed(s)
      <4>1. ~pushFailed /\ pushed' = pushed
        <5>1. SyncFailed(s) => ~pushFailed
          BY Zenon DEF SyncFailed
        <5>2. PushRejected(s) \/ PullOk(s) => ~pushFailed
          BY DEF PushRejected, PullOk
        <5>3. pushed' = pushed
          BY <3>2 DEF PushRejected, PullOk, SyncFailed
        <5>4. QED
          BY <3>2, <5>1, <5>2, <5>3
      <4>2. j \in pushed \/ pushCh \/ phase["listener"] # "idle"
        BY <4>1 DEF NotifiedIsPushed, Told
      <4>3. s = "listener" => phase'["listener"] # "idle"
        <5>1. SyncFailed(s) /\ s = "listener" => pushFailed'
          BY Zenon DEF SyncFailed
        <5>2. QED
          BY <2>6, <3>2, <5>1 DEF PushRejected
      <4>4. QED
        BY <2>1, <2>5, <4>1, <4>2, <4>3
    <3>3. QED
      BY <2>1, <3>1, <3>2
  <2>8. \A t \in {"listener", "final"} : phase'[t] \notin {"pull", "manualPull"}
    <3>1. \A t \in Syncer : t # s => phase'[t] = phase[t]
      BY <2>1 DEF PushOk, PushRejected, PullOk, SyncFailed
    <3>2. QED
      BY <2>6, <3>1 DEF Syncer
  <2>9. QED
    BY <1>2, <2>4, <2>7, <2>8
<1>6. CASE SyncLockPlaybook(s) \/ SyncLockWrites(s) \/ SyncQuiesce(s) \/ SyncUnlockWrites(s)
           \/ SyncEnd(s)
  <2>1. /\ UNCHANGED <<phase, pushHead, pushed, pushFailed, pushCh>>
        /\ \A t \in Syncer : syncPc'[t] = "op" <=> syncPc[t] = "op"
    BY <1>6 DEF SyncLockPlaybook, SyncLockWrites, SyncQuiesce, SyncUnlockWrites, SyncEnd,
       FirstStep
  <2>2. syncPc'["listener"] = "op" <=> syncPc["listener"] = "op"
    BY <2>1 DEF Syncer
  <2>3. HeadRead' /\ OperationCovers' /\ NotifiedIsPushed'
    BY <1>1, <1>2, <2>1, <2>2 DEF HeadRead, OperationCovers, NotifiedIsPushed, ListenerWillRead
  <2>4. QED
    BY <1>2, <2>1, <2>3
<1>7. QED
  BY <1>3, <1>4, <1>5, <1>6 DEF SyncStep

LEMMA PushingStep == Quiesced /\ Pushing /\ [WNext]_wvars => Pushing'
<1> SUFFICES ASSUME Quiesced, Pushing, [WNext]_wvars PROVE Pushing'
  OBVIOUS
<1>1. [Next]_vars
  BY StepIsQueueStep
<1>2. ASSUME UNCHANGED <<writer, syncPc, phase, pushCh, pushHead, pushed, pushFailed>>
      PROVE  Pushing'
  <2>1. \A j \in Job : outcome[j] # "none" => outcome'[j] = outcome[j]
    BY <1>1, AnswersAreFinal DEF Quiesced
  <2>2. Committed \subseteq Committed'
    BY <1>1, AnswersAreFinal DEF Quiesced
  <2>3. WriterKnows' /\ \A j \in Job : Told(j)' => Told(j)
    BY <1>2, <2>1 DEF Pushing, WriterKnows, Told
  <2>4. HeadRead'
    BY <1>2, <2>2 DEF Pushing, HeadRead
  <2>5. OperationCovers' /\ NotifiedIsPushed'
    BY <1>2, <2>3 DEF Pushing, OperationCovers, NotifiedIsPushed, ListenerWillRead, Told
  <2>6. QED
    BY <1>2, <2>3, <2>4, <2>5 DEF Pushing
<1>3. CASE StopStep
  <2>1. CASE FinalPush
    BY <2>1, SyncKeepsPushing DEF FinalPush, Syncer
  <2>2. CASE ~FinalPush
    <3>1. UNCHANGED <<writer, syncPc, phase, pushCh, pushHead, pushed, pushFailed>>
      BY <1>3, <2>2 DEF StopStep, AppCancel, QueueClose, CloseReturned, CloseExpired, Exited,
         syncVars
    <3>2. QED
      BY <1>2, <3>1
  <2>3. QED
    BY <2>1, <2>2
<1>4. ASSUME NEW s \in Syncer, SyncBegin(s) PROVE Pushing'
  BY <1>4, SyncKeepsPushing DEF SyncBegin
<1>5. CASE UNCHANGED quiesceVars \/ Finished \/ UNCHANGED wvars
  BY <1>2, <1>5 DEF Finished, wvars, quiesceVars, syncVars
<1>6. QED
  BY <1>1, <1>3, <1>4, <1>5, WriterKeepsPushing, SyncKeepsPushing DEF WNext

-----------------------------------------------------------------------------
(* The shutdown.  Where Close returned in time HEAD no longer moves, so     *)
(* every operation that begins once the last push has begun reads all of it. *)

Frozen == flushed /\ stop = "pushing"
NotPushing == {"up", "stays", "cancelled", "closing", "syncers"}

ReadsAll ==
    /\ syncPc["final"] = "op" => pushHead = Committed
    /\ phase["final"] = "idle" =>
         /\ pushed = Committed \/ pushFailed
         /\ \A t \in Syncer : syncPc[t] = "op" => pushHead = Committed

Stopping ==
    /\ flushed => closer = "done"
    /\ stop \in NotPushing => phase["final"] = "idle" /\ syncPc["final"] = "idle"
    /\ flushed => stop \in {"syncers", "pushing", "down"}
    /\ Frozen => ReadsAll
    /\ FinalPushSendsAll

\* A queue that Close has drained stays as it is.
LEMMA DrainedQueueIsFrozen ==
    ASSUME Sound, [Next]_vars, closer = "done"
    PROVE  closer' = "done" /\ Committed' = Committed
<1>1. \A p \in Project : workerPc[p] \in {"none", "exited"}
  BY DEF Sound, Safe, Shutdown, CloserIsOnItsWay
<1>2. \A p \in Project : ~Execute(p)
  BY <1>1 DEF Execute, Goto
<1>3. UNCHANGED <<log, closer>>
  BY <1>2 DEF Next, vars, Enqueue, EnqueueRefused, EnqueueAccepted, Send, Cancel, Worker, Receive,
     Exit, WaitUnpaused, CheckCtx, MarkBusy, MarkIdle, Answer, Retire, Quiescer, Waiting, quiet,
     Pause, AwaitIdle, AwaitIdleExpired, DrainResume, DrainPoll, DrainTick, DrainPause,
     DrainExpired, Resume, Closer, CloseBegin, CloseChannels, CloseDone
<1>4. QED
  BY <1>3 DEF Committed

LEMMA StoppingInit == WInit => Stopping
<1> SUFFICES ASSUME WInit PROVE Stopping
  OBVIOUS
<1>1. stop \in {"up", "stays"}
  BY QuiesceAssumption DEF WInit
<1>2. QED
  BY <1>1 DEF WInit, Stopping, ReadsAll, Frozen, NotPushing, FinalPushSendsAll, Syncer

LEMMA StopKeepsStopping ==
    ASSUME Quiesced, Pushing, Stopping, StopStep, Committed' = Committed \/ ~flushed,
           flushed => closer' = "done"
    PROVE  Stopping'
<1> USE DEF Stopping, ReadsAll, Frozen, NotPushing, FinalPushSendsAll, StopGoto
<1>1. CASE AppCancel
  BY <1>1 DEF AppCancel, vars, syncVars, Committed
<1>2. CASE QueueClose
  BY <1>2 DEF QueueClose, syncVars
<1>3. CASE CloseReturned \/ CloseExpired
  BY <1>3 DEF CloseReturned, CloseExpired, vars, syncVars
<1>4. CASE FinalPush
  <2>1. /\ stop = "syncers" /\ stop' = "pushing" /\ UNCHANGED <<flushed, closer>>
        /\ phase' = [phase EXCEPT !["final"] = StartPhase("final")]
        /\ syncPc' = [syncPc EXCEPT !["final"] = FirstStep(StartPhase("final"))]
    BY <1>4 DEF FinalPush, Start, SyncGoto, vars
  <2>2. phase'["final"] # "idle" /\ syncPc'["final"] # "op"
    BY <2>1 DEF StartPhase, FirstStep, Quiesced, WTyped, Syncer
  <2>3. QED
    BY <2>1, <2>2
<1>5. CASE Exited
  <2>1. /\ stop' = "down"
        /\ UNCHANGED <<closer, log, flushed, shared, pushed, pushFailed>>
        /\ \/ stop = "syncers" /\ (shared \/ pushed = Committed)
           \/ stop = "pushing" /\ syncPc["final"] = "idle"
    BY <1>5 DEF Exited, vars, syncVars
  <2>2. Committed' = Committed
    BY <2>1 DEF Committed
  <2>3. stop = "pushing" => phase["final"] = "idle"
    BY <2>1 DEF Quiesced, Locked, PhasesFit, Syncer
  <2>4. FinalPushSendsAll'
    BY <2>1, <2>2, <2>3
  <2>5. QED
    BY <2>1, <2>4
<1>6. QED
  BY <1>1, <1>2, <1>3, <1>4, <1>5 DEF StopStep

LEMMA SyncKeepsStopping ==
    ASSUME Quiesced, Pushing, Stopping, stop # "down", NEW s \in Syncer,
           SyncBegin(s) \/ SyncStep(s), flushed => closer' = "done"
    PROVE  Stopping'
<1> USE DEF Quiesced, WTyped, SyncPcs, SyncGoto, Syncer, setting
<1>1. UNCHANGED <<stop, flushed, log>> /\ Committed' = Committed
  BY DEF SyncStep, SyncBegin, Start, SyncLockPlaybook, SyncLockWrites, SyncQuiesce,
     SyncOperate, SyncResume, SyncUnlockWrites, SyncEnd, Pause, DrainResume, Resume, quiet,
     vars, Committed
<1>2. s = "final" => syncPc["final"] # "idle" \/ phase["final"] # "idle"
  BY DEF SyncStep, SyncBegin, SyncLockPlaybook, SyncLockWrites, SyncQuiesce, SyncOperate,
     SyncResume, SyncUnlockWrites, SyncEnd
<1>3. stop \in NotPushing => s # "final"
  BY <1>2 DEF Stopping
<1>4. s # "final" => phase'["final"] = phase["final"] /\ syncPc'["final"] = syncPc["final"]
  <2>1. CASE SyncBegin(s) \/ SyncResume(s)
    BY <2>1 DEF SyncBegin, Start, SyncResume, PushOk, PushRejected, PullOk, SyncFailed
  <2>2. CASE SyncStep(s) /\ ~SyncResume(s)
    BY <2>2 DEF SyncStep, SyncLockPlaybook, SyncLockWrites, SyncQuiesce, SyncOperate,
       SyncUnlockWrites, SyncEnd
  <2>3. QED
    BY <2>1, <2>2
<1>5. SUFFICES ASSUME Frozen PROVE ReadsAll'
  <2>1. stop' \in NotPushing => phase'["final"] = "idle" /\ syncPc'["final"] = "idle"
    BY <1>1, <1>3, <1>4 DEF Stopping
  <2>2. FinalPushSendsAll'
    BY <1>1 DEF FinalPushSendsAll
  <2>3. Frozen' <=> Frozen
    BY <1>1 DEF Frozen
  <2>4. QED
    BY <1>1, <2>1, <2>2, <2>3 DEF Stopping
<1>6. CASE SyncOperate(s)
  BY <1>1, <1>4, <1>5, <1>6 DEF SyncOperate, Stopping, ReadsAll
<1>7. CASE SyncResume(s)
  <2>1. /\ syncPc[s] = "op" /\ UNCHANGED pushHead
        /\ PushOk(s) \/ PushRejected(s) \/ PullOk(s) \/ SyncFailed(s)
        /\ syncPc' = [syncPc EXCEPT ![s] = "resumed"]
    BY <1>7 DEF SyncResume
  <2>2. \A t \in Syncer : syncPc'[t] # "op"
    BY <2>1 DEF Locked, SyncLocks
  <2>3. ASSUME phase'["final"] = "idle" PROVE pushed' = Committed \/ pushFailed'
    <3>1. CASE PushOk(s)
      <4>1. pushed' = pushHead
        BY <3>1 DEF PushOk
      <4>2. pushHead = Committed
        BY <1>4, <1>5, <2>1, <2>3 DEF Stopping, ReadsAll
      <4>3. QED
        BY <4>1, <4>2
    <3>2. CASE PushRejected(s) \/ PullOk(s)
      <4>1. UNCHANGED <<pushed, pushFailed>>
        BY <3>2 DEF PushRejected, PullOk
      <4>2. s # "final"
        <5>1. SUFFICES ASSUME s = "final" PROVE FALSE
          OBVIOUS
        <5>2. phase[s] # "pull"
          BY <2>1, <5>1 DEF Pushing
        <5>3. QED
          BY <2>3, <3>2, <5>1, <5>2 DEF PushRejected, PullOk, Pulls
      <4>3. QED
        BY <1>4, <1>5, <2>3, <4>1, <4>2 DEF Stopping, ReadsAll
    <3>3. CASE SyncFailed(s)
      <4>1. pushed' = pushed
        BY <3>3 DEF SyncFailed
      <4>2. (pushFailed => pushFailed') /\ (phase[s] \notin {"pull", "manualPull"} => pushFailed')
        BY <3>3, Zenon DEF SyncFailed
      <4>3. s = "final" => phase[s] \notin {"pull", "manualPull"}
        BY DEF Pushing
      <4>4. QED
        BY <1>4, <1>5, <2>3, <4>1, <4>2, <4>3 DEF Stopping, ReadsAll
    <3>4. QED
      BY <2>1, <3>1, <3>2, <3>3
  <2>4. QED
    BY <1>1, <2>2, <2>3 DEF ReadsAll
<1>8. CASE SyncBegin(s) \/ SyncLockPlaybook(s) \/ SyncLockWrites(s) \/ SyncQuiesce(s)
           \/ SyncUnlockWrites(s) \/ SyncEnd(s)
  <2>1. /\ UNCHANGED <<pushHead, pushed, pushFailed>>
        /\ \A t \in Syncer : syncPc'[t] = "op" => syncPc[t] = "op"
    BY <1>8 DEF SyncBegin, Start, SyncLockPlaybook, SyncLockWrites, SyncQuiesce,
       SyncUnlockWrites, SyncEnd, FirstStep
  <2>2. phase'["final"] = "idle" => phase["final"] = "idle"
    BY <1>8 DEF SyncBegin, Start, StartPhase, SyncLockPlaybook, SyncLockWrites, SyncQuiesce,
       SyncUnlockWrites, SyncEnd
  <2>3. QED
    BY <1>1, <1>5, <2>1, <2>2 DEF Stopping, ReadsAll
<1>9. QED
  BY <1>6, <1>7, <1>8 DEF SyncStep

LEMMA StoppingStep == Quiesced /\ Pushing /\ Stopping /\ [WNext]_wvars => Stopping'
<1> SUFFICES ASSUME Quiesced, Pushing, Stopping, [WNext]_wvars PROVE Stopping'
  OBVIOUS
<1>1. flushed => closer' = "done" /\ Committed' = Committed
  BY StepIsQueueStep, DrainedQueueIsFrozen DEF Quiesced, Stopping
<1>2. ASSUME UNCHANGED <<shared, stop, flushed, syncPc, phase, pushHead, pushed, pushFailed>>
      PROVE  Stopping'
  BY <1>1, <1>2 DEF Stopping, ReadsAll, Frozen, NotPushing, FinalPushSendsAll
<1>3. ASSUME NEW j \in Job, Mutation(j) PROVE Stopping'
  <2>1. UNCHANGED <<setting, syncVars>>
    BY <1>3 DEF Mutation, WriterStep, CardLock, PlaybookLock, WriterEnqueue, CardUnlock,
       CardAnswered, CardRollback, AnsweredLocked
  <2>2. QED
    BY <1>2, <2>1 DEF setting, syncVars
<1>4. CASE (Queue /\ UNCHANGED quiesceVars) \/ Finished \/ UNCHANGED wvars
  BY <1>2, <1>4 DEF Finished, wvars, quiesceVars, setting, syncVars
<1>5. CASE StopStep
  BY <1>1, <1>5, StopKeepsStopping
<1>6. ASSUME stop # "down", NEW s \in Syncer, SyncBegin(s) \/ SyncStep(s) PROVE Stopping'
  BY <1>1, <1>6, SyncKeepsStopping
<1>7. QED
  BY <1>3, <1>4, <1>5, <1>6 DEF WNext

\* No commit is left behind.  A successful commit whose writer has notified is
\* pushed, unless a notification or a push that will still read HEAD is
\* outstanding, or the last push gave up; and the last push of a shutdown sends
\* all that Close has flushed.
THEOREM QuiesceCommitsReachRemote == WSpec => []CommitsReachRemote
<1>1. WInit => Pushing /\ Stopping
  BY PushingInit, StoppingInit
<1>2. Quiesced /\ (Pushing /\ Stopping) /\ [WNext]_wvars => (Pushing /\ Stopping)'
  BY PushingStep, StoppingStep
<1>3. Pushing /\ Stopping => CommitsReachRemote
  BY DEF Pushing, Stopping, CommitsReachRemote
<1>4. QED
  BY <1>1, <1>2, <1>3, QuiescedAlways, PTL DEF WSpec
=============================================================================
