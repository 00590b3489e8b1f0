-------------------------- MODULE CardClaimsProofs --------------------------
(***************************************************************************)
(* Proofs about CardClaims: types, a cancelled card is unclaimed, an       *)
(* acknowledged claim holds, every dirty file is accounted for, no edit is *)
(* left behind, and the sweep stalls nobody who is alive.                  *)
(***************************************************************************)
EXTENDS CardClaims, SequenceTheorems, TLAPS

Kind == {"none", "claim", "heartbeat", "other"}

LEMMA Constants ==
    /\ Nobody \notin Agent \cup Caller /\ Sweeper \in Caller /\ Op \subseteq Caller
    /\ Sweeper \notin Op /\ MaxTime \in Nat /\ Timeout \in Nat
    /\ \A p \in DOMAIN Plans : Plans[p].until \in 0..MaxTime
    /\ NewCard \in Card /\ Idle \in Call
BY ClaimAssumption DEF ClaimAssumption, Caller, NewCard, Idle, Card, Call, State,
       WorkerStatus, LiveWorker, Time, Flush

-----------------------------------------------------------------------------
(* What every operation is: one Write, of a card that keeps the claim's     *)
(* history, is unclaimed if it is cancelled and as alive as its agent.      *)

Sound(card) == card.state = "not_planned" => card.agent = Nobody

\* A claimed card's heartbeat is no older than its agent's last sign of life.
Timely(card, s) == card.agent # Nobody => s <= card.beat

\* Nobody holds the card and no worker is about to run it.
Unowned(card) == card.agent = Nobody /\ card.worker \notin LiveWorker

\* A write that leaves a card unowned flushes, commits at once what was unowned
\* before, or is a promotion.
Left(card, immediate, flush) ==
    Unowned(card) /\ flush = "none" /\ ~promoted' => Unowned(store) /\ ~Defers(immediate)

\* A step of the service is the Write of some call; the sweep's is a stall.
ServiceWrite(c, kind, card, immediate, flush) ==
    /\ Write(c, kind, card, immediate, flush)
    /\ c \in Op \/ Stall
    /\ Timely(store, sign) => Timely(card, sign')
    /\ Sound(store) => Sound(card)
    /\ Left(card, immediate, flush) /\ (promoted => promoted')
    /\ store.agent = claimant => card.agent = claimant'
    /\ claimant' \in Agent \cup {Nobody} /\ confirmed' \in BOOLEAN
    /\ sign' \in Time /\ promoted' \in BOOLEAN
    /\ candidate' \in [kind : {"none", "claimed", "abandoned"}, cutoff : Int]

ServiceStep ==
    \E c \in Caller, kind \in Kind, card \in Card, immediate \in BOOLEAN, flush \in Flush :
        ServiceWrite(c, kind, card, immediate, flush)

\* The cards the operations write are cards, and claimed as before unless the
\* operation clears the claim.
LEMMA EditedCard ==
    ASSUME CTypeOK, NEW c \in Caller, NEW card \in Card
    PROVE  /\ Edited(c, card) \in Card
           /\ Edited(c, card).state = card.state /\ Edited(c, card).agent = card.agent
           /\ Edited(c, card).beat = card.beat /\ Edited(c, card).worker = card.worker
BY DEF CTypeOK, Edited, Card

LEMMA ClearedCard ==
    ASSUME NEW card \in Card
    PROVE  /\ Cleared(card) \in Card
           /\ Cleared(card).state = card.state /\ Cleared(card).agent = Nobody
<1>1. 0 \in Time
  BY Constants DEF Time
<1> QED
  BY <1>1 DEF Cleared, Card

LEMMA PresumedDeadCard ==
    ASSUME NEW card \in Card
    PROVE  /\ PresumedDead(card) \in Card
           /\ PresumedDead(card).state = card.state /\ PresumedDead(card).agent = card.agent
BY DEF PresumedDead, Card, WorkerStatus, LiveWorker

LEMMA SettledCard ==
    ASSUME NEW card \in Card
    PROVE  /\ Settled(card) \in Card /\ Settled(card).state = card.state
           /\ Settled(card).agent = IF card.state = "not_planned" THEN Nobody ELSE card.agent
           /\ card.state # "not_planned" =>
                /\ Settled(card).beat = card.beat
                /\ Settled(card).worker \in LiveWorker <=> card.worker \in LiveWorker
BY ClearedCard DEF Settled, Card, WorkerStatus, LiveWorker

LEMMA EditedByCard ==
    ASSUME CTypeOK, NEW c \in Caller, NEW a
    PROVE  /\ EditedBy(c, a) \in Card
           /\ EditedBy(c, a).state = store.state /\ EditedBy(c, a).agent = store.agent
           /\ EditedBy(c, a).beat = IF a # Nobody THEN now ELSE store.beat
           /\ EditedBy(c, a).worker = store.worker
<1>1. Edited(c, store) \in Card /\ Edited(c, store).state = store.state
      /\ Edited(c, store).agent = store.agent /\ Edited(c, store).beat = store.beat
      /\ Edited(c, store).worker = store.worker
  BY EditedCard DEF CTypeOK
<1> QED
  BY <1>1 DEF EditedBy, Card, CTypeOK

LEMMA AgentStep ==
    ASSUME CTypeOK, NEW o \in Op, NEW a \in Agent, ByAgent(o, a)
    PROVE  ServiceStep
<1> USE Constants
<1> DEFINE e == Edited(o, store)
<1>1. /\ e \in Card /\ e.state = store.state /\ e.agent = store.agent /\ e.beat = store.beat
      /\ now \in Int /\ now <= now
  BY EditedCard DEF CTypeOK, Time
<1>2. CASE ClaimCard(o, a)
  <2> DEFINE card == [e EXCEPT !.agent = a, !.beat = now]
  <2>1. card \in Card /\ card.agent = a /\ card.state = store.state /\ card.beat = now
    BY <1>1 DEF Card, CTypeOK
  <2>2. Sound(store) => Sound(card)
    BY <1>2, <2>1 DEF ClaimCard, Sound, Terminal
  <2>3. store.agent = claimant => card.agent = claimant'
    BY <1>2, <2>1 DEF ClaimCard
  <2>4. Write(o, "claim", card, FALSE, "none")
    BY <1>2 DEF ClaimCard
  <2> HIDE DEF card
  <2>5. ServiceWrite(o, "claim", card, FALSE, "none")
    BY <1>1, <1>2, <2>1, <2>2, <2>3, <2>4 DEF ClaimCard, ServiceWrite, Left, Unowned,
         CTypeOK, Timely
  <2> QED
    BY <2>1, <2>5 DEF ServiceStep, Kind, Flush
<1>3. CASE ReleaseCard(o, a)
  <2>1. Cleared(e) \in Card /\ Cleared(e).agent = Nobody
    BY <1>1, ClearedCard
  <2>2. Write(o, "other", Cleared(e), FALSE, "locked")
    BY <1>3 DEF ReleaseCard
  <2> HIDE DEF e
  <2>3. ServiceWrite(o, "other", Cleared(e), FALSE, "locked")
    BY <1>3, <2>1, <2>2 DEF ReleaseCard, EndClaim, ServiceWrite, Left, Unowned,
         CTypeOK, Sound, Timely
  <2> QED
    BY <2>1, <2>3 DEF ServiceStep, Kind, Flush
<1>4. CASE HeartbeatCard(o, a)
  <2> DEFINE card == [e EXCEPT !.beat = now]
  <2>1. card \in Card /\ card.agent = store.agent /\ card.state = store.state /\ card.beat = now
    BY <1>1 DEF Card, CTypeOK
  <2>2. Write(o, "heartbeat", card, FALSE, "none")
    BY <1>4 DEF HeartbeatCard
  <2> HIDE DEF card
  <2>3. ServiceWrite(o, "heartbeat", card, FALSE, "none")
    BY <1>1, <1>4, <2>1, <2>2 DEF HeartbeatCard, SignOfLife, ServiceWrite, Left, Unowned,
         CTypeOK, Sound, Timely
  <2> QED
    BY <2>1, <2>3 DEF ServiceStep, Kind, Flush
<1>5. CASE ReportUsage(o, a)
  <2> DEFINE card == EditedBy(o, store.agent)
             flush == IF store.agent = Nobody THEN "after" ELSE "none"
  <2>1. /\ card \in Card /\ card.agent = store.agent /\ card.state = store.state
        /\ card.agent # Nobody => card.beat = now
    BY EditedByCard
  <2>2. Write(o, "other", card, FALSE, flush) /\ flush \in Flush
    BY <1>5 DEF ReportUsage, Flush
  <2> HIDE DEF card, flush
  <2>3. ServiceWrite(o, "other", card, FALSE, flush)
    <3>1. flush = "none" => card.agent # Nobody
      BY <2>1 DEF flush
    <3> QED
      BY <1>1, <1>5, <2>1, <2>2, <3>1 DEF ReportUsage, SignOfLife, KeepClaim, ServiceWrite,
           Left, Unowned, CTypeOK, Sound, Timely
  <2> QED
    BY <2>1, <2>2, <2>3 DEF ServiceStep, Kind
<1>6. CASE ReportParked(o, a)
  <2> DEFINE card == [e EXCEPT !.worker = "parked"]
  <2>1. /\ card \in Card /\ card.agent = store.agent /\ card.state = store.state
        /\ card.beat = store.beat
    BY <1>1 DEF Card, WorkerStatus
  <2>2. Write(o, "other", card, FALSE, "none")
    BY <1>6 DEF ReportParked
  <2> HIDE DEF card
  <2>3. ServiceWrite(o, "other", card, FALSE, "none")
    BY <1>6, <2>1, <2>2 DEF ReportParked, KeepClaim, ServiceWrite, Left, Unowned,
         CTypeOK, Sound, Timely
  <2> QED
    BY <2>1, <2>3 DEF ServiceStep, Kind, Flush
<1>7. CASE RecordPush(o, a)
  <2>1. Write(o, "other", e, FALSE, "none")
    BY <1>7 DEF RecordPush
  <2> HIDE DEF e
  <2>2. ServiceWrite(o, "other", e, FALSE, "none")
    BY <1>1, <1>7, <2>1 DEF RecordPush, KeepClaim, ServiceWrite, Left, Unowned,
         CTypeOK, Sound, Timely
  <2> QED
    BY <1>1, <2>2 DEF ServiceStep, Kind, Flush
<1> QED
  BY <1>2, <1>3, <1>4, <1>5, <1>6, <1>7 DEF ByAgent

LEMMA MutateStep ==
    ASSUME CTypeOK, NEW o \in Op, NEW a \in Agent \cup {Nobody}, NEW to \in State,
           Mutate(o, a, to)
    PROVE  ServiceStep
<1> USE Constants
<1> DEFINE edited == [EditedBy(o, a) EXCEPT !.state = to]
           moved == to # store.state
           card == IF moved THEN Settled(edited) ELSE edited
           flush == IF moved THEN FlushOnMove(to) ELSE "none"
           immediate == store.agent = Nobody
<1>1. /\ edited \in Card /\ edited.agent = store.agent /\ edited.state = to
      /\ edited.beat = IF a # Nobody THEN now ELSE store.beat
      /\ edited.worker = store.worker
  BY EditedByCard DEF Card
<1>2. /\ card \in Card /\ card.state = to
      /\ card.agent = IF moved /\ to = "not_planned" THEN Nobody ELSE store.agent
      /\ ~(moved /\ to = "not_planned") =>
           /\ card.beat = IF a # Nobody THEN now ELSE store.beat
           /\ card.worker \in LiveWorker <=> store.worker \in LiveWorker
  <2> HIDE DEF edited
  <2> QED
    BY <1>1, SettledCard
<1>3. /\ Write(o, "other", card, immediate, flush)
      /\ IF moved /\ to = "not_planned" THEN EndClaim
         ELSE IF a # Nobody THEN SignOfLife(a) ELSE KeepClaim
      /\ UNCHANGED candidate
  BY DEF Mutate
<1>4. flush \in Flush /\ immediate \in BOOLEAN
  BY DEF FlushOnMove, Flush
<1>9. /\ moved /\ to = "not_planned" => flush = "locked"
      /\ store.agent = Nobody => immediate
  BY DEF FlushOnMove
<1> HIDE DEF card, flush, immediate
<1>5. claimant' = IF moved /\ to = "not_planned" THEN Nobody ELSE claimant
  BY <1>3 DEF EndClaim, SignOfLife, KeepClaim
<1>6. /\ claimant' \in Agent \cup {Nobody} /\ confirmed' \in BOOLEAN
      /\ sign' \in Time /\ promoted' \in BOOLEAN
  BY <1>3, <1>5 DEF EndClaim, SignOfLife, KeepClaim, CTypeOK
<1>7. Timely(store, sign) => Timely(card, sign')
  BY <1>2, <1>3 DEF Timely, EndClaim, SignOfLife, KeepClaim, CTypeOK, Time
<1>10. promoted => promoted'
  BY <1>3 DEF EndClaim, SignOfLife, KeepClaim
<1>11. Left(card, immediate, flush)
  BY <1>2, <1>9 DEF Left, Unowned, Defers
<1>8. ServiceWrite(o, "other", card, immediate, flush)
  BY <1>2, <1>3, <1>5, <1>6, <1>7, <1>10, <1>11 DEF ServiceWrite, CTypeOK, Sound
<1> QED
  BY <1>2, <1>4, <1>8 DEF ServiceStep, Kind

LEMMA WorkerStep ==
    ASSUME CTypeOK, NEW o \in Op, NEW p \in DOMAIN Plans, NEW report \in Plans[p].reports,
           UpdateWorkerStatus(o, report)
    PROVE  ServiceStep
<1> USE Constants
<1>1. report \in LiveWorker \cup TerminalReports
  BY ClaimAssumption DEF ClaimAssumption
<1> DEFINE st == IF report \in {"failed", "killed"} /\ store.state \in Terminal
                 THEN "completed" ELSE report
           ends == st \in TerminalReports
           shown == IF st # "completed" THEN st
                    ELSE IF store.worker = "parked" THEN "parked" ELSE ""
           edited == [Edited(o, store) EXCEPT !.worker = shown]
           card == IF ends THEN Cleared(edited) ELSE edited
           flush == IF ends THEN "locked" ELSE "none"
<1>2. shown \in WorkerStatus /\ (~ends => shown \in LiveWorker)
  BY <1>1 DEF WorkerStatus, LiveWorker, TerminalReports
<1>3. /\ edited \in Card /\ edited.agent = store.agent /\ edited.state = store.state
      /\ edited.beat = store.beat /\ edited.worker = shown
  <2>1. Edited(o, store) \in Card /\ Edited(o, store).state = store.state
        /\ Edited(o, store).agent = store.agent /\ Edited(o, store).beat = store.beat
    BY EditedCard DEF CTypeOK
  <2> HIDE DEF shown
  <2> QED
    BY <1>2, <2>1 DEF Card
<1>4. /\ Write(o, "other", card, FALSE, flush)
      /\ IF ends THEN EndClaim ELSE KeepClaim
      /\ UNCHANGED candidate
  BY DEF UpdateWorkerStatus
<1>5. flush \in Flush /\ (ends => flush = "locked")
  BY DEF Flush
<1>8. ~ends => edited.worker \in LiveWorker
  BY <1>2, <1>3
<1> HIDE DEF ends, edited, flush
<1>6. /\ card \in Card /\ card.state = store.state
      /\ card.agent = IF ends THEN Nobody ELSE store.agent
      /\ ~ends => card.beat = store.beat /\ card.worker \in LiveWorker
  BY <1>3, <1>8, ClearedCard
<1> HIDE DEF card
<1>7. ServiceWrite(o, "other", card, FALSE, flush)
  BY <1>4, <1>5, <1>6 DEF ServiceWrite, Left, Unowned, EndClaim, KeepClaim, CTypeOK, Sound,
       Timely
<1> QED
  BY <1>5, <1>6, <1>7 DEF ServiceStep, Kind

LEMMA OtherStep ==
    ASSUME CTypeOK,
           Stall \/ \E o \in Op : ForceReleaseCard(o) \/ PromoteToAutonomous(o)
    PROVE  ServiceStep
<1> USE Constants
<1>1. ASSUME NEW o \in Op, ForceReleaseCard(o) PROVE ServiceStep
  <2> DEFINE card == PresumedDead(Cleared(Edited(o, store)))
  <2>1. card \in Card /\ card.agent = Nobody
    BY EditedCard, ClearedCard, PresumedDeadCard DEF CTypeOK
  <2>2. Write(o, "other", card, FALSE, "after")
    BY <1>1 DEF ForceReleaseCard
  <2> HIDE DEF card
  <2>3. ServiceWrite(o, "other", card, FALSE, "after")
    BY <1>1, <2>1, <2>2 DEF ForceReleaseCard, EndClaim, ServiceWrite, Left, Unowned,
         CTypeOK, Sound, Timely
  <2> QED
    BY <2>1, <2>3 DEF ServiceStep, Kind, Flush
<1>2. ASSUME NEW o \in Op, PromoteToAutonomous(o) PROVE ServiceStep
  <2>1. Edited(o, store) \in Card /\ Edited(o, store).state = store.state
        /\ Edited(o, store).agent = store.agent /\ Edited(o, store).beat = store.beat
        /\ Edited(o, store).worker = store.worker
    BY EditedCard DEF CTypeOK
  <2>2. /\ promoted' \in BOOLEAN /\ (promoted => promoted')
        /\ gitDeferred /\ store.agent = Nobody => promoted'
    BY <1>2 DEF PromoteToAutonomous, CTypeOK
  <2>4. Left(Edited(o, store), FALSE, "none")
    BY <2>1, <2>2 DEF Left, Unowned, Defers
  <2>3. ServiceWrite(o, "other", Edited(o, store), FALSE, "none")
    BY <1>2, <2>1, <2>2, <2>4 DEF PromoteToAutonomous, ServiceWrite, CTypeOK, Sound, Timely
  <2> QED
    BY <2>1, <2>3 DEF ServiceStep, Kind, Flush
<1>3. CASE Stall
  <2> DEFINE stalled == [Edited(Sweeper, store) EXCEPT !.state = "stalled"]
             card == PresumedDead(Cleared(stalled))
  <2>1. stalled \in Card
    BY EditedCard DEF CTypeOK, Card, State
  <2> HIDE DEF stalled
  <2>2. card \in Card /\ card.agent = Nobody
    BY <2>1, ClearedCard, PresumedDeadCard
  <2>3. Write(Sweeper, "other", card, FALSE, "after")
    BY <1>3 DEF Stall, stalled
  <2> HIDE DEF card
  <2>4. candidate' \in [kind : {"none", "claimed", "abandoned"}, cutoff : Int]
    BY <1>3 DEF Stall, NoCandidate
  <2>5. ServiceWrite(Sweeper, "other", card, FALSE, "after")
    BY <1>3, <2>2, <2>3, <2>4, Constants DEF Stall, EndClaim, ServiceWrite, Left, Unowned,
         CTypeOK, Sound, Timely
  <2> QED
    BY <2>2, <2>5 DEF ServiceStep, Kind, Flush
<1> QED
  BY <1>1, <1>2, <1>3

\* Every operation of an agent, a person, the backend or the sweep.
LEMMA OperationsWrite ==
    ASSUME CTypeOK, Stall \/ \E o \in Op : Called(o)
    PROVE  ServiceStep
<1>1. plan \in DOMAIN Plans
  BY DEF CTypeOK
<1> QED
  BY <1>1, AgentStep, MutateStep, WorkerStep, OtherStep DEF Called

-----------------------------------------------------------------------------
(* Types.                                                                   *)

Commits == Seq(Caller \X {"card", "flush"})

\* The queue q with the call's own commit and flush, where it has them.
Handed(q, c, defers, flushes) ==
    (q \o IF defers THEN <<>> ELSE <<<<c, "card">>>>)
       \o IF flushes THEN <<<<c, "flush">>>> ELSE <<>>

\* What a Write leaves in each variable that it changes, when it queues its own
\* commit or defers it, and when it flushes or not.
WroteAs(c, card, defers, flushes) ==
    /\ store' = card /\ head' = head /\ flushed' = [flushed EXCEPT ![c] = "none"]
    /\ writeMu = Nobody /\ call[c].pc = "idle"
    /\ writeMu' = IF flushes THEN c ELSE Nobody
    /\ queue' = Handed(queue, c, defers, flushes)
    /\ deferred' \in BOOLEAN /\ (deferred \/ defers \/ flushes => deferred')
    /\ answer' \in [Caller -> Answers]
    /\ \A d \in Caller : answer'[d] = answer[d] \/ answer'[d] \in {"nil", "none"}
    /\ \E r \in Call :
         /\ call' = [call EXCEPT ![c] = r] /\ r.read = store
         /\ r.pc = IF flushes THEN "flushing" ELSE "awaiting"
         /\ r.flush = "after" => ~flushes
    /\ UNCHANGED <<plan, now, gitDeferred, flushLost>>

LEMMA Written ==
    ASSUME CTypeOK, NEW c \in Caller, NEW kind \in Kind, NEW card \in Card,
           NEW immediate \in BOOLEAN, NEW flush \in Flush,
           Write(c, kind, card, immediate, flush)
    PROVE  \E defers, flushes \in BOOLEAN : WroteAs(c, card, defers, flushes)
<1> DEFINE defers == Defers(immediate)
           flushes == flush = "locked" /\ gitDeferred /\ (deferred \/ defers)
           r == [pc |-> IF flushes THEN "flushing" ELSE "awaiting", kind |-> kind,
                 read |-> store, flush |-> IF flush = "after" THEN "after" ELSE "none"]
<1>1. defers \in BOOLEAN /\ flushes \in BOOLEAN
  BY DEF Defers, CTypeOK
<1>2. r \in Call /\ r.read = store /\ r.pc = (IF flushes THEN "flushing" ELSE "awaiting")
      /\ (r.flush = "after" => ~flushes)
  BY DEF Call, CTypeOK, Flush, Kind
<1>3. /\ store' = card /\ head' = head /\ flushed' = [flushed EXCEPT ![c] = "none"]
      /\ writeMu = Nobody /\ call[c].pc = "idle"
      /\ writeMu' = (IF flushes THEN c ELSE Nobody)
      /\ deferred' = (deferred \/ defers)
      /\ answer' = [answer EXCEPT ![c] = IF defers THEN "nil" ELSE "none"]
      /\ call' = [call EXCEPT ![c] = r]
      /\ queue' = (queue \o IF defers THEN <<>> ELSE <<<<c, "card">>>>)
                   \o IF flushes THEN <<<<c, "flush">>>> ELSE <<>>
      /\ UNCHANGED <<plan, now, gitDeferred, flushLost>>
  BY DEF Write
<1>4. /\ answer' \in [Caller -> Answers]
      /\ \A d \in Caller : answer'[d] = answer[d] \/ answer'[d] \in {"nil", "none"}
  BY <1>1, <1>3 DEF CTypeOK, Answers
<1>5. deferred' \in BOOLEAN /\ (deferred \/ defers \/ flushes => deferred')
  BY <1>1, <1>3 DEF CTypeOK
<1> HIDE DEF r, flushes, defers
<1>6. queue' = Handed(queue, c, defers, flushes)
  BY <1>1, <1>3 DEF Handed
<1>8. \E s \in Call :
        /\ call' = [call EXCEPT ![c] = s] /\ s.read = store
        /\ s.pc = IF flushes THEN "flushing" ELSE "awaiting"
        /\ s.flush = "after" => ~flushes
  BY <1>2, <1>3
<1>9. WroteAs(c, card, defers, flushes)
  BY <1>3, <1>4, <1>5, <1>6, <1>8 DEF WroteAs
<1> QED
  BY <1>1, <1>9

LEMMA QueueTyped ==
    ASSUME NEW q \in Commits, NEW c \in Caller, NEW defers \in BOOLEAN, NEW flushes \in BOOLEAN
    PROVE  Handed(q, c, defers, flushes) \in Commits
<1> DEFINE T == Caller \X {"card", "flush"}
           first == IF defers THEN <<>> ELSE <<<<c, "card">>>>
           second == IF flushes THEN <<<<c, "flush">>>> ELSE <<>>
<1>1. first \in Seq(T) /\ second \in Seq(T)
  <2>1. <<c, "card">> \in T /\ <<c, "flush">> \in T
    OBVIOUS
  <2> HIDE DEF T
  <2> QED
    BY <2>1
<1>2. q \in Seq(T)
  BY DEF Commits
<1> HIDE DEF first, second, T
<1>3. q \o first \in Seq(T)
  BY <1>1, <1>2, ConcatProperties
<1>4. (q \o first) \o second \in Seq(T)
  BY <1>1, <1>3, ConcatProperties
<1> QED
  BY <1>4 DEF Commits, T, first, second, Handed

LEMMA TypeService ==
    ASSUME CTypeOK, ServiceStep
    PROVE  CTypeOK'
<1> USE Constants
<1>1. PICK c \in Caller, kind \in Kind, card \in Card, immediate \in BOOLEAN, flush \in Flush :
        ServiceWrite(c, kind, card, immediate, flush)
  BY DEF ServiceStep
<1>2. PICK defers, flushes \in BOOLEAN : WroteAs(c, card, defers, flushes)
  BY <1>1, Written DEF ServiceWrite
<1>3. queue' \in Commits
  <2>1. queue \in Commits
    BY DEF CTypeOK, Commits
  <2> QED
    BY <1>2, <2>1, QueueTyped DEF WroteAs
<1>4. PICK r \in Call : call' = [call EXCEPT ![c] = r]
  BY <1>2 DEF WroteAs
<1>5. call' \in [Caller -> Call] /\ flushed' \in [Caller -> Answers]
      /\ writeMu' \in Caller \cup {Nobody}
  BY <1>2, <1>4 DEF CTypeOK, Answers, WroteAs
<1> QED
  BY <1>1, <1>2, <1>3, <1>5 DEF CTypeOK, ServiceWrite, WroteAs, Commits, Time

LEMMA TypeInit == Init => CTypeOK
<1> SUFFICES ASSUME Init PROVE CTypeOK
  OBVIOUS
<1>1. queue \in Seq(Caller \X {"card", "flush"})
  BY EmptySeq DEF Init
<1>2. 0 \in Time /\ call \in [Caller -> Call] /\ store \in Card /\ head \in Card
  BY Constants DEF Init, Time
<1>3. /\ answer \in [Caller -> Answers] /\ flushed \in [Caller -> Answers]
      /\ candidate \in [kind : {"none", "claimed", "abandoned"}, cutoff : Int]
  BY DEF Init, Answers, NoCandidate
<1> QED
  BY <1>1, <1>2, <1>3 DEF Init, CTypeOK

LEMMA EndedCall == \A c \in Caller : Ended(c) \in Call /\ Ended(c).read = NewCard
                     /\ Ended(c).pc \in {"idle", "done"} /\ Ended(c).flush = "none"
BY Constants DEF Ended, Idle, Call, Flush

\* The head of the queue, and what remains.
LEMMA QueueHead ==
    ASSUME CTypeOK, queue # <<>>
    PROVE  /\ Head(queue)[1] \in Caller /\ Head(queue)[2] \in {"card", "flush"}
           /\ Head(queue) = queue[1] /\ Tail(queue) \in Commits
           /\ Len(queue) \in Nat \ {0} /\ Len(Tail(queue)) = Len(queue) - 1
           /\ \A n \in 1..Len(Tail(queue)) : Tail(queue)[n] = queue[n + 1]
BY DEF CTypeOK, Commits

\* Where FlushAfter leaves the calls.
LEMMA FlushAfterCall ==
    ASSUME CTypeOK, NEW c \in Caller, FlushAfter(c)
    PROVE  /\ \A d \in Caller : d # c => call'[d] = call[d]
           /\ call'[c].read = call[c].read /\ call'[c].flush = "none"
           /\ call'[c].pc = IF gitDeferred /\ deferred THEN "flushing" ELSE "awaiting"
<1>1. call[c] \in Call /\ call \in [Caller -> Call] /\ call[c].pc = "awaiting"
  BY DEF CTypeOK, FlushAfter
<1>2. CASE gitDeferred /\ deferred
  <2>1. call' = [call EXCEPT ![c].flush = "none", ![c].pc = "flushing"]
    BY <1>2 DEF FlushAfter
  <2>2. call'[c] = [call[c] EXCEPT !.flush = "none", !.pc = "flushing"]
    BY <1>1, <2>1
  <2>3. \A d \in Caller : d # c => call'[d] = call[d]
    BY <1>1, <2>1
  <2> QED
    BY <1>1, <1>2, <2>2, <2>3 DEF Call
<1>3. CASE ~(gitDeferred /\ deferred)
  <2>1. call' = [call EXCEPT ![c].flush = "none"]
    BY <1>3 DEF FlushAfter
  <2> QED
    BY <1>1, <1>3, <2>1 DEF Call
<1> QED
  BY <1>2, <1>3

LEMMA TypeStep == CTypeOK /\ [Next]_vars => CTypeOK'
<1> USE Constants
<1> SUFFICES ASSUME CTypeOK, [Next]_vars PROVE CTypeOK'
  OBVIOUS
<1>1. CASE Stall \/ \E o \in Op : Called(o)
  BY <1>1, OperationsWrite, TypeService
<1>2. CASE Scan
  BY <1>2 DEF Scan, FindStalled, FindAbandoned, CTypeOK, commitVars, ghosts, Time
<1>3. CASE SkipStall
  BY <1>3 DEF SkipStall, NoCandidate, CTypeOK, commitVars, ghosts, Time
<1>4. CASE Serve
  <2>1. head' \in Card /\ queue' \in Commits
    BY <1>4, QueueHead DEF Serve, CTypeOK
  <2>2. answer' \in [Caller -> Answers] /\ flushed' \in [Caller -> Answers]
    BY <1>4, QueueHead DEF Serve, CTypeOK, Answers
  <2> QED
    BY <1>4, <2>1, <2>2 DEF Serve, CTypeOK, Commits, ghosts, Time
<1>5. ASSUME NEW c \in Caller, Answered(c) PROVE CTypeOK'
  <2>1. CASE Flushed(c)
    <3>1. call' \in [Caller -> Call]
      BY <2>1 DEF Flushed, CTypeOK, Call
    <3> QED
      BY <2>1, <3>1 DEF Flushed, CTypeOK, commitVars, Time
  <2>2. CASE Committed(c)
    BY <2>2, EndedCall DEF Committed, Finish, CTypeOK, Answers, Time
  <2>3. CASE FlushAfter(c)
    <3>1. call' \in [Caller -> Call]
      <4>1. \A d \in Caller : [call[d] EXCEPT !.flush = "none"] \in Call
                             /\ [call[d] EXCEPT !.flush = "none", !.pc = "flushing"] \in Call
        BY DEF CTypeOK, Call, Flush
      <4> QED
        BY <2>3, <4>1 DEF FlushAfter, CTypeOK
    <3>2. queue' \in Commits /\ writeMu' \in Caller \cup {Nobody}
      <4> DEFINE T == Caller \X {"card", "flush"}
      <4>1. queue \in Seq(T) /\ <<c, "flush">> \in T
        BY DEF CTypeOK
      <4>2. Append(queue, <<c, "flush">>) \in Seq(T)
        <5> HIDE DEF T
        <5> QED
          BY <4>1, AppendProperties
      <4> QED
        BY <2>3, <4>1, <4>2 DEF FlushAfter, CTypeOK, Commits
    <3> QED
      BY <2>3, <3>1, <3>2 DEF FlushAfter, CTypeOK, Commits, ghosts, Time
  <2>4. CASE Failed(c)
    <3>1. /\ call' \in [Caller -> Call]
          /\ answer' \in [Caller -> Answers] /\ flushed' \in [Caller -> Answers]
      <4>1. [call[c] EXCEPT !.pc = "rollback"] \in Call
        BY DEF CTypeOK, Call
      <4> QED
        BY <2>4, <4>1, EndedCall DEF Failed, Finish, CTypeOK, Answers
    <3> QED
      BY <2>4, <3>1 DEF Failed, CTypeOK, ghosts, Time
  <2>5. CASE Rollback(c)
    <3>1. store' \in Card
      BY <2>5 DEF Rollback, CTypeOK, Call
    <3> QED
      BY <2>5, <3>1, EndedCall DEF Rollback, Finish, CTypeOK, Answers, ghosts, Time
  <2> QED
    BY <1>5, <2>1, <2>2, <2>3, <2>4, <2>5 DEF Answered
<1>6. CASE Tick
  <2>1. now' \in Time
    BY <1>6 DEF Tick, CTypeOK, Time
  <2> QED
    BY <1>6, <2>1 DEF Tick, CTypeOK, commitVars, ghosts, Time
<1>7. CASE Restart
  <2>1. queue' \in Seq(Caller \X {"card", "flush"})
    BY <1>7, EmptySeq DEF Restart
  <2>2. call' \in [Caller -> Call]
    BY <1>7, EndedCall DEF Restart
  <2>3. answer' \in [Caller -> Answers] /\ flushed' \in [Caller -> Answers]
    BY <1>7 DEF Restart, Answers
  <2>4. candidate' \in [kind : {"none", "claimed", "abandoned"}, cutoff : Int]
    BY <1>7 DEF Restart, NoCandidate
  <2> QED
    BY <1>7, <2>1, <2>2, <2>3, <2>4 DEF Restart, CTypeOK, Time
<1>8. CASE UNCHANGED vars
  BY <1>8 DEF vars, CTypeOK, commitVars, ghosts, Time
<1> QED
  BY <1>1, <1>2, <1>3, <1>4, <1>5, <1>6, <1>7, <1>8 DEF Next

\* The variables of the service keep their types, whatever is called, fails,
\* rolls back or crashes.
THEOREM CardTypeOK == Spec => []CTypeOK
BY TypeInit, TypeStep, PTL DEF Spec

-----------------------------------------------------------------------------
(* A cancelled card is unclaimed.                                           *)

\* What a rollback may restore is as sound as what it replaces.
AllSound == Sound(store) /\ Sound(head) /\ \A c \in Caller : Sound(call[c].read)

LEMMA AllSoundInit == Init => AllSound
<1> SUFFICES ASSUME Init PROVE AllSound
  OBVIOUS
<1>1. store.agent = Nobody /\ head.agent = Nobody
  BY DEF Init, NewCard
<1>2. \A c \in Caller : call[c].read.agent = Nobody
  BY DEF Init, Idle, NewCard
<1> QED
  BY <1>1, <1>2 DEF AllSound, Sound

LEMMA AllSoundStep == CTypeOK /\ AllSound /\ [Next]_vars => AllSound'
<1> SUFFICES ASSUME CTypeOK, AllSound, [Next]_vars PROVE AllSound'
  OBVIOUS
<1> Sound(NewCard)
  BY DEF Sound, NewCard
<1>1. CASE Stall \/ \E o \in Op : Called(o)
  <2>1. PICK c \in Caller, kind \in Kind, card \in Card, immediate \in BOOLEAN, flush \in Flush :
          ServiceWrite(c, kind, card, immediate, flush)
    BY <1>1, OperationsWrite DEF ServiceStep
  <2>2. PICK defers, flushes \in BOOLEAN : WroteAs(c, card, defers, flushes)
    BY <2>1, Written DEF ServiceWrite
  <2>3. Sound(store') /\ Sound(head')
    BY <2>1, <2>2 DEF AllSound, ServiceWrite, WroteAs
  <2>4. PICK r \in Call : call' = [call EXCEPT ![c] = r] /\ r.read = store
    BY <2>2 DEF WroteAs
  <2>5. \A d \in Caller : Sound(call'[d].read)
    BY <2>4 DEF AllSound, CTypeOK
  <2> QED
    BY <2>3, <2>5 DEF AllSound, Sound
<1>2. CASE Serve
  BY <1>2 DEF Serve, AllSound, Sound
<1>3. ASSUME NEW c \in Caller, Answered(c) PROVE AllSound'
  <2>1. head' = head /\ (store' = store \/ store' = call[c].read)
    BY <1>3 DEF Answered, Flushed, Committed, FlushAfter, Failed, Rollback, commitVars
  <2>2. \A d \in Caller : call'[d].read = call[d].read \/ call'[d].read = NewCard
    <3>1. CASE Flushed(c)
      BY <3>1 DEF Flushed, CTypeOK, Call
    <3>2. CASE Committed(c)
      BY <3>2, EndedCall DEF Committed, Finish, CTypeOK
    <3>3. CASE FlushAfter(c)
      BY <3>3, FlushAfterCall
    <3>4. CASE Failed(c)
      BY <3>4, EndedCall DEF Failed, Finish, CTypeOK, Call
    <3>5. CASE Rollback(c)
      BY <3>5, EndedCall DEF Rollback, Finish, CTypeOK
    <3> QED
      BY <1>3, <3>1, <3>2, <3>3, <3>4, <3>5 DEF Answered
  <2> QED
    BY <2>1, <2>2 DEF AllSound, Sound
<1>4. CASE Restart
  <2>1. \A d \in Caller : call'[d].read = NewCard
    BY <1>4, EndedCall DEF Restart, Idle
  <2> QED
    BY <1>4, <2>1 DEF Restart, AllSound, Sound
<1>5. CASE Scan \/ SkipStall \/ Tick \/ UNCHANGED vars
  BY <1>5 DEF Scan, SkipStall, Tick, vars, commitVars, AllSound, Sound
<1> QED
  BY <1>1, <1>2, <1>3, <1>4, <1>5 DEF Next

\* No failed commit, rollback over a newer write, or crash leaves a claim on a
\* card in not_planned, on disk or in HEAD, for any calls, agents and moves.
THEOREM CardCancelledIsUnclaimed == Spec => []CancelledIsUnclaimed
<1>1. AllSound => CancelledIsUnclaimed
  BY DEF AllSound, CancelledIsUnclaimed, Sound
<1> QED
  BY TypeInit, TypeStep, AllSoundInit, AllSoundStep, <1>1, PTL DEF Spec

-----------------------------------------------------------------------------
(* An acknowledged claim holds.                                             *)

\* Where card commits succeed nothing rolls back, and the card's agent is the
\* claimant of the history.
NothingFails == \A c \in Caller : answer[c] # "failed" /\ call[c].pc # "rollback"
ClaimKept == CommitsSucceed => NothingFails /\ store.agent = claimant

LEMMA SameFailures == CTypeOK /\ [Next]_vars => (CommitsSucceed' <=> CommitsSucceed)
<1> SUFFICES ASSUME CTypeOK, [Next]_vars PROVE plan' = plan
  BY DEF CommitsSucceed
<1>1. ASSUME ServiceStep PROVE plan' = plan
  BY <1>1 DEF ServiceStep, ServiceWrite, Write
<1>2. ASSUME NEW c \in Caller, Answered(c) PROVE plan' = plan
  BY <1>2 DEF Answered, Flushed, Committed, FlushAfter, Failed, Rollback
<1>3. CASE Scan \/ SkipStall \/ Serve \/ Tick \/ Restart \/ UNCHANGED vars
  BY <1>3 DEF Scan, SkipStall, Serve, Tick, Restart, vars
<1> QED
  BY <1>1, <1>2, <1>3, OperationsWrite DEF Next

LEMMA ClaimKeptInit == Init => ClaimKept
<1> SUFFICES ASSUME Init PROVE ClaimKept
  OBVIOUS
<1>1. store.agent = claimant
  BY DEF Init, NewCard
<1>2. NothingFails
  BY DEF Init, NothingFails, Idle
<1> QED
  BY <1>1, <1>2 DEF ClaimKept

LEMMA ClaimKeptStep == CTypeOK /\ ClaimKept /\ [Next]_vars => ClaimKept'
<1> SUFFICES ASSUME CTypeOK, CommitsSucceed, NothingFails, store.agent = claimant, [Next]_vars
             PROVE  NothingFails' /\ store'.agent = claimant'
  BY SameFailures DEF ClaimKept
<1>1. CASE Stall \/ \E o \in Op : Called(o)
  <2>1. PICK c \in Caller, kind \in Kind, card \in Card, immediate \in BOOLEAN, flush \in Flush :
          ServiceWrite(c, kind, card, immediate, flush)
    BY <1>1, OperationsWrite DEF ServiceStep
  <2>2. PICK defers, flushes \in BOOLEAN : WroteAs(c, card, defers, flushes)
    BY <2>1, Written DEF ServiceWrite
  <2>3. store'.agent = claimant'
    BY <2>1, <2>2 DEF ServiceWrite, WroteAs
  <2>4. PICK r \in Call : call' = [call EXCEPT ![c] = r] /\ r.pc \in {"flushing", "awaiting"}
    BY <2>2 DEF WroteAs
  <2>5. \A d \in Caller : answer'[d] = answer[d] \/ answer'[d] \in {"nil", "none"}
    BY <2>2 DEF WroteAs
  <2>6. NothingFails'
    BY <2>4, <2>5 DEF NothingFails, CTypeOK
  <2> QED
    BY <2>3, <2>6
<1>2. CASE Serve
  <2>1. \A c \in Caller : answer'[c] # "failed"
    BY <1>2 DEF Serve, NothingFails, CommitsSucceed, CTypeOK
  <2> QED
    BY <1>2, <2>1 DEF Serve, NothingFails, ghosts
<1>3. ASSUME NEW c \in Caller, Answered(c) PROVE NothingFails' /\ store'.agent = claimant'
  <2>1. CASE Flushed(c)
    BY <2>1 DEF Flushed, NothingFails, CTypeOK, Call, commitVars
  <2>2. CASE Committed(c)
    BY <2>2, EndedCall DEF Committed, Finish, NothingFails, CTypeOK
  <2>3. CASE FlushAfter(c)
    BY <2>3 DEF FlushAfter, NothingFails, CTypeOK, Call, ghosts
  <2>4. CASE Failed(c) \/ Rollback(c)
    BY <2>4 DEF Failed, Rollback, NothingFails
  <2> QED
    BY <1>3, <2>1, <2>2, <2>3, <2>4 DEF Answered
<1>4. CASE Restart
  BY <1>4, EndedCall DEF Restart, NothingFails, Idle
<1>5. CASE Scan \/ SkipStall \/ Tick \/ UNCHANGED vars
  BY <1>5 DEF Scan, SkipStall, Tick, vars, commitVars, ghosts, NothingFails
<1> QED
  BY <1>1, <1>2, <1>3, <1>4, <1>5 DEF Next

\* An agent told that it holds the card holds it until the claim is ended, for
\* any calls in any order, any flush that fails and any crash.
THEOREM CardAcknowledgedClaimHolds == Spec => []AcknowledgedClaimHolds
<1>1. ClaimKept => AcknowledgedClaimHolds
  BY DEF ClaimKept, AcknowledgedClaimHolds
<1> QED
  BY TypeInit, TypeStep, ClaimKeptInit, ClaimKeptStep, <1>1, PTL DEF Spec

-----------------------------------------------------------------------------
(* Every dirty file is accounted for.                                       *)

Flushing(c) == call[c].pc = "flushing"
FlushAt(n) == n \in 1..Len(queue) /\ queue[n][2] = "flush"

\* A flush holds writeMu and the deferred paths until its answer is read.
FlushHolds == \A c \in Caller : Flushing(c) => writeMu = c /\ deferred
\* A flush in the queue is the one that somebody waits for.
FlushAwaited == \A n : FlushAt(n) => /\ Flushing(queue[n][1])
                                     /\ flushed[queue[n][1]] = "none"
OneFlush == \A m, n : FlushAt(m) /\ FlushAt(n) => m = n
\* While a flush that went through holds writeMu, nothing is written.
FlushIsComplete == \A c \in Caller : Flushing(c) /\ flushed[c] = "nil" => store = head
FlushToCome == \A c \in Caller : call[c].flush = "after" => ~Flushing(c) /\ flushed[c] = "none"
Accounted == CommitsSucceed /\ store # head => queue # <<>> \/ deferred

FlushInv == /\ FlushHolds /\ FlushAwaited /\ OneFlush /\ FlushIsComplete /\ FlushToCome
            /\ Accounted

LEMMA FlushInvInit == Init => FlushInv
<1> SUFFICES ASSUME Init PROVE FlushInv
  OBVIOUS
<1>1. queue = <<>> /\ Len(queue) = 0 /\ store = head
  BY DEF Init
<1>2. \A c \in Caller : call[c].pc = "idle" /\ call[c].flush = "none"
  BY DEF Init, Idle
<1> QED
  BY <1>1, <1>2 DEF FlushInv, FlushHolds, FlushAwaited, OneFlush, FlushIsComplete,
       FlushToCome, Accounted, Flushing, FlushAt

LEMMA AtMostOneMore ==
    ASSUME NEW a \in Nat, NEW b \in {0, 1}, NEW n \in Int, ~(n <= a), n <= a + b
    PROVE  b = 1 /\ n = a + 1 /\ n = a + b /\ n - a = 1
OBVIOUS

\* The entries of a queue that a call has handed its commits to.
LEMMA HandedEntries ==
    ASSUME NEW q \in Commits, NEW c \in Caller, NEW defers \in BOOLEAN, NEW flushes \in BOOLEAN
    PROVE  /\ Len(q) \in Nat /\ Len(Handed(q, c, defers, flushes)) \in Nat
           /\ \A n \in 1..Len(Handed(q, c, defers, flushes)) :
                \/ n \in 1..Len(q) /\ Handed(q, c, defers, flushes)[n] = q[n]
                \/ /\ ~defers /\ n = Len(q) + 1
                   /\ Handed(q, c, defers, flushes)[n] = <<c, "card">>
                \/ /\ flushes /\ n = Len(Handed(q, c, defers, flushes))
                   /\ Handed(q, c, defers, flushes)[n] = <<c, "flush">>
           /\ q # <<>> \/ ~defers => Handed(q, c, defers, flushes) # <<>>
<1> DEFINE T == Caller \X {"card", "flush"}
           first == IF defers THEN <<>> ELSE <<<<c, "card">>>>
           second == IF flushes THEN <<<<c, "flush">>>> ELSE <<>>
<1>1. /\ first \in Seq(T) /\ Len(first) \in {0, 1} /\ second \in Seq(T) /\ Len(second) \in {0, 1}
      /\ Len(first) = 1 => ~defers /\ first[1] = <<c, "card">>
      /\ Len(second) = 1 => flushes /\ second[1] = <<c, "flush">>
      /\ ~defers => Len(first) = 1
  <2>1. <<c, "card">> \in T /\ <<c, "flush">> \in T
    OBVIOUS
  <2> HIDE DEF T
  <2> QED
    BY <2>1
<1>2. q \in Seq(T) /\ Len(q) \in Nat
  BY DEF Commits
<1> DEFINE mid == q \o first
           all == mid \o second
<1>3. Handed(q, c, defers, flushes) = all
  BY DEF Handed
<1> HIDE DEF first, second, T
<1>4. /\ mid \in Seq(T) /\ Len(mid) = Len(q) + Len(first)
      /\ \A n \in 1..Len(q) + Len(first) :
           mid[n] = IF n <= Len(q) THEN q[n] ELSE first[n - Len(q)]
  BY <1>1, <1>2, ConcatProperties
<1> HIDE DEF mid
<1>5. /\ all \in Seq(T) /\ Len(all) = Len(mid) + Len(second)
      /\ \A n \in 1..Len(mid) + Len(second) :
           all[n] = IF n <= Len(mid) THEN mid[n] ELSE second[n - Len(mid)]
  <2>1. second \in Seq(T) /\ mid \in Seq(T)
    BY <1>1, <1>4
  <2> QED
    BY <2>1, ConcatProperties
<1> HIDE DEF all
<1>6. /\ Len(q) \in Nat /\ Len(mid) \in Nat /\ Len(all) \in Nat
      /\ Len(first) \in {0, 1} /\ Len(second) \in {0, 1}
      /\ Len(mid) = Len(q) + Len(first) /\ Len(all) = Len(mid) + Len(second)
  BY <1>1, <1>2, <1>4, <1>5
<1>7. ASSUME NEW n \in 1..Len(all)
      PROVE  \/ n \in 1..Len(q) /\ all[n] = q[n]
             \/ ~defers /\ n = Len(q) + 1 /\ all[n] = <<c, "card">>
             \/ flushes /\ n = Len(all) /\ all[n] = <<c, "flush">>
  <2>1. n \in Int /\ 1 <= n /\ n <= Len(mid) + Len(second)
    BY <1>5, <1>6
  <2>2. CASE n <= Len(q)
    <3>1. n <= Len(mid) /\ n \in 1..Len(q)
      BY <1>6, <2>1, <2>2
    <3> QED
      BY <1>4, <1>5, <1>6, <2>1, <2>2, <3>1
  <2>3. CASE ~(n <= Len(q)) /\ n <= Len(mid)
    <3>1. n <= Len(q) + Len(first)
      BY <1>6, <2>3
    <3>2. Len(first) = 1 /\ n = Len(q) + Len(first) /\ n - Len(q) = 1
      BY <1>6, <2>1, <2>3, <3>1, AtMostOneMore
    <3>3. all[n] = mid[n] /\ mid[n] = first[n - Len(q)] /\ n - Len(q) = 1
      BY <1>4, <1>5, <1>6, <2>1, <2>3, <3>2
    <3> QED
      BY <1>1, <1>6, <3>2, <3>3
  <2>4. CASE ~(n <= Len(mid))
    <3>1. n <= Len(mid) + Len(second)
      BY <2>1
    <3>2. Len(second) = 1 /\ n = Len(all) /\ n - Len(mid) = 1
      BY <1>6, <2>1, <2>4, <3>1, AtMostOneMore
    <3>3. all[n] = second[n - Len(mid)]
      BY <1>5, <2>1, <2>4
    <3> QED
      BY <1>1, <3>2, <3>3
  <2> QED
    BY <2>2, <2>3, <2>4
<1>8. q # <<>> \/ ~defers => all # <<>>
  <2>1. q # <<>> => Len(q) > 0
    BY <1>2, EmptySeq
  <2>2. q # <<>> \/ ~defers => Len(all) > 0
    BY <1>1, <1>6, <2>1
  <2> QED
    BY <2>2
<1> QED
  BY <1>2, <1>3, <1>5, <1>7, <1>6, <1>8

LEMMA FlushInvWrite ==
    ASSUME CTypeOK, FlushInv, NEW c \in Caller, NEW card \in Card, NEW defers \in BOOLEAN,
           NEW flushes \in BOOLEAN, WroteAs(c, card, defers, flushes)
    PROVE  FlushInv'
<1> USE Constants
<1>1. PICK r \in Call : /\ call' = [call EXCEPT ![c] = r]
                        /\ r.pc = (IF flushes THEN "flushing" ELSE "awaiting")
                        /\ r.flush = "after" => ~flushes
  BY DEF WroteAs
<1>2. \A d \in Caller : /\ ~Flushing(d)
                        /\ call'[d] = IF d = c THEN r ELSE call[d]
                        /\ flushed'[d] = IF d = c THEN "none" ELSE flushed[d]
  BY <1>1 DEF WroteAs, FlushInv, FlushHolds, CTypeOK
<1>3. \A d \in Caller : Flushing(d)' => d = c /\ flushes /\ flushed'[d] = "none"
  BY <1>1, <1>2 DEF Flushing
<1>4. queue \in Commits /\ queue' = Handed(queue, c, defers, flushes)
  BY DEF CTypeOK, Commits, WroteAs
<1>5. ASSUME NEW n, FlushAt(n)'
      PROVE  flushes /\ n = Len(queue') /\ queue'[n][1] = c
  <2>1. \/ n \in 1..Len(queue) /\ queue'[n] = queue[n]
        \/ queue'[n] = <<c, "card">>
        \/ flushes /\ n = Len(queue') /\ queue'[n] = <<c, "flush">>
    BY <1>4, <1>5, HandedEntries DEF FlushAt
  <2>2. ASSUME n \in 1..Len(queue), queue'[n] = queue[n] PROVE FALSE
    <3>1. FlushAt(n)
      BY <1>5, <2>2 DEF FlushAt
    <3>2. queue[n][1] \in Caller
      BY <1>4, <2>2 DEF Commits
    <3> QED
      BY <1>2, <3>1, <3>2 DEF FlushInv, FlushAwaited
  <2> QED
    BY <1>5, <2>1, <2>2 DEF FlushAt
<1>6. FlushHolds'
  BY <1>3 DEF FlushHolds, WroteAs, Flushing
<1>7. FlushAwaited'
  BY <1>1, <1>2, <1>5 DEF FlushAwaited, Flushing
<1>8. OneFlush'
  BY <1>5 DEF OneFlush
<1>9. FlushIsComplete'
  BY <1>3 DEF FlushIsComplete
<1>10. FlushToCome'
  BY <1>1, <1>2, <1>3 DEF FlushToCome, FlushInv, Flushing
<1>11. Accounted'
  <2>1. defers => deferred'
    BY DEF WroteAs
  <2>2. ~defers => queue' # <<>>
    BY <1>4, HandedEntries
  <2> QED
    BY <2>1, <2>2 DEF Accounted
<1> QED
  BY <1>6, <1>7, <1>8, <1>9, <1>10, <1>11 DEF FlushInv

LEMMA FlushInvServe ==
    ASSUME CTypeOK, FlushInv, Serve
    PROVE  FlushInv'
<1>1. queue # <<>> /\ queue' = Tail(queue) /\ call' = call /\ store' = store
      /\ writeMu' = writeMu /\ deferred' = deferred /\ plan' = plan
  BY DEF Serve
<1>2. /\ Head(queue)[1] \in Caller /\ Head(queue)[2] \in {"card", "flush"}
      /\ Head(queue) = queue[1] /\ Len(queue) \in Nat \ {0}
      /\ Len(queue') = Len(queue) - 1
      /\ \A n \in 1..Len(queue') : queue'[n] = queue[n + 1]
  BY <1>1, QueueHead
<1> DEFINE c == queue[1][1]
           kind == queue[1][2]
<1>3. PICK ok \in BOOLEAN :
        /\ ok \/ kind \in Plans[plan].failing
        /\ head' = IF ok THEN store ELSE head
        /\ IF kind = "card" THEN flushed' = flushed
           ELSE flushed' = [flushed EXCEPT ![c] = IF ok THEN "nil" ELSE "failed"]
  BY <1>2 DEF Serve
<1>4. ASSUME NEW n, FlushAt(n)' PROVE FlushAt(n + 1) /\ queue'[n] = queue[n + 1] /\ n \in Nat
  BY <1>2, <1>4 DEF FlushAt
<1>5. kind = "flush" => FlushAt(1)
  BY <1>2 DEF FlushAt
<1>6. ASSUME NEW d \in Caller PROVE flushed'[d] = flushed[d] \/ (d = c /\ kind = "flush")
  BY <1>2, <1>3 DEF CTypeOK
<1>7. FlushHolds' /\ FlushToCome'
  <2>1. FlushHolds'
    BY <1>1 DEF FlushInv, FlushHolds, Flushing
  <2>2. ASSUME NEW d \in Caller, call[d].flush = "after"
        PROVE  flushed'[d] = "none"
    BY <1>5, <1>6, <2>2 DEF FlushInv, FlushToCome, FlushAwaited, Flushing
  <2> QED
    BY <1>1, <2>1, <2>2 DEF FlushInv, FlushToCome, Flushing
<1>8. FlushAwaited'
  <2> SUFFICES ASSUME NEW n, FlushAt(n)'
               PROVE  (Flushing(queue[n][1]) /\ flushed[queue[n][1]] = "none")'
    BY DEF FlushAwaited
  <2>1. FlushAt(n + 1) /\ queue'[n] = queue[n + 1] /\ n \in Nat /\ n # 0
    BY <1>4 DEF FlushAt
  <2>2. kind # "flush"
    BY <1>5, <2>1 DEF FlushInv, OneFlush
  <2>3. queue[n + 1][1] \in Caller
    BY <2>1 DEF FlushAt, CTypeOK
  <2> QED
    BY <1>1, <1>6, <2>1, <2>2, <2>3 DEF FlushInv, FlushAwaited, Flushing
<1>9. OneFlush'
  BY <1>4 DEF FlushInv, OneFlush
<1>10. FlushIsComplete'
  <2> SUFFICES ASSUME NEW d \in Caller, Flushing(d), flushed'[d] = "nil"
               PROVE  store = head'
    BY <1>1 DEF FlushIsComplete, Flushing
  <2>1. CASE flushed'[d] = flushed[d]
    BY <1>3, <2>1 DEF FlushInv, FlushIsComplete
  <2>2. CASE d = c /\ kind = "flush"
    BY <1>3, <2>2 DEF CTypeOK
  <2> QED
    BY <1>6, <2>1, <2>2
<1>11. Accounted'
  <2> SUFFICES ASSUME CommitsSucceed, store # head' PROVE deferred
    BY <1>1 DEF Accounted, CommitsSucceed
  <2>1. kind = "flush"
    BY <1>2, <1>3 DEF CommitsSucceed
  <2> QED
    BY <1>2, <1>5, <2>1 DEF FlushInv, FlushAwaited, FlushHolds
<1> QED
  BY <1>7, <1>8, <1>9, <1>10, <1>11 DEF FlushInv

LEMMA FlushInvAnswered ==
    ASSUME CTypeOK, FlushInv, NEW c \in Caller, Answered(c), CommitsSucceed => NothingFails
    PROVE  FlushInv'
<1> USE Constants
<1> USE DEF FlushInv
<1>1. CASE Flushed(c)
  <2>1. /\ Flushing(c) /\ flushed[c] # "none" /\ writeMu = c
        /\ UNCHANGED <<queue, store, head, flushed, plan>>
        /\ deferred' = (deferred /\ flushed[c] = "failed")
    BY <1>1 DEF Flushed, commitVars, Flushing, FlushHolds
  <2>2. \A d \in Caller : d # c => ~Flushing(d) /\ call'[d] = call[d]
    BY <1>1, <2>1 DEF Flushed, FlushHolds, CTypeOK
  <2>3. call'[c].pc = "awaiting" /\ call'[c].flush = call[c].flush
    BY <1>1 DEF Flushed, CTypeOK, Call
  <2>4. \A d \in Caller : ~Flushing(d)'
    BY <2>2, <2>3 DEF Flushing
  <2>5. \A n : ~FlushAt(n)
    <3> SUFFICES ASSUME NEW n, FlushAt(n) PROVE FALSE
      OBVIOUS
    <3>1. queue[n][1] \in Caller
      BY DEF FlushAt, CTypeOK
    <3> QED
      BY <2>1, <2>2, <3>1 DEF FlushAwaited
  <2>6. FlushAwaited' /\ OneFlush'
    BY <2>1, <2>5 DEF FlushAwaited, OneFlush, FlushAt
  <2>7. FlushToCome'
    BY <2>1, <2>2, <2>3, <2>4 DEF FlushToCome
  <2>8. Accounted'
    <3>1. flushed[c] = "nil" => store = head
      BY <2>1 DEF FlushIsComplete
    <3>2. flushed[c] = "nil" \/ flushed[c] = "failed"
      BY <2>1 DEF CTypeOK, Answers
    <3> QED
      BY <2>1, <3>1, <3>2 DEF Accounted, FlushHolds, CommitsSucceed
  <2> QED
    BY <2>4, <2>6, <2>7, <2>8 DEF FlushHolds, FlushIsComplete
<1>2. CASE FlushAfter(c)
  <2>1. /\ call[c].pc = "awaiting" /\ call[c].flush = "after" /\ writeMu = Nobody
        /\ UNCHANGED <<store, head, flushed, plan, deferred>>
    BY <1>2 DEF FlushAfter
  <2>2. flushed[c] = "none" /\ \A d \in Caller : ~Flushing(d)
    BY <2>1 DEF FlushToCome, FlushHolds
  <2>3. \A d \in Caller : d # c => call'[d] = call[d]
    BY <1>2, FlushAfterCall
  <2>4. \A n : ~FlushAt(n)
    <3> SUFFICES ASSUME NEW n, FlushAt(n) PROVE FALSE
      OBVIOUS
    <3>1. queue[n][1] \in Caller
      BY DEF FlushAt, CTypeOK
    <3> QED
      BY <2>2, <3>1 DEF FlushAwaited
  <2>5. call'[c].flush = "none"
    BY <1>2, FlushAfterCall
  <2>6. \A d \in Caller : Flushing(d)' => d = c
    BY <2>2, <2>3 DEF Flushing
  <2>7. FlushToCome' /\ FlushIsComplete'
    BY <2>1, <2>2, <2>3, <2>5, <2>6 DEF FlushToCome, FlushIsComplete, Flushing
  <2>8. CASE gitDeferred /\ deferred
    <3>1. writeMu' = c /\ queue' = Append(queue, <<c, "flush">>) /\ Flushing(c)'
      BY <1>2, <2>8, FlushAfterCall DEF FlushAfter, Flushing
    <3>2. queue \in Seq(Caller \X {"card", "flush"})
      BY DEF CTypeOK
    <3>3. /\ Len(queue') = Len(queue) + 1 /\ Len(queue) \in Nat
          /\ \A n \in 1..Len(queue) : queue'[n] = queue[n]
          /\ queue'[Len(queue) + 1] = <<c, "flush">> /\ queue' # <<>>
      BY <3>1, <3>2, AppendProperties
    <3>4. ASSUME NEW n, FlushAt(n)' PROVE n = Len(queue) + 1
      <4>1. ~(n \in 1..Len(queue))
        BY <2>4, <3>3, <3>4 DEF FlushAt
      <4> QED
        BY <3>3, <3>4, <4>1 DEF FlushAt
    <3>5. FlushAwaited' /\ OneFlush'
      BY <2>1, <2>2, <3>1, <3>3, <3>4 DEF FlushAwaited, OneFlush
    <3> QED
      BY <2>1, <2>6, <2>7, <2>8, <3>1, <3>3, <3>5 DEF FlushHolds, Accounted
  <2>9. CASE ~(gitDeferred /\ deferred)
    <3>1. queue' = queue /\ ~Flushing(c)'
      BY <1>2, <2>9, FlushAfterCall DEF FlushAfter, Flushing
    <3>2. FlushAwaited' /\ OneFlush'
      BY <2>4, <3>1 DEF FlushAwaited, OneFlush, FlushAt
    <3> QED
      BY <2>1, <2>6, <2>7, <3>1, <3>2 DEF FlushHolds, Accounted, CommitsSucceed
  <2> QED
    BY <2>8, <2>9
\* The other three leave a flush nobody's: the call was not flushing.
<1>3. ASSUME /\ ~Flushing(c) /\ ~Flushing(c)' /\ UNCHANGED <<queue, head, deferred, writeMu, plan>>
             /\ \A d \in Caller : d # c => call'[d] = call[d] /\ flushed'[d] = flushed[d]
             /\ call'[c].flush = "after" => call[c].flush = "after" /\ flushed'[c] = flushed[c]
             /\ store' = store \/ (writeMu = Nobody /\ ~CommitsSucceed)
      PROVE  FlushInv'
  <2>1. FlushHolds' /\ OneFlush'
    BY <1>3 DEF FlushHolds, OneFlush, FlushAt, Flushing
  <2>2. FlushAwaited'
    <3> SUFFICES ASSUME NEW n, FlushAt(n)'
                 PROVE  (Flushing(queue[n][1]) /\ flushed[queue[n][1]] = "none")'
      BY DEF FlushAwaited
    <3>1. FlushAt(n) /\ queue'[n] = queue[n] /\ queue[n][1] \in Caller
      BY <1>3 DEF FlushAt, CTypeOK
    <3> QED
      BY <1>3, <3>1 DEF FlushAwaited, Flushing
  <2>3. FlushIsComplete'
    BY <1>3 DEF FlushIsComplete, FlushHolds, Flushing
  <2>4. FlushToCome'
    BY <1>3 DEF FlushToCome, Flushing
  <2>5. Accounted'
    BY <1>3 DEF Accounted, CommitsSucceed
  <2> QED
    BY <2>1, <2>2, <2>3, <2>4, <2>5
<1>4. ASSUME Finish(c), call[c].pc \in {"awaiting", "rollback"},
             UNCHANGED <<queue, head, deferred, writeMu, plan>>,
             store' = store \/ (writeMu = Nobody /\ ~CommitsSucceed)
      PROVE  FlushInv'
  <2>1. /\ \A d \in Caller : d # c => call'[d] = call[d] /\ flushed'[d] = flushed[d]
        /\ call'[c] = Ended(c)
    BY <1>4 DEF Finish, CTypeOK
  <2>2. ~Flushing(c) /\ ~Flushing(c)' /\ call'[c].flush = "none"
    BY <1>4, <2>1, EndedCall DEF Flushing
  <2> QED
    BY <1>3, <1>4, <2>1, <2>2
<1>5. CASE Committed(c)
  BY <1>4, <1>5 DEF Committed
<1>6. CASE Failed(c)
  <2>1. CASE Finish(c)
    BY <1>4, <1>6, <2>1 DEF Failed
  <2>2. CASE call' = [call EXCEPT ![c].pc = "rollback"] /\ UNCHANGED flushed
    <3>1. /\ \A d \in Caller : d # c => call'[d] = call[d]
          /\ call'[c].pc = "rollback" /\ call'[c].flush = call[c].flush
      BY <2>2 DEF CTypeOK, Call
    <3> QED
      BY <1>3, <1>6, <2>2, <3>1 DEF Failed, Flushing
  <2> QED
    BY <1>6, <2>1, <2>2 DEF Failed
<1>7. CASE Rollback(c)
  BY <1>4, <1>7 DEF Rollback, NothingFails
<1> QED
  BY <1>1, <1>2, <1>5, <1>6, <1>7 DEF Answered

LEMMA FlushInvStep == CTypeOK /\ ClaimKept /\ FlushInv /\ [Next]_vars => FlushInv'
<1> SUFFICES ASSUME CTypeOK, ClaimKept, FlushInv, [Next]_vars PROVE FlushInv'
  OBVIOUS
<1>1. CASE Stall \/ \E o \in Op : Called(o)
  <2>1. PICK c \in Caller, kind \in Kind, card \in Card, immediate \in BOOLEAN, flush \in Flush :
          ServiceWrite(c, kind, card, immediate, flush)
    BY <1>1, OperationsWrite DEF ServiceStep
  <2>2. PICK defers, flushes \in BOOLEAN : WroteAs(c, card, defers, flushes)
    BY <2>1, Written DEF ServiceWrite
  <2> QED
    BY <2>2, FlushInvWrite
<1>2. CASE Serve
  BY <1>2, FlushInvServe
<1>3. CASE \E c \in Caller : Answered(c)
  BY <1>3, FlushInvAnswered DEF ClaimKept
<1>4. CASE Restart
  <2>1. queue' = <<>> /\ Len(queue') = 0 /\ head' = store /\ store' = store
    BY <1>4 DEF Restart
  <2>2. \A d \in Caller : call'[d].pc \in {"idle", "done"} /\ call'[d].flush = "none"
    BY <1>4, EndedCall DEF Restart, Idle
  <2> QED
    BY <2>1, <2>2 DEF FlushInv, FlushHolds, FlushAwaited, OneFlush, FlushIsComplete,
         FlushToCome, Accounted, Flushing, FlushAt
<1>5. CASE Scan \/ SkipStall \/ Tick \/ UNCHANGED vars
  <2>1. UNCHANGED <<plan, store, head, deferred, writeMu, call, flushed, queue>>
    BY <1>5 DEF Scan, SkipStall, Tick, vars, commitVars
  <2> QED
    BY <2>1 DEF FlushInv, FlushHolds, FlushAwaited, OneFlush, FlushIsComplete,
         FlushToCome, Accounted, CommitsSucceed, Flushing, FlushAt
<1> QED
  BY <1>1, <1>2, <1>3, <1>4, <1>5 DEF Next

\* What HEAD lacks of the disk is in the queue or in the deferred paths, for any
\* calls in any order, any flushes that fail and any crashes.
THEOREM CardDirtyIsAccounted == Spec => []DirtyIsAccounted
<1>1. FlushInv => DirtyIsAccounted
  BY DEF FlushInv, Accounted, DirtyIsAccounted
<1> QED
  BY TypeInit, TypeStep, ClaimKeptInit, ClaimKeptStep, FlushInvInit, FlushInvStep, <1>1,
     PTL DEF Spec

-----------------------------------------------------------------------------
(* No edit is left behind.                                                  *)

\* A flush of the deferred paths is under way or to come.
Pending(c) == Flushing(c) \/ (call[c].pc = "awaiting" /\ call[c].flush = "after")

\* An unowned card's deferred edits wait for a flush, unless one has failed or the
\* card was promoted.
Deferring == deferred => gitDeferred
Flushes ==
    CommitsSucceed /\ deferred /\ Unowned(store) /\ ~flushLost /\ ~promoted
    => \E c \in Caller : Pending(c)

\* Every commit of a card in the queue is some call's own, which waits for it.
CardAt(n) == n \in 1..Len(queue) /\ queue[n][2] = "card"
Awaits(c) == call[c].pc \notin {"idle", "done"} /\ answer[c] = "none"
CardAwaited == \A n : CardAt(n) => Awaits(queue[n][1])
OneCard == \A m, n : CardAt(m) /\ CardAt(n) /\ queue[m][1] = queue[n][1] => m = n

RolledBack == \A c \in Caller : call[c].pc = "rollback" => answer[c] = "failed"

LeftInv == Deferring /\ Flushes /\ CardAwaited /\ OneCard /\ RolledBack

LEMMA LeftInvInit == Init => LeftInv
<1> SUFFICES ASSUME Init PROVE LeftInv
  OBVIOUS
<1>1. queue = <<>> /\ Len(queue) = 0 /\ deferred = FALSE
  BY DEF Init
<1> QED
  BY <1>1 DEF LeftInv, Deferring, Flushes, CardAwaited, OneCard, CardAt, RolledBack, Init, Idle

\* Who flushes goes on, unless it is the call that writes.
LEMMA LeftInvWrite ==
    ASSUME CTypeOK, FlushInv, LeftInv, NEW c \in Caller, NEW kind \in Kind, NEW card \in Card,
           NEW immediate \in BOOLEAN, NEW flush \in Flush,
           ServiceWrite(c, kind, card, immediate, flush)
    PROVE  LeftInv'
<1> DEFINE defers == Defers(immediate)
           flushes == flush = "locked" /\ gitDeferred /\ (deferred \/ defers)
<1>1. /\ store' = card /\ deferred' = (deferred \/ defers)
      /\ call[c].pc = "idle" /\ \A d \in Caller : d # c => call'[d] = call[d]
      /\ call'[c].pc = (IF flushes THEN "flushing" ELSE "awaiting")
      /\ call'[c].flush = (IF flush = "after" THEN "after" ELSE "none")
      /\ answer' = [answer EXCEPT ![c] = IF defers THEN "nil" ELSE "none"]
      /\ UNCHANGED <<plan, gitDeferred, flushLost>>
  BY DEF ServiceWrite, Write, CTypeOK
<1>2. /\ queue' = Handed(queue, c, defers, flushes) /\ queue \in Commits
      /\ defers \in BOOLEAN /\ flushes \in BOOLEAN /\ defers => gitDeferred
  <2>1. queue' = (queue \o IF defers THEN <<>> ELSE <<<<c, "card">>>>)
                   \o IF flushes THEN <<<<c, "flush">>>> ELSE <<>>
    BY DEF ServiceWrite, Write
  <2>2. queue \in Commits /\ defers \in BOOLEAN /\ flushes \in BOOLEAN
        /\ (defers => gitDeferred)
    BY DEF Defers, CTypeOK, Commits
  <2> HIDE DEF defers, flushes
  <2> QED
    BY <2>1, <2>2 DEF Handed
<1>10. queue \in Commits /\ defers \in BOOLEAN /\ flushes \in BOOLEAN
  BY DEF Defers, CTypeOK, Commits
<1>3. Left(card, immediate, flush) /\ (promoted => promoted')
  BY DEF ServiceWrite
<1>4. Deferring'
  BY <1>1, <1>2 DEF LeftInv, Deferring
<1>5. Flushes'
  <2> SUFFICES ASSUME CommitsSucceed, deferred', Unowned(card), ~flushLost, ~promoted'
               PROVE  \E d \in Caller : Pending(d)'
    BY <1>1 DEF Flushes, CommitsSucceed, Unowned
  <2>1. gitDeferred
    BY <1>1, <1>4 DEF Deferring
  <2>2. CASE flush = "locked"
    BY <1>1, <2>1, <2>2 DEF Pending, Flushing
  <2>3. CASE flush = "after"
    BY <1>1, <2>3 DEF Pending
  <2>4. CASE flush = "none"
    <3>1. Unowned(store) /\ deferred /\ ~promoted
      BY <1>1, <1>3, <2>4 DEF Left
    <3>2. PICK d \in Caller : Pending(d)
      BY <3>1 DEF LeftInv, Flushes
    <3>3. d # c
      BY <1>1, <3>2 DEF Pending, Flushing
    <3> QED
      BY <1>1, <3>2, <3>3 DEF Pending, Flushing
  <2> QED
    BY <2>2, <2>3, <2>4 DEF Flush
<1> HIDE DEF defers, flushes
<1>6. ASSUME NEW n, CardAt(n)'
      PROVE  \/ CardAt(n) /\ queue'[n] = queue[n] /\ queue[n][1] \in Caller \ {c}
             \/ ~defers /\ n = Len(queue) + 1 /\ queue'[n][1] = c
  <2>1. \/ n \in 1..Len(queue) /\ queue'[n] = queue[n]
        \/ ~defers /\ n = Len(queue) + 1 /\ queue'[n] = <<c, "card">>
        \/ queue'[n] = <<c, "flush">>
    <3> DEFINE handed == Handed(queue, c, defers, flushes)
    <3>1. queue' = handed /\ n \in 1..Len(handed)
      BY <1>2, <1>6 DEF CardAt
    <3>2. \/ n \in 1..Len(queue) /\ handed[n] = queue[n]
          \/ ~defers /\ n = Len(queue) + 1 /\ handed[n] = <<c, "card">>
          \/ handed[n] = <<c, "flush">>
      <4>1. \A m \in 1..Len(handed) :
              \/ m \in 1..Len(queue) /\ handed[m] = queue[m]
              \/ ~defers /\ m = Len(queue) + 1 /\ handed[m] = <<c, "card">>
              \/ flushes /\ m = Len(handed) /\ handed[m] = <<c, "flush">>
        BY <1>10, HandedEntries
      <4> QED
        BY <3>1, <4>1
    <3> HIDE DEF handed
    <3> QED
      BY <3>1, <3>2
  <2>2. ASSUME n \in 1..Len(queue), queue'[n] = queue[n]
        PROVE  CardAt(n) /\ queue[n][1] \in Caller \ {c}
    <3>1. CardAt(n)
      BY <1>6, <2>2 DEF CardAt
    <3>2. queue[n][1] \in Caller
      BY <1>2, <2>2 DEF Commits
    <3> QED
      BY <1>1, <3>1, <3>2 DEF LeftInv, CardAwaited, Awaits
  <2> QED
    BY <1>6, <2>1, <2>2 DEF CardAt
<1>7. CardAwaited'
  <2> SUFFICES ASSUME NEW n, CardAt(n)' PROVE Awaits(queue[n][1])'
    BY DEF CardAwaited
  <2>1. CASE CardAt(n) /\ queue'[n] = queue[n] /\ queue[n][1] \in Caller \ {c}
    <3>1. answer'[queue[n][1]] = answer[queue[n][1]] /\ call'[queue[n][1]] = call[queue[n][1]]
      BY <1>1, <2>1 DEF CTypeOK
    <3> QED
      BY <2>1, <3>1 DEF LeftInv, CardAwaited, Awaits
  <2>2. CASE ~defers /\ n = Len(queue) + 1 /\ queue'[n][1] = c
    <3>1. answer'[c] = "none" /\ call'[c].pc \in {"flushing", "awaiting"}
      BY <1>1, <2>2 DEF CTypeOK
    <3> QED
      BY <2>2, <3>1 DEF Awaits
  <2> QED
    BY <1>6, <2>1, <2>2
<1>8. OneCard'
  <2> SUFFICES ASSUME NEW m, NEW n, CardAt(m)', CardAt(n)', queue'[m][1] = queue'[n][1]
               PROVE  m = n
    BY DEF OneCard
  <2> QED
    BY <1>6 DEF LeftInv, OneCard
<1>9. RolledBack'
  BY <1>1 DEF LeftInv, RolledBack, CTypeOK
<1> QED
  BY <1>4, <1>5, <1>7, <1>8, <1>9 DEF LeftInv

LEMMA LeftInvServe ==
    ASSUME CTypeOK, LeftInv, Serve
    PROVE  LeftInv'
<1>1. /\ queue # <<>> /\ queue' = Tail(queue)
      /\ UNCHANGED <<plan, store, call, deferred, gitDeferred, flushLost, promoted>>
  BY DEF Serve, ghosts
<1>2. /\ queue[1][1] \in Caller /\ Len(queue) \in Nat \ {0}
      /\ Len(queue') = Len(queue) - 1
      /\ \A n \in 1..Len(queue') : queue'[n] = queue[n + 1]
      /\ Head(queue) = queue[1]
  BY <1>1, QueueHead
<1>3. Deferring' /\ Flushes'
  BY <1>1 DEF LeftInv, Deferring, Flushes, CommitsSucceed, Unowned, Pending, Flushing
<1>4. ASSUME NEW n, CardAt(n)'
      PROVE  CardAt(n + 1) /\ queue'[n] = queue[n + 1] /\ n \in Nat /\ n # 0
  BY <1>2, <1>4 DEF CardAt
<1>5. ASSUME NEW d \in Caller, answer'[d] # answer[d]
      PROVE  CardAt(1) /\ queue[1][1] = d
  <2>1. CASE queue[1][2] = "card"
    BY <1>2, <1>5, <2>1 DEF Serve, CTypeOK, CardAt
  <2>2. CASE queue[1][2] # "card"
    BY <1>2, <1>5, <2>2 DEF Serve
  <2> QED
    BY <2>1, <2>2
<1>6. CardAwaited'
  <2> SUFFICES ASSUME NEW n, CardAt(n)' PROVE Awaits(queue[n][1])'
    BY DEF CardAwaited
  <2>1. CardAt(n + 1) /\ queue'[n] = queue[n + 1] /\ n \in Nat /\ n # 0
    BY <1>4
  <2>2. Awaits(queue[n + 1][1]) /\ queue[n + 1][1] \in Caller
    BY <2>1 DEF LeftInv, CardAwaited, CardAt, CTypeOK
  <2>3. answer'[queue[n + 1][1]] = answer[queue[n + 1][1]]
    <3> SUFFICES ASSUME answer'[queue[n + 1][1]] # answer[queue[n + 1][1]] PROVE FALSE
      OBVIOUS
    <3>1. CardAt(1) /\ queue[1][1] = queue[n + 1][1]
      BY <1>5, <2>2
    <3>2. n + 1 = 1
      BY <2>1, <3>1 DEF LeftInv, OneCard
    <3> QED
      BY <2>1, <3>2
  <2> QED
    BY <1>1, <2>1, <2>2, <2>3 DEF Awaits
<1>7. OneCard'
  <2> SUFFICES ASSUME NEW m, NEW n, CardAt(m)', CardAt(n)', queue'[m][1] = queue'[n][1]
               PROVE  m = n
    BY DEF OneCard
  <2>1. m + 1 = n + 1 /\ m \in Nat /\ n \in Nat
    BY <1>4 DEF LeftInv, OneCard
  <2> QED
    BY <2>1
<1>8. RolledBack'
  <2> SUFFICES ASSUME NEW d \in Caller, call[d].pc = "rollback" PROVE answer'[d] = "failed"
    BY <1>1 DEF RolledBack
  <2>1. answer[d] = "failed"
    BY DEF LeftInv, RolledBack
  <2>2. answer'[d] = answer[d]
    BY <1>5, <2>1 DEF LeftInv, CardAwaited, Awaits
  <2> QED
    BY <2>1, <2>2
<1> QED
  BY <1>3, <1>6, <1>7, <1>8 DEF LeftInv

\* The answers that calls read.  A call that returns has been answered, so no commit of
\* its own is in the queue.
LEMMA LeftInvAnswered ==
    ASSUME CTypeOK, FlushInv, LeftInv, NEW c \in Caller, Answered(c),
           CommitsSucceed => NothingFails
    PROVE  LeftInv'
<1> USE Constants
<1> DEFINE Same == UNCHANGED <<plan, store, deferred, gitDeferred, flushLost, promoted>>
           Others == \A d \in Caller : d # c => call'[d] = call[d] /\ answer'[d] = answer[d]
\* A queue with no new commit of a card, and the call either waits on or had its answer.
<1>1. ASSUME Others, \A n : CardAt(n)' => CardAt(n) /\ queue'[n] = queue[n],
             answer[c] # "none" \/ (Awaits(c) => Awaits(c)')
      PROVE  CardAwaited' /\ OneCard' /\ (call'[c].pc # "rollback" => RolledBack')
  <2>1. CardAwaited'
    <3> SUFFICES ASSUME NEW n, CardAt(n)' PROVE Awaits(queue[n][1])'
      BY DEF CardAwaited
    <3>1. CardAt(n) /\ queue'[n] = queue[n]
      BY <1>1
    <3>2. Awaits(queue[n][1]) /\ queue[n][1] \in Caller
      BY <3>1 DEF LeftInv, CardAwaited, CardAt, CTypeOK
    <3> QED
      BY <1>1, <3>1, <3>2 DEF Awaits
  <2>2. OneCard'
    BY <1>1 DEF LeftInv, OneCard
  <2>3. call'[c].pc # "rollback" => RolledBack'
    BY <1>1 DEF LeftInv, RolledBack
  <2> QED
    BY <2>1, <2>2, <2>3
<1>2. CASE Flushed(c)
  <2>1. /\ Flushing(c) /\ flushed[c] # "none" /\ Others
        /\ UNCHANGED <<plan, store, gitDeferred, queue, answer>>
        /\ deferred' = (deferred /\ flushed[c] = "failed")
        /\ flushLost' = (flushed[c] = "failed")
        /\ call'[c].pc = "awaiting"
    BY <1>2 DEF Flushed, commitVars, Flushing, CTypeOK, Call
  <2>2. CardAwaited' /\ OneCard' /\ RolledBack'
    BY <1>1, <2>1 DEF CardAt, Awaits
  <2>3. Flushes'
    BY <2>1 DEF Flushes
  <2>4. Deferring'
    BY <2>1 DEF LeftInv, Deferring
  <2> QED
    BY <2>2, <2>3, <2>4 DEF LeftInv
<1>3. CASE FlushAfter(c)
  <2>1. /\ Same /\ answer' = answer /\ answer[c] = "nil" /\ Others
        /\ call'[c].pc = IF gitDeferred /\ deferred THEN "flushing" ELSE "awaiting"
    BY <1>3, FlushAfterCall DEF FlushAfter, ghosts
  <2>2. \A n : CardAt(n)' => CardAt(n) /\ queue'[n] = queue[n]
    <3>1. CASE queue' = queue
      BY <3>1 DEF CardAt
    <3>2. CASE queue' = Append(queue, <<c, "flush">>)
      <4>1. queue \in Seq(Caller \X {"card", "flush"})
        BY DEF CTypeOK
      <4>2. /\ Len(queue') = Len(queue) + 1 /\ Len(queue) \in Nat
            /\ \A n \in 1..Len(queue) : queue'[n] = queue[n]
            /\ queue'[Len(queue) + 1] = <<c, "flush">>
        BY <3>2, <4>1, AppendProperties
      <4> SUFFICES ASSUME NEW n, CardAt(n)' PROVE CardAt(n) /\ queue'[n] = queue[n]
        OBVIOUS
      <4>3. n \in 1..Len(queue) + 1 /\ queue'[n][2] = "card"
        BY <4>2 DEF CardAt
      <4>4. n # Len(queue) + 1
        BY <4>2, <4>3
      <4>5. n \in 1..Len(queue)
        BY <4>2, <4>3, <4>4
      <4> QED
        BY <4>2, <4>3, <4>5 DEF CardAt
    <3> QED
      BY <1>3, <3>1, <3>2 DEF FlushAfter
  <2>3. CardAwaited' /\ OneCard' /\ RolledBack'
    BY <1>1, <2>1, <2>2
  <2>4. Flushes'
    <3> SUFFICES ASSUME deferred PROVE Pending(c)'
      BY <2>1 DEF Flushes
    <3> QED
      BY <2>1 DEF LeftInv, Deferring, Pending, Flushing
  <2>5. Deferring'
    BY <2>1 DEF LeftInv, Deferring
  <2> QED
    BY <2>3, <2>4, <2>5 DEF LeftInv
<1>4. CASE Committed(c)
  <2>1. Same /\ queue' = queue /\ Others /\ answer[c] = "nil" /\ ~Pending(c)
    BY <1>4 DEF Committed, Finish, Pending, Flushing, CTypeOK
  <2>2. call'[c].pc # "rollback"
    BY <1>4, EndedCall DEF Committed, Finish, CTypeOK
  <2>4. CardAwaited' /\ OneCard' /\ RolledBack'
    BY <1>1, <2>1, <2>2 DEF CardAt
  <2>3. Deferring' /\ Flushes'
    BY <2>1 DEF LeftInv, Deferring, Flushes, CommitsSucceed, Unowned, Pending, Flushing
  <2> QED
    BY <2>3, <2>4 DEF LeftInv
<1>5. CASE Failed(c)
  <2>1. /\ UNCHANGED <<plan, gitDeferred, deferred, queue>> /\ Others
        /\ answer[c] = "failed"
    BY <1>5 DEF Failed, Finish, CTypeOK
  <2>2. CardAwaited' /\ OneCard'
    BY <1>1, <2>1 DEF CardAt
  <2>4. RolledBack'
    <3>1. call'[c].pc = "rollback" => answer'[c] = "failed"
      BY <1>5, <2>1, EndedCall DEF Failed, Finish, CTypeOK
    <3> QED
      BY <2>1, <3>1 DEF LeftInv, RolledBack
  <2>3. Deferring' /\ Flushes'
    BY <2>1 DEF LeftInv, Deferring, Flushes, CommitsSucceed, NothingFails
  <2> QED
    BY <2>2, <2>3, <2>4 DEF LeftInv
<1>6. CASE Rollback(c)
  <2>1. UNCHANGED <<plan, gitDeferred, deferred, queue>> /\ Others /\ answer[c] = "failed"
    BY <1>6 DEF Rollback, Finish, CTypeOK, LeftInv, RolledBack
  <2>4. call[c].pc = "rollback" /\ call'[c].pc # "rollback"
    BY <1>6, EndedCall DEF Rollback, Finish, CTypeOK
  <2>2. CardAwaited' /\ OneCard' /\ RolledBack'
    BY <1>1, <2>1, <2>4 DEF CardAt
  <2>3. Deferring' /\ Flushes'
    BY <2>1, <2>4 DEF LeftInv, Deferring, Flushes, CommitsSucceed, NothingFails
  <2> QED
    BY <2>2, <2>3 DEF LeftInv
<1> QED
  BY <1>2, <1>3, <1>4, <1>5, <1>6 DEF Answered

LEMMA LeftInvStep == CTypeOK /\ ClaimKept /\ FlushInv /\ LeftInv /\ [Next]_vars => LeftInv'
<1> SUFFICES ASSUME CTypeOK, ClaimKept, FlushInv, LeftInv, [Next]_vars PROVE LeftInv'
  OBVIOUS
<1>1. CASE Stall \/ \E o \in Op : Called(o)
  <2>1. PICK c \in Caller, kind \in Kind, card \in Card, immediate \in BOOLEAN, flush \in Flush :
          ServiceWrite(c, kind, card, immediate, flush)
    BY <1>1, OperationsWrite DEF ServiceStep
  <2> QED
    BY <2>1, LeftInvWrite
<1>2. CASE Serve
  BY <1>2, LeftInvServe
<1>3. CASE \E c \in Caller : Answered(c)
  BY <1>3, LeftInvAnswered DEF ClaimKept
<1>4. CASE Restart
  <2>1. queue' = <<>> /\ Len(queue') = 0 /\ deferred' = FALSE
    BY <1>4 DEF Restart
  <2>2. \A c \in Caller : call'[c].pc # "rollback"
    BY <1>4, EndedCall DEF Restart, Idle
  <2> QED
    BY <2>1, <2>2 DEF LeftInv, Deferring, Flushes, CardAwaited, OneCard, CardAt, RolledBack
<1>5. CASE Scan \/ SkipStall \/ Tick \/ UNCHANGED vars
  <2>1. UNCHANGED <<plan, store, gitDeferred, deferred, flushLost, promoted, call, answer, queue>>
    BY <1>5 DEF Scan, SkipStall, Tick, vars, commitVars, ghosts
  <2> QED
    BY <2>1 DEF LeftInv, Deferring, Flushes, CardAwaited, OneCard, CardAt, RolledBack, Awaits,
         CommitsSucceed, Unowned, Pending, Flushing
<1> QED
  BY <1>1, <1>2, <1>3, <1>4, <1>5 DEF Next

\* However a claim or a worker's run ends, the edits that its card had deferred are
\* committed once the calls are over: for any calls, moves, crashes and failed flushes a
\* dirty, unowned card is one that was promoted.
THEOREM CardNoStrandedEdit == Spec => []NoStrandedEdit
<1>1. CTypeOK /\ FlushInv /\ LeftInv => NoStrandedEdit
  <2> SUFFICES ASSUME CTypeOK, FlushInv, LeftInv, CommitsSucceed, Stranded, ~promoted
               PROVE  FALSE
    BY DEF NoStrandedEdit
  <2>1. \A c \in Caller : call[c].pc \in {"idle", "done"}
    BY DEF Stranded, Quiet
  <2>2. queue = <<>>
    <3> SUFFICES ASSUME queue # <<>> PROVE FALSE
      OBVIOUS
    <3>1. /\ queue[1][1] \in Caller /\ queue[1][2] \in {"card", "flush"}
          /\ 1 \in 1..Len(queue)
      BY QueueHead
    <3>2. CASE queue[1][2] = "card"
      BY <2>1, <3>1, <3>2 DEF LeftInv, CardAwaited, CardAt, Awaits
    <3>3. CASE queue[1][2] = "flush"
      BY <2>1, <3>1, <3>3 DEF FlushInv, FlushAwaited, FlushAt, Flushing
    <3> QED
      BY <3>1, <3>2, <3>3
  <2>3. deferred /\ Unowned(store) /\ ~flushLost
    BY <2>2 DEF FlushInv, Accounted, Stranded, Unowned
  <2> QED
    BY <2>1, <2>3 DEF LeftInv, Flushes, Pending, Flushing
<1> QED
  BY TypeInit, TypeStep, ClaimKeptInit, ClaimKeptStep, FlushInvInit, FlushInvStep,
     LeftInvInit, LeftInvStep, <1>1, PTL DEF Spec

-----------------------------------------------------------------------------
(* The sweep stalls nobody who is alive.                                    *)

Alive == CommitsSucceed => Timely(store, sign)

LEMMA AliveInit == Init => Alive
<1> SUFFICES ASSUME Init PROVE Alive
  OBVIOUS
<1>1. store.agent = Nobody
  BY DEF Init, NewCard
<1> QED
  BY <1>1 DEF Alive, Timely

LEMMA AliveStep == CTypeOK /\ ClaimKept /\ Alive /\ [Next]_vars => Alive'
<1> SUFFICES ASSUME CTypeOK, CommitsSucceed, NothingFails, Timely(store, sign), [Next]_vars
             PROVE  Timely(store, sign)'
  BY SameFailures DEF ClaimKept, Alive
<1>1. CASE Stall \/ \E o \in Op : Called(o)
  <2>1. PICK c \in Caller, kind \in Kind, card \in Card, immediate \in BOOLEAN, flush \in Flush :
          ServiceWrite(c, kind, card, immediate, flush)
    BY <1>1, OperationsWrite DEF ServiceStep
  <2>2. store' = card
    BY <2>1 DEF ServiceWrite, Write
  <2> QED
    BY <2>1, <2>2 DEF ServiceWrite, Timely
<1>2. CASE \E c \in Caller : Answered(c)
  BY <1>2 DEF Answered, Flushed, Committed, FlushAfter, Failed, Rollback, ghosts,
       NothingFails, Timely
<1>3. CASE Scan \/ SkipStall \/ Serve \/ Tick \/ Restart \/ UNCHANGED vars
  BY <1>3 DEF Scan, SkipStall, Serve, Tick, Restart, vars, ghosts, Timely
<1> QED
  BY <1>1, <1>2, <1>3 DEF Next

LEMMA OnlyStallStalls ==
    ASSUME CTypeOK, NothingFails, [Next]_vars, call'[Sweeper] # call[Sweeper],
           store'.state = "stalled", store.state # "stalled"
    PROVE  Stall
<1> USE Constants
<1>1. ASSUME NEW o \in Op, Called(o), ~Stall PROVE FALSE
  <2>1. PICK c \in Caller, kind \in Kind, card \in Card, immediate \in BOOLEAN, flush \in Flush :
          ServiceWrite(c, kind, card, immediate, flush)
    BY <1>1, OperationsWrite DEF ServiceStep
  <2>2. c # Sweeper
    BY <1>1, <2>1 DEF ServiceWrite
  <2>3. PICK defers, flushes \in BOOLEAN : WroteAs(c, card, defers, flushes)
    BY <2>1, Written DEF ServiceWrite
  <2>4. call'[Sweeper] = call[Sweeper]
    BY <2>2, <2>3 DEF WroteAs, CTypeOK
  <2> QED
    BY <2>4
<1>2. ASSUME NEW c \in Caller, Answered(c) PROVE store' = store
  BY <1>2 DEF Answered, Flushed, Committed, FlushAfter, Failed, Rollback, NothingFails
<1>3. CASE Scan \/ SkipStall \/ Serve \/ Tick \/ Restart \/ UNCHANGED vars
  BY <1>3 DEF Scan, SkipStall, Serve, Tick, Restart, vars
<1> QED
  BY <1>1, <1>2, <1>3 DEF Next

\* The sweep takes no card from an agent that gave a sign of life within the
\* timeout and reopens no finished card, whatever happens between its scan and
\* its lock, for any timeout and any calls.
THEOREM CardAliveIsNotStalled == Spec => AliveIsNotStalled
<1>1. ASSUME CTypeOK, ClaimKept, Alive, [Next]_vars
      PROVE  [/\ CommitsSucceed /\ call'[Sweeper] # call[Sweeper]
              /\ store'.state = "stalled" /\ store.state # "stalled"
              => /\ store.agent # Nobody => now - sign >= Timeout
                 /\ store.state \notin Terminal]_vars
  <2> SUFFICES ASSUME CommitsSucceed, call'[Sweeper] # call[Sweeper],
                      store'.state = "stalled", store.state # "stalled"
               PROVE  /\ store.agent # Nobody => now - sign >= Timeout
                      /\ store.state \notin Terminal
    OBVIOUS
  <2>1. Stall
    BY <1>1, OnlyStallStalls DEF ClaimKept
  <2>2. store.agent # Nobody => now - store.beat >= Timeout
    BY <2>1 DEF Stall, StillStalled
  <2>3. store.agent # Nobody => sign <= store.beat
    BY <1>1 DEF Alive, Timely
  <2>4. now \in Int /\ sign \in Int /\ store.beat \in Int /\ Timeout \in Int
    BY <1>1, Constants DEF CTypeOK, Time, Card
  <2>5. store.agent # Nobody => now - sign >= Timeout
    BY <2>2, <2>3, <2>4
  <2> QED
    BY <2>1, <2>5 DEF Stall
<1> QED
  BY TypeInit, TypeStep, ClaimKeptInit, ClaimKeptStep, AliveInit, AliveStep, <1>1,
     PTL DEF Spec, AliveIsNotStalled
=============================================================================
