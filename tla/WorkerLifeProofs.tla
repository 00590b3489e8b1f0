-------------------------- MODULE WorkerLifeProofs --------------------------
(***************************************************************************)
(* Proofs about WorkerLife.  The sweep fails a worker that two listings    *)
(* missed on a card nobody has written for the grace: IInv says what a     *)
(* miss leaves open, and that an old card with a live worker is not being  *)
(* launched.                                                               *)
(***************************************************************************)
EXTENDS WorkerLife, SequenceTheorems, TLAPS

Statuses == {"", "queued", "running", "failed", "killed", "completed", "parked"}
Cards == [state : {"todo", "busy", "done", "gone"}, claimed : BOOLEAN, worker : Statuses]
Sweeping == [pc : {"idle", "decide", "kill", "cards", "mark"}, listed : BOOLEAN,
             missed : BOOLEAN, owed : Nat]

Typed ==
    /\ card \in Cards /\ sweep \in Sweeping /\ reports \in Seq(Statuses)
    /\ age \in {"new", "seen", "old"} /\ box \in {"none", "coming", "up"}
    /\ launch \in {"idle", "mark", "send", "revert"}

\* A card with a live worker that nobody has written for the grace is not being
\* launched, and no container is on its way.
Aged == age = "old" /\ Live(card) => launch = "idle" /\ box # "coming"

\* What a listing did not find has not come up since, unless the card is new: in the
\* sweep that is going on, and in the one before.
Listed == age # "new" /\ sweep.pc # "idle" /\ ~sweep.listed => box # "up"
Missed ==
    sweep.missed /\ (age = "old" \/ (sweep.pc = "idle" /\ age # "new")) => box # "up"

\* A card that was missed has no report to come but those that were on their way then,
\* and one that was missed again has none.
OldWorker == age = "old" /\ Live(card)
Owed ==
    OldWorker /\ (sweep.missed \/ (sweep.pc # "idle" /\ ~sweep.listed))
    => Len(reports) <= sweep.owed
Twice ==
    OldWorker /\ sweep.missed /\ sweep.pc # "idle" /\ ~sweep.listed => reports = <<>>
Marked == sweep.pc = "mark" => sweep.missed /\ ~sweep.listed

Lost == Aged /\ Listed /\ Missed /\ Owed /\ Twice /\ Marked
IInv == Typed /\ Lost

-----------------------------------------------------------------------------
(* What the helpers of the actions do.                                      *)

\* A write makes the card new, and then nothing is asked of it.
LEMMA NewIsQuiet ==
    ASSUME age' = "new", Marked'
    PROVE  Lost'
  BY DEF Lost, Aged, Listed, Missed, Owed, Twice, OldWorker

LEMMA Updated ==
    ASSUME card \in Cards, NEW status \in Statuses, UpdateWorkerStatus(status)
    PROVE  /\ card' \in Cards
           /\ (card' = card /\ age' = age /\ Ignored(card, status)) \/ age' = "new"
<1>1. CASE Ignored(card, status)
  BY <1>1 DEF UpdateWorkerStatus, KeepCard
<1>2. CASE ~Ignored(card, status)
  <2>1. card' = Recorded(card, status) /\ age' = "new"
    BY <1>2 DEF UpdateWorkerStatus, Write
  <2>2. Normalized(card, status) \in Statuses
    BY DEF Normalized, Statuses
  <2>3. Recorded(card, status) \in Cards
    BY <2>2 DEF Recorded, Cards, Statuses, InFlight
  <2>4. QED
    BY <2>1, <2>3
<1>3. QED
  BY <1>1, <1>2

\* A run that ends adds its report only if it was there.
LEMMA RunEnds ==
    ASSUME reports \in Seq(Statuses), NEW status \in Statuses, EndsRun(status)
    PROVE  /\ box' = "none" /\ reports' \in Seq(Statuses)
           /\ box = "none" => reports' = reports
  BY DEF EndsRun

LEMMA Killed ==
    ASSUME Typed, Kill
    PROVE  /\ box' \in {box, "none"} /\ reports' \in Seq(Statuses)
           /\ box = "none" => reports' = reports
<1>1. "failed" \in Statuses
  BY DEF Statuses
<1>2. QED
  BY <1>1, RunEnds DEF Kill, KeepRun, Typed

LEMMA Popped ==
    ASSUME Typed, NextReport
    PROVE  /\ reports # <<>> /\ reports' \in Seq(Statuses) /\ Head(reports) \in Statuses
           /\ Len(reports) \in Nat /\ Len(reports') = Len(reports) - 1 /\ Len(reports) >= 1
           /\ sweep' \in Sweeping
           /\ sweep'.pc = sweep.pc /\ sweep'.listed = sweep.listed
           /\ sweep'.missed = sweep.missed
           /\ sweep'.owed = IF sweep.owed = 0 THEN 0 ELSE sweep.owed - 1
<1>1. reports # <<>> /\ reports' = Tail(reports) /\ reports \in Seq(Statuses)
  BY DEF NextReport, Typed
<1>2. /\ reports' \in Seq(Statuses) /\ Head(reports) \in Statuses
      /\ Len(reports) \in Nat /\ Len(reports') = Len(reports) - 1 /\ Len(reports) >= 1
  BY <1>1
<1>3. sweep \in Sweeping /\ sweep.owed \in Nat
  BY DEF Typed, Sweeping
<1>4. QED
  BY <1>1, <1>2, <1>3 DEF NextReport, Sweeping

\* The container, and what it has to report, may go; nothing else moves.
LEMMA RunGoes ==
    ASSUME Typed, Lost, card' = card, age' = age, launch' \in {launch, "idle"},
           sweep'.pc = sweep.pc \/ (sweep.pc # "idle" /\ sweep'.pc \in {"kill", "cards"}),
           sweep'.listed = sweep.listed, sweep'.missed = sweep.missed,
           box' \in {box, "none"},
           box = "none" => \/ reports' = reports /\ sweep'.owed = sweep.owed
                           \/ /\ reports # <<>> /\ Len(reports) \in Nat
                              /\ Len(reports') = Len(reports) - 1
                              /\ sweep'.owed = IF sweep.owed = 0 THEN 0 ELSE sweep.owed - 1
    PROVE  Lost'
<1>1. sweep.owed \in Nat /\ box \in {"none", "coming", "up"}
  BY DEF Typed, Sweeping
<1>2. Aged' /\ Listed' /\ Missed' /\ Marked'
  BY DEF Lost, Aged, Listed, Missed, Marked, Live
<1>3. ASSUME OldWorker, sweep.missed \/ (sweep.pc # "idle" /\ ~sweep.listed) PROVE box = "none"
  BY <1>1, <1>3 DEF OldWorker, Lost, Aged, Listed, Missed
<1>4. Owed'
  BY <1>1, <1>3 DEF Lost, Owed, OldWorker, Live
<1>5. Twice'
  BY <1>1, <1>3 DEF Lost, Twice, OldWorker, Live
<1>6. QED
  BY <1>2, <1>4, <1>5 DEF Lost

\* Where a write leaves the sweep as it is.
LEMMA Writes ==
    ASSUME Typed, Lost, NEW q \in Cards, Write(q), UNCHANGED <<box, reports, sweep>>,
           launch' \in {"idle", "mark", "send", "revert"}
    PROVE  Typed' /\ Lost'
<1>1. Typed' /\ age' = "new"
  BY DEF Write, Typed
<1>2. Marked'
  BY DEF Lost, Marked
<1>3. QED
  BY <1>1, <1>2, NewIsQuiet

LEMMA WrittenCards ==
    ASSUME Typed
    PROVE  /\ \A s \in {"todo", "busy", "done"} : Moved(card, s) \in Cards
           /\ Unclaimed(card) \in Cards
           /\ [Moved(card, "busy") EXCEPT !.claimed = TRUE] \in Cards
           /\ [card EXCEPT !.claimed = FALSE] \in Cards
           /\ [card EXCEPT !.worker = "parked"] \in Cards
           /\ [card EXCEPT !.worker = "queued"] \in Cards
           /\ [card EXCEPT !.state = "gone", !.claimed = FALSE] \in Cards
           /\ [Unclaimed(card) EXCEPT !.state = "busy"] \in Cards
<1>1. card \in Cards
  BY DEF Typed
<1>2. \A s \in {"todo", "busy", "done"} : Moved(card, s) \in Cards
  BY <1>1 DEF Moved, Cards, Statuses
<1>3. Unclaimed(card) \in Cards
  BY <1>1 DEF Unclaimed, Cards, Statuses
<1>4. QED
  BY <1>1, <1>2, <1>3 DEF Cards, Statuses

-----------------------------------------------------------------------------
(* One lemma for each kind of step.                                         *)

LEMMA UpStep == ASSUME IInv, Up PROVE IInv'
<1>1. "running" \in Statuses
  BY DEF Statuses
<1>2. <<"running">> \in Seq(Statuses)
  BY <1>1
<1>3. Typed'
  BY <1>2 DEF IInv, Typed, Up, cm
<1>4. age' = "new" /\ Marked'
  BY DEF IInv, Lost, Marked, Up, cm
<1>5. QED
  BY <1>3, <1>4, NewIsQuiet DEF IInv

LEMMA ExitsStep == ASSUME IInv, Exits PROVE IInv'
<1>1. "failed" \in Statuses /\ "completed" \in Statuses
  BY DEF Statuses
<1>2. PICK status \in Statuses : EndsRun(status)
  BY <1>1 DEF Exits
<1>3. box' = "none" /\ reports' \in Seq(Statuses) /\ (box = "none" => reports' = reports)
  BY <1>2, RunEnds DEF IInv, Typed
<1>4. UNCHANGED <<card, age, launch, sweep>>
  BY DEF Exits, KeepCard, cm
<1>5. Typed'
  BY <1>3, <1>4 DEF IInv, Typed
<1>6. Lost'
  BY <1>3, <1>4, RunGoes DEF IInv
<1>7. QED
  BY <1>5, <1>6 DEF IInv

LEMMA VanishesStep == ASSUME IInv, Vanishes PROVE IInv'
<1>1. UNCHANGED <<card, age, launch>>
  BY DEF Vanishes, KeepCard
<1>2. CASE box # "none" /\ box' = "none" /\ UNCHANGED <<reports, sweep>>
  BY <1>1, <1>2, RunGoes DEF IInv, Typed
<1>3. CASE NextReport /\ UNCHANGED box
  BY <1>1, <1>3, Popped, RunGoes DEF IInv, Typed
<1>4. QED
  BY <1>2, <1>3 DEF Vanishes

LEMMA ReportsStep == ASSUME IInv, Reports PROVE IInv'
<1>1. NextReport /\ UNCHANGED <<box, launch>> /\ UpdateWorkerStatus(Head(reports))
  BY DEF Reports
<1>2. Typed /\ card \in Cards /\ Head(reports) \in Statuses
  BY <1>1, Popped DEF IInv, Typed
<1>3. card' \in Cards /\ ((card' = card /\ age' = age) \/ age' = "new")
  BY <1>1, <1>2, Updated
<1>4. Typed'
  BY <1>1, <1>2, <1>3, Popped DEF Typed
<1>5. CASE card' = card /\ age' = age
  BY <1>1, <1>2, <1>4, <1>5, Popped, RunGoes DEF IInv
<1>6. CASE age' = "new"
  <2>1. Marked'
    BY <1>1, <1>2, Popped DEF IInv, Lost, Marked
  <2>2. QED
    BY <1>4, <1>6, <2>1, NewIsQuiet DEF IInv
<1>7. QED
  BY <1>3, <1>5, <1>6

LEMMA WorksStep == ASSUME IInv, Works PROVE IInv'
<1>1. UNCHANGED <<box, reports, sweep, launch>>
  BY DEF Works, KeepRun
<1>2. PICK q \in Cards : Write(q)
  BY WrittenCards DEF Works, IInv
<1>3. QED
  BY <1>1, <1>2, Writes DEF IInv, Typed

LEMMA EditsStep == ASSUME IInv, Edits PROVE IInv'
<1>1. UNCHANGED <<box, reports, sweep, launch>>
  BY DEF Edits, KeepRun
<1>2. PICK q \in Cards : Write(q)
  BY WrittenCards DEF Edits, IInv
<1>3. QED
  BY <1>1, <1>2, Writes DEF IInv, Typed

\* A launch begins on a card without a live worker, and writes it before it goes on.
LEMMA LaunchesStep == ASSUME IInv, Launches PROVE IInv'
<1> USE DEF IInv
<1>1. UNCHANGED <<reports, sweep>>
  BY DEF Launches
<1>2. CASE LaunchReads /\ UNCHANGED box
  <2>1. ~Live(card) /\ launch' = "mark" /\ UNCHANGED <<card, age, box>>
    BY <1>2 DEF LaunchReads, KeepCard
  <2>2. Typed'
    BY <1>1, <2>1 DEF Typed
  <2>3. Lost'
    BY <1>1, <2>1 DEF Lost, Aged, Listed, Missed, Owed, Twice, Marked, OldWorker, Live
  <2>4. QED
    BY <2>2, <2>3
<1>3. CASE MarkQueued /\ UNCHANGED box
  <2>1. CASE launch' = "idle" /\ KeepCard
    BY <1>1, <1>3, <2>1, RunGoes DEF KeepCard, Typed
  <2>2. CASE launch' = "send" /\ Write([card EXCEPT !.worker = "queued"])
    BY <1>1, <1>3, <2>2, WrittenCards, Writes
  <2>3. QED
    BY <1>3, <2>1, <2>2 DEF MarkQueued
<1>4. CASE Trigger
  <2>1. /\ launch = "send" /\ UNCHANGED <<card, age>> /\ launch' \in {"idle", "revert"}
        /\ box' = box \/ box' = "coming"
    BY <1>4 DEF Trigger, KeepCard
  <2>2. ~OldWorker
    BY <2>1 DEF OldWorker, Lost, Aged
  <2>3. Typed'
    BY <1>1, <2>1 DEF Typed
  <2>4. Lost'
    BY <1>1, <2>1, <2>2 DEF Lost, Aged, Listed, Missed, Owed, Twice, Marked, OldWorker, Live
  <2>5. QED
    BY <2>3, <2>4
<1>5. CASE Revert /\ UNCHANGED box
  <2>1. launch' = "idle" /\ UpdateWorkerStatus("failed") /\ "failed" \in Statuses
    BY <1>5 DEF Revert, Statuses
  <2>2. card' \in Cards /\ ((card' = card /\ age' = age) \/ age' = "new")
    BY <2>1, Updated DEF Typed
  <2>3. Typed'
    BY <1>1, <1>5, <2>1, <2>2 DEF Typed
  <2>4. CASE card' = card /\ age' = age
    BY <1>1, <1>5, <2>1, <2>3, <2>4, RunGoes
  <2>5. CASE age' = "new"
    <3>1. Marked'
      BY <1>1 DEF Lost, Marked
    <3>2. QED
      BY <2>3, <2>5, <3>1, NewIsQuiet
  <2>6. QED
    BY <2>2, <2>4, <2>5
<1>6. QED
  BY <1>2, <1>3, <1>4, <1>5 DEF Launches

LEMMA StopsStep == ASSUME IInv, Stops PROVE IInv'
<1> USE DEF IInv
<1>1. UNCHANGED <<launch, sweep>>
  BY DEF Stops
<1>2. CASE StopReads
  BY <1>1, <1>2, RunGoes DEF StopReads, KeepCard, KeepRun, Typed
<1>3. CASE StopKills
  BY <1>1, <1>3, Killed, RunGoes DEF StopKills, KeepCard, Typed
<1>4. CASE StopMarks
  <2>1. UpdateWorkerStatus("killed") /\ "killed" \in Statuses /\ UNCHANGED <<box, reports>>
    BY <1>4 DEF StopMarks, KeepRun, Statuses
  <2>2. card' \in Cards /\ ((card' = card /\ age' = age) \/ age' = "new")
    BY <2>1, Updated DEF Typed
  <2>3. Typed'
    BY <1>1, <2>1, <2>2 DEF Typed
  <2>4. CASE card' = card /\ age' = age
    BY <1>1, <2>1, <2>3, <2>4, RunGoes
  <2>5. CASE age' = "new"
    <3>1. Marked'
      BY <1>1 DEF Lost, Marked
    <3>2. QED
      BY <2>3, <2>5, <3>1, NewIsQuiet
  <2>6. QED
    BY <2>2, <2>4, <2>5
<1>5. QED
  BY <1>2, <1>3, <1>4 DEF Stops

LEMMA SubscriberStep == ASSUME IInv, Subscriber PROVE IInv'
<1>1. UNCHANGED <<card, age, launch, sweep>>
  BY DEF Subscriber, KeepCard
<1>2. CASE KeepRun
  BY <1>1, <1>2, RunGoes DEF KeepRun, IInv, Typed
<1>3. CASE Kill
  BY <1>1, <1>3, Killed, RunGoes DEF IInv, Typed
<1>4. QED
  BY <1>2, <1>3 DEF Subscriber, EndSessionAndKill

-----------------------------------------------------------------------------
(* The sweep.                                                               *)

\* A listing: what was missed before it and is old had one interval to report.
LEMMA ListStep == ASSUME IInv, List, launch' = launch PROVE IInv'
<1> USE DEF IInv
<1>1. UNCHANGED <<card, box, reports, launch>> /\ sweep.pc = "idle" /\ sweep \in Sweeping
  BY DEF List, KeepRun, KeepCard, SweepAt, Typed
<1>2. Len(reports) \in Nat /\ (Len(reports) <= 0 => reports = <<>>)
  BY DEF Typed
<1>3. CASE sweep' = sweep /\ KeepCard
  BY <1>1, <1>3, RunGoes DEF KeepCard, Typed
<1>4. CASE ~(sweep' = sweep /\ KeepCard)
  <2>1. /\ sweep.owed = 0 /\ age' = IF age = "new" THEN "seen" ELSE age
        /\ sweep' = [sweep EXCEPT !.pc = "decide", !.listed = (box = "up"), !.owed = Len(reports)]
    BY <1>4 DEF List
  <2>2. /\ sweep' \in Sweeping /\ sweep'.pc = "decide" /\ sweep'.listed = (box = "up")
        /\ sweep'.missed = sweep.missed /\ sweep'.owed = Len(reports)
    BY <1>1, <1>2, <2>1 DEF Sweeping
  <2>3. Typed'
    BY <1>1, <2>1, <2>2 DEF Typed
  <2>4. Aged' /\ Listed' /\ Missed' /\ Marked'
    BY <1>1, <2>1, <2>2 DEF Lost, Aged, Listed, Missed, Marked, Live
  <2>5. Owed' /\ Twice'
    BY <1>1, <1>2, <2>1, <2>2 DEF Lost, Owed, Twice, OldWorker, Live
  <2>6. QED
    BY <2>3, <2>4, <2>5 DEF Lost
<1>5. QED
  BY <1>3, <1>4

LEMMA SweepGoes ==
    ASSUME sweep \in Sweeping, NEW p \in {"idle", "decide", "kill", "cards", "mark"}, SweepGoto(p)
    PROVE  /\ sweep' \in Sweeping /\ sweep'.pc = p /\ sweep'.listed = sweep.listed
           /\ sweep'.missed = sweep.missed /\ sweep'.owed = sweep.owed
  BY DEF SweepGoto, Sweeping

LEMMA DecidesStep == ASSUME IInv, DecideKill \/ SweepKills, launch' = launch PROVE IInv'
<1> USE DEF IInv
<1>1. PICK p \in {"kill", "cards"} : SweepGoto(p)
  BY DEF DecideKill, SweepKills
<1>2. UNCHANGED <<card, age>> /\ sweep.pc # "idle" /\ sweep \in Sweeping
  BY DEF DecideKill, SweepKills, KeepCard, SweepAt, Typed
<1>3. /\ box' \in {box, "none"} /\ reports' \in Seq(Statuses)
      /\ box = "none" => reports' = reports
  BY Killed DEF DecideKill, SweepKills, KeepRun, Typed
<1>4. /\ sweep' \in Sweeping /\ sweep'.pc = p /\ sweep'.listed = sweep.listed
      /\ sweep'.missed = sweep.missed /\ sweep'.owed = sweep.owed
  BY <1>1, <1>2, SweepGoes
<1>5. Typed'
  BY <1>2, <1>3, <1>4 DEF Typed
<1>6. Lost'
  BY <1>2, <1>3, <1>4, RunGoes
<1>7. QED
  BY <1>5, <1>6

LEMMA ReadsStep == ASSUME IInv, ReadLiveCards, launch' = launch PROVE IInv'
<1> USE DEF IInv
<1>1. UNCHANGED <<card, age, box, reports>> /\ sweep.pc = "cards" /\ sweep \in Sweeping
  BY DEF ReadLiveCards, KeepRun, KeepCard, SweepAt, Typed
<1>2. /\ sweep' \in Sweeping /\ sweep'.listed = sweep.listed /\ sweep'.owed = sweep.owed
      /\ \/ sweep'.pc = "idle" /\ ~sweep'.missed
         \/ /\ sweep'.missed <=> Live(card) /\ ~sweep.listed
            /\ sweep'.pc = IF sweep'.missed /\ sweep.missed /\ age = "old" THEN "mark" ELSE "idle"
  <2>1. CASE sweep' = [sweep EXCEPT !.missed = FALSE, !.pc = "idle"]
    BY <1>1, <2>1 DEF Sweeping
  <2> DEFINE m == Live(card) /\ ~sweep.listed
             p == IF m /\ sweep.missed /\ age = "old" THEN "mark" ELSE "idle"
  <2>2. CASE sweep' = [sweep EXCEPT !.missed = m, !.pc = p]
    <3>1. m \in BOOLEAN /\ p \in {"idle", "mark"}
      BY DEF Live
    <3>2. sweep' \in Sweeping /\ sweep'.listed = sweep.listed /\ sweep'.owed = sweep.owed
          /\ sweep'.missed = m /\ sweep'.pc = p
      <4> HIDE DEF m, p
      <4>1. QED
        BY <1>1, <2>2, <3>1 DEF Sweeping
    <3>3. QED
      BY <3>2
  <2>3. QED
    BY <2>1, <2>2 DEF ReadLiveCards
<1>3. Typed'
  BY <1>1, <1>2 DEF Typed
<1>4. Aged' /\ Listed' /\ Missed' /\ Marked'
  BY <1>1, <1>2 DEF Lost, Aged, Listed, Missed, Marked, Live
<1>5. Owed' /\ Twice'
  BY <1>1, <1>2 DEF Lost, Owed, Twice, OldWorker, Live
<1>6. QED
  BY <1>3, <1>4, <1>5 DEF Lost

LEMMA FailsStep == ASSUME IInv, FailLostWorker, launch' = launch PROVE IInv'
<1> USE DEF IInv
<1>1. UNCHANGED <<box, reports>> /\ sweep.pc = "mark" /\ sweep \in Sweeping /\ SweepGoto("idle")
  BY DEF FailLostWorker, KeepRun, SweepAt, Typed
<1>2. /\ sweep' \in Sweeping /\ sweep'.pc = "idle" /\ sweep'.listed = sweep.listed
      /\ sweep'.missed = sweep.missed /\ sweep'.owed = sweep.owed
  BY <1>1, SweepGoes
<1>3. card' \in Cards /\ ((card' = card /\ age' = age) \/ age' = "new")
  <2>1. "failed" \in Statuses
    BY DEF Statuses
  <2>2. QED
    BY <2>1, Updated DEF FailLostWorker, KeepCard, Typed
<1>4. Typed'
  BY <1>1, <1>2, <1>3 DEF Typed
<1>5. CASE age' = "new"
  <2>1. Marked'
    BY <1>2 DEF Marked
  <2>2. QED
    BY <1>4, <1>5, <2>1, NewIsQuiet
<1>6. CASE card' = card /\ age' = age
  <2>1. Aged' /\ Listed' /\ Missed' /\ Marked'
    BY <1>1, <1>2, <1>6 DEF Lost, Aged, Listed, Missed, Marked, Live
  <2>2. Owed' /\ Twice'
    BY <1>1, <1>2, <1>6 DEF Lost, Owed, Twice, OldWorker, Live
  <2>3. QED
    BY <1>4, <2>1, <2>2 DEF Lost
<1>7. QED
  BY <1>3, <1>5, <1>6

\* The grace has passed: nothing is under way for the card.
LEMMA AgeStep == ASSUME IInv, Age PROVE IInv'
<1> USE DEF IInv
<1>1. /\ UNCHANGED <<card, box, reports, launch, sweep>> /\ age = "seen" /\ age' = "old"
      /\ launch = "idle" /\ box # "coming" /\ reports = <<>> /\ sweep.pc = "idle"
  BY DEF Age, KeepRun, cm
<1>2. Len(reports) = 0 /\ sweep.owed \in Nat
  BY <1>1 DEF Typed, Sweeping
<1>3. Typed'
  BY <1>1 DEF Typed
<1>4. Lost'
  BY <1>1, <1>2 DEF Lost, Aged, Listed, Missed, Owed, Twice, Marked, OldWorker, Live
<1>5. QED
  BY <1>3, <1>4

LEMMA RestartStep == ASSUME IInv, Restart PROVE IInv'
<1> USE DEF IInv
<1>1. /\ UNCHANGED <<card, age, box, reports>> /\ launch' = "idle" /\ sweep \in Sweeping
      /\ sweep' = [NoSweep EXCEPT !.owed = sweep.owed]
  BY DEF Restart, KeepCard, KeepRun, Typed
<1>2. sweep' \in Sweeping /\ sweep'.pc = "idle" /\ ~sweep'.missed
  BY <1>1 DEF NoSweep, Sweeping
<1>3. Typed'
  BY <1>1, <1>2 DEF Typed
<1>4. Lost'
  BY <1>1, <1>2 DEF Lost, Aged, Listed, Missed, Owed, Twice, Marked, OldWorker, Live
<1>5. QED
  BY <1>3, <1>4

-----------------------------------------------------------------------------

LEMMA InitIInv == Init => IInv
<1> SUFFICES ASSUME Init PROVE IInv
  OBVIOUS
<1>1. <<>> \in Seq(Statuses)
  OBVIOUS
<1>2. Typed
  BY <1>1 DEF Init, Typed, Cards, Statuses, Sweeping, NoSweep
<1>3. age = "new" /\ sweep.pc = "idle"
  BY DEF Init, NoSweep
<1>4. Lost
  BY <1>3 DEF Lost, Aged, Listed, Missed, Owed, Twice, Marked, OldWorker
<1>5. QED
  BY <1>2, <1>4 DEF IInv

LEMMA StepIInv == IInv /\ [Next]_vars => IInv'
<1> SUFFICES ASSUME IInv, [Next]_vars PROVE IInv'
  OBVIOUS
<1>1. CASE UNCHANGED vars
  BY <1>1 DEF IInv, Typed, Lost, Aged, Listed, Missed, Owed, Twice, Marked, OldWorker, Live,
              vars, cm
<1>2. CASE Sweeps
  BY <1>2, ListStep, DecidesStep, ReadsStep, FailsStep DEF Sweeps
<1>3. CASE GuardExpires
  BY <1>3, RunGoes DEF GuardExpires, KeepCard, KeepRun, IInv, Typed
<1>4. QED
  BY <1>1, <1>2, <1>3, UpStep, ExitsStep, VanishesStep, ReportsStep, WorksStep, EditsStep,
     LaunchesStep, StopsStep, SubscriberStep, AgeStep, RestartStep DEF Next

LEMMA Inductive == Spec => []IInv
  BY InitIInv, StepIInv, PTL DEF Spec

\* failLostWorkers never takes a worker that runs, starts or is about to report for a lost
\* one: the card it marks has no container, none is being started for it, and no callback of
\* a run is on its way, however launches, stops, exits, lost calls and restarts fall between
\* the two listings that missed it.
THEOREM LostIsLost == Spec => NoFalseLoss
<1> DEFINE Marks == SweepAt("mark") /\ sweep'.pc = "idle" /\ card' # card
<1>1. ASSUME IInv, Next, Marks
      PROVE  box = "none" /\ reports = <<>> /\ launch \notin {"send", "revert"}
  <2>1. sweep.pc = "mark" /\ sweep \in Sweeping
    BY <1>1 DEF SweepAt, IInv, Typed
  <2>2. Sweeps \/ Restart
    <3>1. Vanishes \/ Reports => sweep'.pc = sweep.pc
      BY <1>1, Popped DEF Vanishes, Reports, IInv
    <3>2. \/ Up \/ Exits \/ Works \/ Edits \/ Launches \/ Stops \/ Subscriber \/ GuardExpires
          \/ Age
          => sweep' = sweep
      BY DEF Up, Exits, Works, Edits, Launches, Stops, Subscriber, GuardExpires, Age, cm
    <3>3. QED
      BY <1>1, <2>1, <3>1, <3>2 DEF Next
  <2>3. FailLostWorker /\ ~WorkerNotLost
    BY <1>1, <2>1, <2>2 DEF Sweeps, List, DecideKill, SweepKills, ReadLiveCards, FailLostWorker,
                            SweepAt, Restart, KeepCard
  <2>4. OldWorker /\ sweep.missed /\ ~sweep.listed
    BY <1>1, <2>1, <2>3 DEF WorkerNotLost, OldWorker, IInv, Lost, Marked
  <2>5. QED
    BY <1>1, <2>1, <2>4 DEF OldWorker, IInv, Typed, Lost, Aged, Listed, Twice
<1>2. IInv /\ [Next]_vars
      => [Marks => box = "none" /\ reports = <<>> /\ launch \notin {"send", "revert"}]_vars
  BY <1>1
<1>3. QED
  BY <1>2, Inductive, PTL DEF Spec, NoFalseLoss
=============================================================================
