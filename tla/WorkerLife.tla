----------------------------- MODULE WorkerLife -----------------------------
(***************************************************************************)
(* One card and the worker that runs it: the launch and the stop of a      *)
(* worker, the status callbacks of the agent backend, and the two cleanups *)
(* that decide whether its container may run: the end-session subscriber,  *)
(* fed by a lossy event bus, and the reconcile sweep, which also finds     *)
(* workers that were lost.                                                 *)
(*                                                                         *)
(* The claim is a worker's: only that there is one matters.  busy stands   *)
(* for every state that is neither todo nor terminal, done for the         *)
(* terminal ones.                                                          *)
(***************************************************************************)
EXTENDS Integers, SequencesExt

CONSTANT Settings  \* what each behaviour may start with: whether the reconcile sweep
                   \* is enabled, and the Budget

\* Steps that are bounded: a person's launches, stops and edits, faults of the
\* backend, the network and the store, restarts of the process.
Budget == {"launches", "stops", "edits", "faults", "restarts"}

ASSUME WorkerAssumption ==
    \A s \in Settings : s.sweeps \in BOOLEAN /\ \A k \in Budget : s[k] \in Nat

VARIABLES
    sweeps,   \* whether reconcile_interval is not zero
    card,     \* the card: state, claimed, worker_status
    age,      \* since the last write of the card or the start of its container:
              \* new, seen by a listing since, or old: StaleWorkerGrace has passed
    box,      \* the card's run in the backend: none, coming, up
    reports,  \* its status callbacks on their way, in order
    events,   \* card.released and card.state_changed events not acted upon, up to 2:
              \* a later one is one with those that are handled after it
    guard,    \* the cleanup guard has an unexpired entry for the card
    rounds,   \* end-session rounds whose kill is still to be sent
    launch,   \* where the launch in progress stands
    stop,     \* where the stop in progress stands
    sweep,    \* the sweep: pc, the container it listed, the miss of the listing
              \* before, and the reports that were on their way at that time
    left      \* what is left of each budget

cm == <<events, guard, rounds, launch, stop, sweep>>
vars == <<sweeps, card, age, box, reports, cm, left>>

InFlight == {"queued", "running"}
Live(c) == c.state # "gone" /\ c.worker \in InFlight
Over(c) == c.state \in {"done", "gone"}
NoSweep == [pc |-> "idle", listed |-> FALSE, missed |-> FALSE, owed |-> 0]

Init ==
    /\ \E s \in Settings : sweeps = s.sweeps /\ left = [k \in Budget |-> s[k]]
    /\ card = [state |-> "todo", claimed |-> FALSE, worker |-> ""]
    /\ age = "new" /\ box = "none" /\ reports = <<>>
    /\ events = 0 /\ guard = FALSE /\ rounds = 0
    /\ launch = "idle" /\ stop = "idle" /\ sweep = NoSweep

Spend(k) == left[k] > 0 /\ left' = [left EXCEPT ![k] = @ - 1]
Free == UNCHANGED left

Write(c) == card' = c /\ age' = "new"
KeepCard == UNCHANGED <<card, age>>
KeepRun == UNCHANGED <<box, reports>>

-----------------------------------------------------------------------------
(* The card's writes.                                                       *)

\* What updateWorkerStatus makes of the card c.
Ignored(c, status) ==
    \/ c.state = "gone"
    \/ c.worker = "killed" /\ (status = "running" \/ (status = "failed" /\ c.state # "done"))

Normalized(c, status) ==
    IF c.state = "done" /\ status \in {"failed", "killed"} THEN "completed" ELSE status

Recorded(c, status) ==
    LET s == Normalized(c, status) IN
    [c EXCEPT
        !.claimed = @ /\ s \in InFlight,
        !.worker = CASE s # "completed" -> s
                     [] c.worker = "parked" -> "parked"
                     [] OTHER -> ""]

UpdateWorkerStatus(status) ==
    IF Ignored(card, status) THEN KeepCard ELSE Write(Recorded(card, status))

\* A card that enters state s, with clearStaleWorkerFailure.
Moved(c, s) ==
    [c EXCEPT !.state = s,
              !.worker = IF s # "done" /\ @ \in {"failed", "killed"} THEN "" ELSE @]

\* A claim taken away from a worker that is presumed dead.
Unclaimed(c) ==
    [c EXCEPT !.claimed = FALSE, !.worker = IF @ \in InFlight THEN "failed" ELSE @]

Publish == events' = IF events = 2 THEN 2 ELSE events + 1

-----------------------------------------------------------------------------
(* The backend and the worker.                                              *)

\* A kill ends the run, if there is one, and the run reports its end.
EndsRun(status) ==
    /\ box' = "none"
    /\ reports' = IF box = "none" THEN reports ELSE Append(reports, status)

\* The image is there and the container starts: not before the callbacks of an
\* earlier run are in and a stop that has sent its kill has written the card;
\* and a run lasts longer than cleanupGuardTTL.
Up ==
    /\ box = "coming" /\ reports = <<>> /\ ~guard /\ stop # "mark"
    /\ box' = "up" /\ reports' = <<"running">> /\ age' = "new"
    /\ UNCHANGED <<sweeps, card, cm, left>>

\* The pull fails, or the worker exits.
Exits ==
    /\ \/ box = "coming" /\ EndsRun("failed")
       \/ box = "up" /\ \E status \in {"completed", "failed"} : EndsRun(status)
    /\ KeepCard /\ UNCHANGED <<sweeps, cm, left>>

NextReport ==
    /\ reports # <<>> /\ reports' = Tail(reports)
    /\ sweep' = [sweep EXCEPT !.owed = IF @ = 0 THEN 0 ELSE @ - 1]

\* A crash of the backend loses the run, or a callback is given up.
Vanishes ==
    /\ Spend("faults")
    /\ \/ box # "none" /\ box' = "none" /\ UNCHANGED <<reports, sweep>>
       \/ NextReport /\ UNCHANGED box
    /\ KeepCard /\ UNCHANGED <<sweeps, events, guard, rounds, launch, stop>>

Reports ==
    /\ NextReport /\ UpdateWorkerStatus(Head(reports))
    /\ UNCHANGED <<sweeps, box, events, guard, rounds, launch, stop, left>>

\* The worker's calls: claim_card, the two halves of complete_task,
\* report_parked.
Works ==
    /\ box = "up"
    /\ \/ /\ card.state = "todo" /\ ~card.claimed
          /\ Write([Moved(card, "busy") EXCEPT !.claimed = TRUE]) /\ Publish
       \/ card.state = "busy" /\ card.claimed /\ Write(Moved(card, "done")) /\ Publish
       \/ card.claimed /\ Write([card EXCEPT !.claimed = FALSE]) /\ Publish
       \/ /\ card.claimed /\ card.worker # "parked" /\ UNCHANGED events
          /\ Write([card EXCEPT !.worker = "parked"])
    /\ KeepRun /\ UNCHANGED <<sweeps, guard, rounds, launch, stop, sweep, left>>

\* A person moves, deletes or frees the card, or its claim is found stalled.
Edits ==
    /\ Spend("edits")
    /\ \/ /\ ~card.claimed /\ card.state # "gone" /\ Publish
          /\ \E s \in {"todo", "done"} \ {card.state} : Write(Moved(card, s))
       \/ /\ card.state \in {"todo", "busy"} => ~Live(card)
          /\ card.state # "gone" /\ UNCHANGED events
          /\ Write([card EXCEPT !.state = "gone", !.claimed = FALSE])
       \/ card.claimed /\ Write(Unclaimed(card)) /\ Publish
       \/ /\ card.claimed /\ card.state # "done" /\ UNCHANGED events
          /\ Write([Unclaimed(card) EXCEPT !.state = "busy"])
    /\ KeepRun /\ UNCHANGED <<sweeps, guard, rounds, launch, stop, sweep>>

-----------------------------------------------------------------------------
(* Launch and stop.                                                         *)

\* Nobody runs a card whose stop has not been answered.
LaunchReads ==
    /\ launch = "idle" /\ stop = "idle"
    /\ card.state = "todo" /\ ~Live(card) /\ Spend("launches")
    /\ launch' = "mark" /\ KeepCard

MarkQueued ==
    /\ launch = "mark" /\ Free
    /\ IF card.state = "gone" \/ Live(card) THEN launch' = "idle" /\ KeepCard
       ELSE launch' = "send" /\ Write([card EXCEPT !.worker = "queued"])

\* The trigger is accepted, or refused, as it is when the backend has the run
\* already, or accepted with its answer lost.
Trigger ==
    /\ launch = "send" /\ KeepCard
    /\ \/ box = "none" /\ box' = "coming" /\ launch' = "idle" /\ Free
       \/ launch' = "revert" /\ UNCHANGED box /\ Free
       \/ box = "none" /\ box' = "coming" /\ launch' = "revert" /\ Spend("faults")

Revert == launch = "revert" /\ launch' = "idle" /\ UpdateWorkerStatus("failed") /\ Free

Launches ==
    /\ \/ LaunchReads /\ UNCHANGED box
       \/ MarkQueued /\ UNCHANGED box
       \/ Trigger
       \/ Revert /\ UNCHANGED box
    /\ UNCHANGED <<sweeps, reports, events, guard, rounds, stop, sweep>>

\* A kill the backend answers, or one that fails on the way there or back.
Kill ==
    \/ EndsRun("failed") /\ Free
    \/ (KeepRun \/ EndsRun("failed")) /\ Spend("faults")

StopReads == stop = "idle" /\ Live(card) /\ stop' = "kill" /\ Spend("stops") /\ KeepCard /\ KeepRun

StopKills ==
    /\ stop = "kill" /\ Kill /\ KeepCard
    /\ stop' = IF left' = left THEN "mark" ELSE "idle"

StopMarks == stop = "mark" /\ stop' = "idle" /\ UpdateWorkerStatus("killed") /\ KeepRun /\ Free

Stops ==
    /\ (StopReads \/ StopKills \/ StopMarks)
    /\ UNCHANGED <<sweeps, events, guard, rounds, launch, sweep>>

-----------------------------------------------------------------------------
(* The end-session subscriber.                                              *)

ShouldEndSession(c) == c.state = "done" /\ ~c.claimed

\* Mutant: the round is claimed before the card is looked at.
MutantHandleEvent ==
    /\ events > 0 /\ events' = events - 1 /\ guard' = TRUE /\ Free
    /\ rounds' = IF ShouldEndSession(card) /\ ~guard THEN rounds + 1 ELSE rounds

\* An event's goroutine reads the card and claims the round; the read may fail.
HandleEvent ==
    /\ events > 0 /\ events' = events - 1
    /\ \/ IF ShouldEndSession(card) /\ ~guard
          THEN guard' = TRUE /\ rounds' = rounds + 1 /\ Free
          ELSE UNCHANGED <<guard, rounds, left>>
       \/ Spend("faults") /\ UNCHANGED <<guard, rounds>>

\* The bus drops an event.
DropEvent == events > 0 /\ events' = events - 1 /\ Spend("faults") /\ UNCHANGED <<guard, rounds>>

\* endSessionAndKill; on end-session the worker may exit, and does on kill.
EndSessionAndKill ==
    /\ rounds > 0 /\ rounds' = rounds - 1 /\ Kill
    /\ UNCHANGED <<events, guard>>

Subscriber ==
    /\ \/ (HandleEvent \/ DropEvent) /\ KeepRun
       \/ EndSessionAndKill
    /\ KeepCard /\ UNCHANGED <<sweeps, launch, stop, sweep>>

GuardExpires ==
    /\ guard /\ rounds = 0 /\ guard' = FALSE
    /\ KeepCard /\ KeepRun /\ UNCHANGED <<sweeps, events, rounds, launch, stop, sweep, left>>

-----------------------------------------------------------------------------
(* The reconcile sweep.                                                     *)

SweepAt(pc) == sweeps /\ sweep.pc = pc
SweepGoto(pc) == sweep' = [sweep EXCEPT !.pc = pc]

\* ListContainers; a callback outlasts no interval between two listings.
List ==
    /\ SweepAt("idle") /\ KeepRun
    /\ \/ /\ sweep.owed = 0 /\ Free
          /\ sweep' = [sweep EXCEPT !.pc = "decide", !.listed = box = "up", !.owed = Len(reports)]
          /\ age' = IF age = "new" THEN "seen" ELSE age
          /\ UNCHANGED card
       \/ Spend("faults") /\ KeepCard /\ UNCHANGED sweep

\* decideKill for the card's container, which may be over its maximum age; the
\* read of the card may fail.
DecideKill ==
    /\ SweepAt("decide") /\ KeepRun /\ KeepCard
    /\ \/ sweep.listed /\ Over(card) /\ SweepGoto("kill") /\ Free
       \/ sweep.listed /\ ~Over(card) /\ Spend("faults") /\ SweepGoto("kill")
       \/ ~(sweep.listed /\ Over(card)) /\ SweepGoto("cards") /\ Free
       \/ sweep.listed /\ Spend("faults") /\ SweepGoto("cards")

SweepKills == SweepAt("kill") /\ Kill /\ SweepGoto("cards") /\ KeepCard

\* Mutant: one miss is enough.
MutantReadLiveCards ==
    /\ SweepAt("cards") /\ KeepRun /\ KeepCard /\ Free
    /\ LET missed == Live(card) /\ ~sweep.listed IN
       sweep' = [sweep EXCEPT !.missed = missed,
                   !.pc = IF missed /\ age = "old" THEN "mark" ELSE "idle"]

\* Mutant: a miss is forgotten by the next tick.
MutantForgets ==
    /\ SweepAt("cards") /\ KeepRun /\ KeepCard /\ Free
    /\ sweep' = [sweep EXCEPT !.missed = FALSE, !.pc =
                   IF Live(card) /\ ~sweep.listed /\ sweep.missed /\ age = "old" THEN "mark" ELSE "idle"]

\* failLostWorkers: this listing's misses replace the last one's; none when
\* the live workers cannot be read.
ReadLiveCards ==
    /\ SweepAt("cards") /\ KeepRun /\ KeepCard
    /\ \/ LET missed == Live(card) /\ ~sweep.listed IN
          /\ sweep' = [sweep EXCEPT !.missed = missed,
                         !.pc = IF missed /\ sweep.missed /\ age = "old" THEN "mark" ELSE "idle"]
          /\ Free
       \/ sweep' = [sweep EXCEPT !.missed = FALSE, !.pc = "idle"] /\ Spend("faults")

\* Mutant: the guard looks at the status alone.
MutantNotLost == ~Live(card)

WorkerNotLost == ~Live(card) \/ age # "old"

FailLostWorker ==
    /\ SweepAt("mark") /\ SweepGoto("idle") /\ KeepRun /\ Free
    /\ IF WorkerNotLost THEN KeepCard ELSE UpdateWorkerStatus("failed")

Sweeps ==
    /\ (List \/ DecideKill \/ SweepKills \/ ReadLiveCards \/ FailLostWorker)
    /\ UNCHANGED <<sweeps, events, guard, rounds, launch, stop>>

\* StaleWorkerGrace passes: it is longer than a launch, the pull of the image, a
\* callback and an interval of the sweep take together, and than a sweep.
Age ==
    /\ age = "seen" /\ launch = "idle" /\ box # "coming" /\ reports = <<>>
    /\ sweep.pc = "idle"
    /\ age' = "old"
    /\ KeepRun /\ UNCHANGED <<sweeps, card, cm, left>>

-----------------------------------------------------------------------------
\* The process ends; the next one sweeps at once and has missed nothing yet.
Restart ==
    /\ Spend("restarts")
    /\ events' = 0 /\ guard' = FALSE /\ rounds' = 0
    /\ launch' = "idle" /\ stop' = "idle" /\ sweep' = [NoSweep EXCEPT !.owed = sweep.owed]
    /\ KeepCard /\ KeepRun /\ UNCHANGED sweeps

Next ==
    \/ Up \/ Exits \/ Vanishes \/ Reports \/ Works \/ Edits
    \/ Launches \/ Stops \/ Subscriber \/ GuardExpires
    \/ Sweeps \/ Age \/ Restart

\* Goroutines run, callbacks arrive or are given up, time passes.  Nothing
\* makes a worker work or exit, or a person act.
Fairness ==
    /\ WF_vars(Reports) /\ WF_vars(launch # "idle" /\ Launches) /\ WF_vars(stop # "idle" /\ Stops)
    /\ WF_vars(Subscriber) /\ WF_vars(Sweeps) /\ WF_vars(GuardExpires) /\ SF_vars(Age)

Spec == Init /\ [][Next]_vars /\ Fairness

-----------------------------------------------------------------------------
(* Properties.                                                              *)

\* failLostWorkers: the sweep records a worker as lost only when the card has
\* no container, none is being started for it, and no report of its exit is
\* still to come.
NoFalseLoss ==
    [][SweepAt("mark") /\ sweep'.pc = "idle" /\ card' # card =>
         box = "none" /\ reports = <<>> /\ launch \notin {"send", "revert"}]_vars

\* endSessionAndKill: "a terminal-state card never leaves a live container
\* behind".  Without the sweep, and with no event or call lost, the subscriber
\* alone ends the container of a card that is done and released; with it, that
\* of every card that is done or deleted, whatever is lost or restarted.
CleanedUp ==
    []<>~(box = "up" /\ IF sweeps THEN Over(card) ELSE ShouldEndSession(card))

\* A card does not stay queued or running without a container, whatever
\* launch, stop, callback, crash or restart left it so.
LostIsNoticed == []<>~(Live(card) /\ box = "none")
=============================================================================
