---------------------------- MODULE PlaybookRun ----------------------------
(***************************************************************************)
(* One playbook's run on the instance that owns it: the calls Play and     *)
(* Stop, the walker goroutine that makes reconcile passes over the         *)
(* entries, the launch of a card's worker, edits of the playbook, hand     *)
(* runs, workers that finish or fail, a shutdown and a crash.              *)
(*                                                                         *)
(* A playbook write is visible in the store before its commit is answered, *)
(* and is undone there when the commit fails; mutex stands for             *)
(* PlaybookService.writeMu, held from the write to the answer.             *)
(***************************************************************************)
EXTENDS Integers, SequencesExt

CONSTANTS
    Card,         \* cards, each an entry or one that can be added
    Manual,       \* manual steps
    Initial,      \* the entries at the start, in order
    NoEntry,      \* no entry
    Slot,         \* walker goroutines that can exist at one time
    Bound,        \* bounds: "calls" to the service, what "people" do to cards,
                  \* "faults" (failed commits, launches, kills), "restarts"
    MaxEvents     \* bound on all of them together

Entry == Card \cup Manual

ASSUME RunAssumption ==
    /\ Card \cap Manual = {} /\ NoEntry \notin Entry
    /\ Initial \in Seq(Entry) /\ IsInjective(Initial)
    /\ IsFiniteSet(Slot) /\ Slot \subseteq Nat \ {0} /\ Slot # {}
    /\ Bound \in [{"calls", "people", "faults", "restarts"} -> Nat] /\ MaxEvents \in Nat

VARIABLES
    card,         \* state, worker_status and the container behind it
    playbook,     \* entries, checked-off steps, ids handed out, runnable, run
    mutex,        \* who holds the playbooks' writeMu, and what a failure restores
    walker,       \* r.walkers[id]: the registered walker's slot, or 0
    exiting,      \* r.exiting[id]: the walker Stop last cancelled, or 0
    walk,         \* the walker goroutines
    control,      \* the Play or Stop that holds the control token
    closed,       \* the shutdown has begun: parent cancelled, no new walker
    asked,        \* cards whose hand run has passed launch's checks
    reopening,    \* the done card whose move to todo has looked at the runs, and
                  \* holds CardService.writeMu until it is written
    used,         \* how much of each bound is used up
    sent,         \* history: cards queued for the run that the playbook has, since
                  \* the last Play, and neither put back to todo nor left there
                  \* by a worker that ended cleanly
    undone,       \* history: an edit or a Stop was rolled back since the last Play
    slipped,      \* history: since the last Play a card was reopened into a run
                  \* that was not there when the move looked
    stopOk,       \* history: the last Stop owed a quiet run and returned no error,
                  \* and no Play since
    crashed       \* history: the process ended while a walker's webhook was out

runnerVars == <<walker, exiting, walk>>
requests == <<asked, reopening>>
history == <<sent, undone, slipped, stopOk, crashed>>
vars == <<card, playbook, mutex, runnerVars, control, closed, requests, used, history>>

-----------------------------------------------------------------------------
(* Cards and entries.                                                       *)

Terminal(c) == card[c].state = "done"
InFlight(c) == card[c].worker \in {"queued", "running"}
Live(c) == ~Terminal(c) /\ InFlight(c)
LaunchedLive(c) == Live(c) /\ card[c].box \in {"pending", "run"}
NeedsHuman(c) == card[c].worker \in {"failed", "parked"} \/ card[c].state = "stalled"
Complete(e) == IF e \in Card THEN Terminal(e) ELSE e \in playbook.done
Active(run) == run.status \in {"running", "waiting"}

\* The entry with a live worker: prefer when it has one, else the first.
LiveEntry(entries, prefer) ==
    LET live == {i \in DOMAIN entries : entries[i] \in Card /\ Live(entries[i])}
    IN  IF \E i \in live : entries[i] = prefer THEN prefer
        ELSE IF live = {} THEN NoEntry ELSE entries[Min(live)]

\* Entering todo or in_progress drops a failed or killed worker_status.
Moved(c, state) ==
    [card EXCEPT ![c].state = state,
                 ![c].worker = IF @ = "failed" THEN "none" ELSE @]

-----------------------------------------------------------------------------
NoRun == [status |-> "none", entry |-> NoEntry, stamp |-> 0]
NoPass == [run |-> NoRun, entries |-> <<>>, complete |-> {}, at |-> 1,
           want |-> <<"none", NoEntry>>, then |-> "idle"]
Gone == [pc |-> "none", prev |-> 0, cancelled |-> FALSE, nudge |-> FALSE, pass |-> NoPass]
Blank == [entries |-> Initial, done |-> {}, ids |-> ToSet(Initial), runnable |-> TRUE,
          run |-> NoRun]
Unlocked == [by |-> "nobody", old |-> Blank]
Quiet == [pc |-> "idle", targets |-> {}, join |-> 0, excused |-> FALSE]

Stamp == 0..(Cardinality(Slot) + 2)
Runs == [status : {"none", "running", "waiting", "stopped", "completed"},
         entry : Entry \cup {NoEntry}, stamp : Stamp]

PTypeOK ==
    /\ card \in [Card -> [state : {"todo", "busy", "stalled", "done"},
                          worker : {"none", "queued", "running", "failed", "parked"},
                          box : {"none", "pending", "run", "hand"}]]
    /\ playbook.run \in Runs
    /\ ToSet(playbook.entries) \subseteq playbook.ids /\ playbook.ids \subseteq Entry
    /\ playbook.run.entry \in ToSet(playbook.entries) \cup {NoEntry}
    /\ Active(playbook.run) => playbook.runnable
    /\ mutex.by \in {"nobody", "play", "stop", "edit", "walker"}
    /\ walker \in Slot \cup {0} /\ exiting \in Slot \cup {0}
    /\ \A w \in Slot :
        /\ walk[w].pc \in {"none", "idle", "hold", "walk", "prepare", "write", "commit",
                           "launch", "queue", "trigger", "release"}
        /\ walk[w].prev \in Slot \cup {0} /\ walk[w].pass.run \in Runs
    /\ control.pc \in {"idle", "playCommit", "ensure", "stopCommit", "cancel", "join", "kill"}
    /\ control.targets \subseteq Card
    /\ asked \subseteq Card /\ reopening \in Card \cup {NoEntry}
    /\ reopening # NoEntry => Terminal(reopening)

Init ==
    /\ card = [c \in Card |-> [state |-> "todo", worker |-> "none", box |-> "none"]]
    /\ playbook = Blank /\ mutex = Unlocked
    /\ walker = 0 /\ exiting = 0 /\ walk = [w \in Slot |-> Gone]
    /\ control = Quiet /\ closed = FALSE /\ asked = {} /\ reopening = NoEntry
    /\ used = [k \in DOMAIN Bound |-> 0]
    /\ sent = {} /\ undone = FALSE /\ slipped = FALSE
    /\ stopOk = FALSE /\ crashed = FALSE

Spend(k) ==
    /\ used[k] < Bound[k] /\ SumFunction(used) < MaxEvents
    /\ used' = [used EXCEPT ![k] = @ + 1]
Fault(allowed) == IF allowed THEN UNCHANGED used ELSE Spend("faults")

\* No card is written while a move to todo holds CardService.writeMu.
Writable == reopening = NoEntry

-----------------------------------------------------------------------------
(* The playbook store.                                                      *)

\* UpdatedAt of a new run block: a value no block or snapshot carries.
Fresh == CHOOSE n \in Stamp :
            n \notin {playbook.run.stamp} \cup {walk[w].pass.run.stamp : w \in Slot}

\* mutateWith up to its commit: the change is in the store.
Save(by, new) ==
    /\ mutex.by = "nobody"
    /\ mutex' = [by |-> by, old |-> playbook]
    /\ playbook' = new

\* The commit is answered: the write stands, or the snapshot is restored.
Committed == mutex' = Unlocked /\ UNCHANGED playbook
RolledBack == mutex' = Unlocked /\ playbook' = mutex.old

-----------------------------------------------------------------------------
(* The registry of walkers.                                                 *)

Free == {w \in Slot : walk[w].pc = "none"}

\* Mutant: a walker that is running is not nudged.
MutantNoNudge ==
    IF closed \/ walker # 0 THEN UNCHANGED runnerVars
    ELSE \E w \in Free :
            /\ \A v \in Free : w <= v
            /\ walker' = w
            /\ walk' = [walk EXCEPT ![w] = [Gone EXCEPT !.pc = "idle", !.prev = exiting]]
            /\ UNCHANGED exiting

\* Nudge the registered walker, or start one that waits for the cancelled one.
Ensure ==
    IF closed THEN UNCHANGED runnerVars
    ELSE IF walker # 0
    THEN walk' = [walk EXCEPT ![walker].nudge = TRUE] /\ UNCHANGED <<walker, exiting>>
    ELSE \E w \in Free :
            /\ \A v \in Free : w <= v
            /\ walker' = w
            /\ walk' = [walk EXCEPT ![w] = [Gone EXCEPT !.pc = "idle", !.prev = exiting]]
            /\ UNCHANGED exiting

\* Mutant: only a walker that is still registered reports that it has exited.
MutantSilentExit(w) ==
    /\ walker' = IF walker = w THEN 0 ELSE walker
    /\ exiting' = IF exiting = w THEN 0 ELSE exiting
    /\ walk' = [v \in Slot |-> IF v = w THEN Gone
                               ELSE [walk[v] EXCEPT !.prev = IF @ = w THEN 0 ELSE @]]
    /\ control' = IF walker = w THEN [control EXCEPT !.join = 0] ELSE control

\* walk returns: its entries are dropped and whoever waits for it goes on.
Exit(w) ==
    /\ walker' = IF walker = w THEN 0 ELSE walker
    /\ exiting' = IF exiting = w THEN 0 ELSE exiting
    /\ walk' = [v \in Slot |-> IF v = w THEN Gone
                               ELSE [walk[v] EXCEPT !.prev = IF @ = w THEN 0 ELSE @]]
    /\ control' = IF control.join = w THEN [control EXCEPT !.join = 0] ELSE control

Goto(w, pc, pass) ==
    walk' = [walk EXCEPT ![w].pc = pc,
                         ![w].pass = IF pc \in {"idle", "release"} THEN NoPass ELSE pass]

\* setRun: nothing to do when the snapshot already says so, else the guarded
\* write; then is where the pass goes on when it is done.
SetRun(w, status, e, then) ==
    LET p == walk[w].pass IN
    IF p.run.status = status /\ p.run.entry = e THEN Goto(w, then, p)
    ELSE Goto(w, "write", [p EXCEPT !.want = <<status, e>>, !.then = then])

-----------------------------------------------------------------------------
(* A pass of the walker.                                                    *)

At(w, pc) == walk[w].pc = pc /\ walk[w].prev = 0
MidPass(w) == walk[w].pc \notin {"none", "idle", "release"}
Frontier(w) == walk[w].pass.entries[walk[w].pass.at]

\* The loop: a cancelled walker returns; else a pass begins, on a nudge (which
\* it takes), an event or the tick (which leave a nudge pending).
Return(w) ==
    /\ At(w, "idle") /\ walk[w].cancelled
    /\ Exit(w)
    /\ UNCHANGED <<card, playbook, mutex, closed, requests, used, history>>

PassRead(w) ==
    /\ At(w, "idle") /\ ~walk[w].cancelled
    /\ \E n \in {walk[w].nudge, FALSE} :
        walk' = [walk EXCEPT ![w].nudge = n,
            ![w].pc = IF playbook.runnable /\ Active(playbook.run) THEN "hold" ELSE "release",
            ![w].pass = IF playbook.runnable /\ Active(playbook.run)
                        THEN [NoPass EXCEPT !.run = playbook.run, !.entries = playbook.entries,
                                 !.complete = {e \in ToSet(playbook.entries) : Complete(e)}]
                        ELSE NoPass]
    /\ UNCHANGED <<card, playbook, mutex, walker, exiting, control, closed, requests>>
    /\ UNCHANGED <<used, history>>

PassUnchanged == UNCHANGED <<walker, exiting, control, closed, requests, history>>

\* Mutant: the pass does not look at the other entries' workers.
MutantNoHold(w) ==
    /\ At(w, "hold") /\ Goto(w, "walk", walk[w].pass)
    /\ UNCHANGED <<card, playbook, mutex, used>> /\ PassUnchanged

\* The run stays on a live worker; it is re-pointed only when its entry is
\* unset, complete or gone.
Hold(w) ==
    LET p == walk[w].pass
        live == LiveEntry(p.entries, p.run.entry)
    IN  /\ At(w, "hold")
        /\ IF live = NoEntry THEN Goto(w, "walk", p)
           ELSE IF live # p.run.entry /\ p.run.entry \in ToSet(p.entries) \ p.complete
           THEN Goto(w, "idle", p)
           ELSE SetRun(w, "running", live, "idle")
        /\ UNCHANGED <<card, playbook, mutex, used>> /\ PassUnchanged

\* The next entry, from a fresh read of its card.
Skip(w) ==
    LET p == walk[w].pass IN
    /\ At(w, "walk") /\ p.at <= Len(p.entries)
    /\ Frontier(w) \in p.complete \/ (Frontier(w) \in Card /\ Terminal(Frontier(w)))
    /\ Goto(w, "walk", [p EXCEPT !.at = @ + 1])
    /\ UNCHANGED <<card, playbook, mutex, used>> /\ PassUnchanged

AllComplete(w) ==
    /\ At(w, "walk") /\ walk[w].pass.at > Len(walk[w].pass.entries)
    /\ SetRun(w, "completed", NoEntry, "release")
    /\ UNCHANGED <<card, playbook, mutex, used>> /\ PassUnchanged

\* Mutant: a failed card is launched again.
MutantRetries(w, e, run) ==
    IF InFlight(e) THEN SetRun(w, "running", e, "idle")
    ELSE IF card[e].state # "todo" /\ ~NeedsHuman(e) THEN SetRun(w, "waiting", e, "idle")
    ELSE IF card[e].state # "todo" THEN Goto(w, "prepare", walk[w].pass)
    ELSE SetRun(w, "running", e, "launch")

\* What a pass does at the first incomplete entry e, a card, of run.
Decide(w, e, run) ==
    IF InFlight(e) THEN SetRun(w, "running", e, "idle")
    ELSE IF NeedsHuman(e) /\ run.entry = e THEN SetRun(w, "waiting", e, "idle")
    ELSE IF card[e].state # "todo" /\ ~NeedsHuman(e) THEN SetRun(w, "waiting", e, "idle")
    ELSE IF run.entry = e /\ run.status = "waiting" THEN Goto(w, "idle", NoPass)
    ELSE IF card[e].state # "todo" THEN Goto(w, "prepare", walk[w].pass)
    ELSE SetRun(w, "running", e, "launch")

Consider(w) ==
    LET p == walk[w].pass IN
    /\ At(w, "walk") /\ p.at <= Len(p.entries)
    /\ Frontier(w) \notin p.complete
    /\ IF Frontier(w) \in Manual THEN SetRun(w, "waiting", Frontier(w), "idle")
       ELSE ~Terminal(Frontier(w)) /\ Decide(w, Frontier(w), p.run)
    /\ UNCHANGED <<card, playbook, mutex, used>> /\ PassUnchanged

\* TransitionTo todo, and the forced settings; either may fail, the settings
\* when the card has been moved.
Prepare(w) ==
    /\ At(w, "prepare") /\ Writable /\ ~Terminal(Frontier(w))
    /\ card' = Moved(Frontier(w), "todo")
    /\ SetRun(w, "running", Frontier(w), "launch")
    /\ UNCHANGED <<playbook, mutex, used>> /\ PassUnchanged

PrepareFails(w) ==
    /\ At(w, "prepare") /\ Writable /\ Fault(Terminal(Frontier(w)))
    /\ SetRun(w, "waiting", Frontier(w), "idle")
    /\ \/ UNCHANGED card
       \/ ~Terminal(Frontier(w)) /\ card' = Moved(Frontier(w), "todo")
    /\ UNCHANGED <<playbook, mutex>> /\ PassUnchanged

\* SetRunIf: the block must still be the one the pass decided from.
Unchanged(w) ==
    /\ playbook.runnable /\ Active(playbook.run)
    /\ playbook.run = walk[w].pass.run
    /\ walk[w].pass.want[2] \in ToSet(playbook.entries) \cup {NoEntry}

RunWrite(w) ==
    LET p == walk[w].pass
        run == [status |-> p.want[1], entry |-> p.want[2], stamp |-> Fresh]
    IN  /\ At(w, "write") /\ Unchanged(w)
        /\ Save("walker", [playbook EXCEPT !.run = run])
        /\ Goto(w, "commit", [p EXCEPT !.run = run])
        /\ UNCHANGED <<card, used>> /\ PassUnchanged

RunWriteRefused(w) ==
    /\ At(w, "write") /\ mutex.by = "nobody" /\ ~Unchanged(w)
    /\ Goto(w, "idle", NoPass)
    /\ UNCHANGED <<card, playbook, mutex, used>> /\ PassUnchanged

RunCommitted(w) ==
    /\ At(w, "commit") /\ Committed
    /\ Goto(w, walk[w].pass.then, walk[w].pass)
    /\ UNCHANGED <<card, used>> /\ PassUnchanged

\* A cancelled walker's context cancels its commit.
RunCommitFails(w) ==
    /\ At(w, "commit") /\ RolledBack /\ Fault(walk[w].cancelled)
    /\ Goto(w, "idle", NoPass)
    /\ UNCHANGED card /\ PassUnchanged

\* The last look at the walker's context before the trigger, and launch's look
\* at the card.
Launch(w) ==
    /\ At(w, "launch")
    /\ IF walk[w].cancelled THEN Goto(w, "idle", NoPass)
       ELSE IF card[Frontier(w)].state = "todo" /\ ~InFlight(Frontier(w))
       THEN Goto(w, "queue", walk[w].pass)
       ELSE SetRun(w, "waiting", Frontier(w), "idle")
    /\ UNCHANGED <<card, playbook, mutex, used>> /\ PassUnchanged

\* MarkQueued, on a card without a worker; its state may have changed meanwhile.
Queue(w) ==
    LET e == Frontier(w) IN
    /\ At(w, "queue") /\ Writable /\ ~InFlight(e)
    /\ card' = [card EXCEPT ![e].worker = "queued", ![e].box = "pending"]
    /\ Goto(w, "trigger", walk[w].pass)
    /\ sent' = IF walk[w].pass.run = playbook.run THEN sent \cup {e} ELSE sent
    /\ UNCHANGED <<playbook, mutex, walker, exiting, control, closed, requests, used>>
    /\ UNCHANGED <<undone, slipped, stopOk, crashed>>

QueueFails(w) ==
    /\ At(w, "queue") /\ Writable /\ Fault(InFlight(Frontier(w)) \/ closed)
    /\ SetRun(w, "waiting", Frontier(w), "idle")
    /\ UNCHANGED <<card, playbook, mutex>> /\ PassUnchanged

\* The webhook outlives Stop's cancel.
Trigger(w) ==
    /\ At(w, "trigger")
    /\ card' = [card EXCEPT ![Frontier(w)].box = "run"]
    /\ Goto(w, "idle", NoPass)
    /\ UNCHANGED <<playbook, mutex, used>> /\ PassUnchanged

\* Mutant: a trigger aborted by the shutdown reverts nothing.
MutantNoRevert(w) ==
    /\ At(w, "trigger") /\ Fault(closed)
    /\ SetRun(w, "waiting", Frontier(w), "idle")
    /\ UNCHANGED <<card, playbook, mutex>> /\ PassUnchanged

\* No credential, or the webhook fails, as an aborted one does at shutdown: the
\* card is reverted to failed.
TriggerFails(w) ==
    LET e == Frontier(w) IN
    /\ At(w, "trigger") /\ Writable /\ Fault(closed)
    /\ card' = [card EXCEPT ![e].box = "none",
                            ![e].worker = IF Terminal(e) THEN "none" ELSE "failed"]
    /\ SetRun(w, "waiting", e, "idle")
    /\ UNCHANGED <<playbook, mutex>> /\ PassUnchanged

\* The pass found nothing to run: exit, unless a Play nudged meanwhile.
Release(w) ==
    /\ At(w, "release")
    /\ IF walk[w].nudge
       THEN /\ walk' = [walk EXCEPT ![w].nudge = FALSE, ![w].pc = "idle"]
            /\ UNCHANGED <<walker, exiting, control>>
       ELSE Exit(w)
    /\ UNCHANGED <<card, playbook, mutex, closed, requests, used, history>>

WalkerStep(w) ==
    \/ Return(w) \/ PassRead(w) \/ Hold(w) \/ Skip(w) \/ AllComplete(w) \/ Consider(w)
    \/ Prepare(w) \/ PrepareFails(w) \/ RunWrite(w) \/ RunWriteRefused(w)
    \/ RunCommitted(w) \/ RunCommitFails(w) \/ Launch(w) \/ Queue(w) \/ QueueFails(w)
    \/ Trigger(w) \/ TriggerFails(w) \/ Release(w)

-----------------------------------------------------------------------------
(* Play and Stop: each holds the control token for its whole call.           *)

Control(from, to) == control.pc = from /\ control' = [control EXCEPT !.pc = to]

Play ==
    /\ ~closed /\ Spend("calls") /\ Control("idle", "playCommit")
    /\ playbook.runnable /\ ~Active(playbook.run)
    /\ Save("play", [playbook EXCEPT !.run =
            [status |-> "running", stamp |-> Fresh,
             entry |-> LiveEntry(playbook.entries, playbook.run.entry)]])
    /\ sent' = {} /\ undone' = FALSE /\ slipped' = FALSE /\ stopOk' = FALSE
    /\ UNCHANGED <<card, runnerVars, closed, requests, crashed>>

PlayCommitted ==
    /\ Control("playCommit", "ensure") /\ Committed
    /\ UNCHANGED <<card, runnerVars, closed, requests, used, history>>

PlayFails ==
    /\ Control("playCommit", "idle") /\ RolledBack /\ Spend("faults")
    /\ UNCHANGED <<card, runnerVars, closed, requests, history>>

\* Play's last step, and Stop's when its write failed.
CallEnsure ==
    /\ Control("ensure", "idle") /\ Ensure
    /\ UNCHANGED <<card, playbook, mutex, closed, requests, used, history>>

\* The cards Stop may kill: the run's entry, whose launch may be under way, and
\* those with a live worker.
StopTargets == {c \in Card \cap ToSet(playbook.entries) : Live(c) \/ c = playbook.run.entry}

\* History: a walker that an earlier Stop gave up on is still there, or a pass
\* goes on that read a Play since rolled back; they may launch a card which is
\* no target.
Stray == \/ exiting # 0
         \/ \E w \in Slot : MidPass(w) /\ walk[w].pass.run # playbook.run

Stop ==
    /\ ~closed /\ Spend("calls") /\ control.pc = "idle" /\ Active(playbook.run)
    /\ Save("stop", [playbook EXCEPT !.run.status = "stopped", !.run.stamp = Fresh])
    /\ control' = [Quiet EXCEPT !.pc = "stopCommit", !.targets = StopTargets,
                                !.excused = Stray]
    /\ UNCHANGED <<card, runnerVars, closed, requests, history>>

StopCommitted ==
    /\ Control("stopCommit", "cancel") /\ Committed
    /\ UNCHANGED <<card, runnerVars, closed, requests, used, history>>

StopWriteFails ==
    /\ control.pc = "stopCommit" /\ RolledBack /\ Spend("faults")
    /\ control' = [Quiet EXCEPT !.pc = "ensure"]
    /\ undone' = TRUE
    /\ UNCHANGED <<card, runnerVars, closed, requests, sent, slipped, stopOk, crashed>>

\* Mutant: Stop does not wait for the walker it cancels.
MutantNoJoin ==
    /\ control.pc = "cancel"
    /\ control' = [control EXCEPT !.pc = "join"]
    /\ IF walker = 0 THEN UNCHANGED runnerVars
       ELSE /\ walk' = [walk EXCEPT ![walker].cancelled = TRUE]
            /\ exiting' = walker /\ walker' = 0
    /\ UNCHANGED <<card, playbook, mutex, closed, requests, used, history>>

\* cancelWalker: the registered walker is dropped and will be waited for.
CancelWalker ==
    /\ control.pc = "cancel"
    /\ control' = [control EXCEPT !.pc = "join", !.join = walker]
    /\ IF walker = 0 THEN UNCHANGED runnerVars
       ELSE /\ walk' = [walk EXCEPT ![walker].cancelled = TRUE]
            /\ exiting' = walker /\ walker' = 0
    /\ UNCHANGED <<card, playbook, mutex, closed, requests, used, history>>

Joined ==
    /\ control.join = 0 /\ Control("join", "kill")
    /\ UNCHANGED <<card, playbook, mutex, runnerVars, closed, requests, used, history>>

\* The wait is bounded: Stop answers ErrStopWorker.
StopWaitExpires ==
    /\ control.pc = "join" /\ control.join # 0 /\ Spend("faults")
    /\ control' = Quiet
    /\ UNCHANGED <<card, playbook, mutex, runnerVars, closed, requests, history>>

\* killLiveWorkers, one target at a time, each read afresh.
Kill(c) ==
    /\ control.pc = "kill" /\ c \in control.targets /\ Writable
    /\ control' = [control EXCEPT !.targets = @ \ {c}]
    /\ card' = IF Live(c) THEN [card EXCEPT ![c].worker = "failed", ![c].box = "none"] ELSE card
    /\ UNCHANGED <<playbook, mutex, runnerVars, closed, requests, used, history>>

\* The webhook fails, or the status write after it.
KillFails(c) ==
    /\ control.pc = "kill" /\ c \in control.targets /\ Live(c) /\ Spend("faults")
    /\ control' = [control EXCEPT !.targets = @ \ {c}, !.excused = TRUE]
    /\ \E box \in {card[c].box, "none"} : card' = [card EXCEPT ![c].box = box]
    /\ UNCHANGED <<playbook, mutex, runnerVars, closed, requests, history>>

StopReturns ==
    /\ control.pc = "kill" /\ control.targets = {}
    /\ control' = Quiet /\ stopOk' = ~control.excused
    /\ UNCHANGED <<card, playbook, mutex, runnerVars, closed, requests, used>>
    /\ UNCHANGED <<sent, undone, slipped, crashed>>

ControlStep ==
    \/ PlayCommitted \/ PlayFails \/ CallEnsure \/ StopCommitted \/ StopWriteFails
    \/ CancelWalker \/ Joined \/ StopWaitExpires \/ StopReturns
    \/ \E c \in Card : Kill(c) \/ KillFails(c)

-----------------------------------------------------------------------------
(* Edits of the playbook.                                                   *)

Edit(new) ==
    /\ ~closed /\ Spend("calls") /\ Save("edit", new)
    /\ UNCHANGED <<card, runnerVars, control, closed, requests, history>>

\* An entry is added once: what was removed does not come back (in the code it
\* may, as another entry).
AddEntry(e) ==
    /\ e \notin playbook.ids
    /\ Edit([playbook EXCEPT !.entries = Append(@, e), !.ids = @ \cup {e}])

\* Mutant: a stopped run keeps naming the removed entry.
MutantKeepsEntry(e) ==
    /\ Active(playbook.run) => /\ playbook.run.entry # e
                               /\ e \in Card => ~Live(e)
    /\ \E i \in DOMAIN playbook.entries :
        /\ playbook.entries[i] = e
        /\ Edit([playbook EXCEPT !.entries = RemoveAt(@, i)])

RemoveEntry(e) ==
    /\ Active(playbook.run) => /\ playbook.run.entry # e
                               /\ e \in Card => ~Live(e)
    /\ \E i \in DOMAIN playbook.entries :
        /\ playbook.entries[i] = e
        /\ Edit([playbook EXCEPT !.entries = RemoveAt(@, i),
                                 !.run.entry = IF @ = e THEN NoEntry ELSE @])

\* UpdateEntry: a step is checked off at any time, unchecked outside a run only.
CheckOff(m) ==
    /\ m \in ToSet(playbook.entries)
    /\ m \in playbook.done => ~Active(playbook.run)
    /\ Edit([playbook EXCEPT !.done = SymDiff(@, {m})])

SetRunnable ==
    /\ playbook.runnable => ~Active(playbook.run)
    /\ Edit([playbook EXCEPT !.runnable = ~@, !.run = IF playbook.runnable THEN NoRun ELSE @])

EditAnswered ==
    /\ mutex.by = "edit"
    /\ \/ Committed /\ UNCHANGED <<used, undone>>
       \/ RolledBack /\ Spend("faults") /\ undone' = TRUE
    /\ UNCHANGED <<card, runnerVars, control, closed, requests, sent, slipped, stopOk, crashed>>

\* A hand run: launch's checks, then the queued write in QueueUnlessRunActive,
\* under the playbooks' lock, whatever state the card is in by then.
HandRun(c) ==
    /\ ~closed /\ Spend("calls") /\ card[c].state = "todo" /\ ~InFlight(c)
    /\ asked' = asked \cup {c}
    /\ UNCHANGED <<card, playbook, mutex, runnerVars, control, closed, reopening, history>>

HandQueue(c) ==
    /\ c \in asked /\ mutex.by = "nobody" /\ Writable
    /\ asked' = asked \ {c}
    /\ card' = IF InFlight(c) \/ /\ playbook.runnable /\ Active(playbook.run)
                                 /\ c \in ToSet(playbook.entries)
               THEN card
               ELSE [card EXCEPT ![c].worker = "queued", ![c].box = "hand"]
    /\ UNCHANGED <<playbook, mutex, runnerVars, control, closed, reopening, used, history>>

-----------------------------------------------------------------------------
(* Cards, workers and the process.                                          *)

\* A write of a card, which takes CardService.writeMu.
CardStep ==
    /\ Writable
    /\ UNCHANGED <<playbook, mutex, runnerVars, control, closed, requests>>
    /\ UNCHANGED <<undone, slipped, stopOk, crashed>>

\* A person moves a card back to todo.
MoveToTodo(c) ==
    /\ card[c].state \notin {"todo", "done"} /\ Spend("people")
    /\ card' = Moved(c, "todo")
    /\ sent' = sent \ {c} /\ CardStep

\* The same out of done: refuseReopenDuringRun looks at the runs without the
\* playbooks' lock, and the card is written in todo when a Play may have come.
\* A worker still there is no longer the run's.
Reopen(c) ==
    /\ Writable /\ Terminal(c) /\ Spend("people")
    /\ ~(Active(playbook.run) /\ c \in ToSet(playbook.entries))
    /\ reopening' = c
    /\ UNCHANGED <<card, playbook, mutex, runnerVars, control, closed, asked, history>>

ReopenWrite(c) ==
    /\ reopening = c /\ reopening' = NoEntry
    /\ card' = [Moved(c, "todo") EXCEPT ![c].box = IF @ # "none" THEN "hand" ELSE @]
    /\ sent' = sent \ {c}
    /\ slipped' = (slipped \/ (Active(playbook.run) /\ c \in ToSet(playbook.entries)))
    /\ UNCHANGED <<playbook, mutex, runnerVars, control, closed, asked, used>>
    /\ UNCHANGED <<undone, stopOk, crashed>>

\* To done, or the stall sweep presumes its worker dead.
MoveToDone(c) ==
    /\ ~Terminal(c) /\ Spend("people")
    /\ card' = [card EXCEPT ![c].state = "done"] /\ UNCHANGED sent /\ CardStep

StallSweep(c) ==
    /\ card[c].state = "busy" /\ Spend("people")
    /\ card' = [card EXCEPT ![c].state = "stalled",
                            ![c].worker = IF InFlight(c) THEN "failed" ELSE @]
    /\ UNCHANGED sent /\ CardStep

Running(c) == card[c].box \in {"run", "hand"}

WorkerClaims(c) ==
    /\ Running(c) /\ card[c].worker = "queued" /\ card[c].state = "todo"
    /\ card' = [card EXCEPT ![c].worker = "running", ![c].state = "busy"]
    /\ UNCHANGED <<used, sent>> /\ CardStep

WorkerFinishes(c) ==
    /\ Running(c) /\ card[c].worker = "running" /\ card[c].state = "busy"
    /\ card' = [card EXCEPT ![c].state = "done"]
    /\ UNCHANGED <<used, sent>> /\ CardStep

\* The container ends and its last report is recorded: failed, parked, or
\* completed, which leaves no status, on a card in todo as well: the next pass
\* launches that one again.
WorkerEnds(c) ==
    /\ Running(c)
    /\ \E last \in {"failed", "parked", "none"} :
        /\ last = "parked" => card[c].worker = "running"
        /\ card' = [card EXCEPT ![c].box = "none",
                                ![c].worker = IF Terminal(c) THEN "none"
                                              ELSE IF InFlight(c) THEN last ELSE @]
        /\ sent' = IF last = "none" /\ InFlight(c) /\ card[c].state = "todo"
                   THEN sent \ {c} ELSE sent
    /\ UNCHANGED used /\ CardStep

\* The reconcile sweep: a worker in flight with no container behind it.
WorkerLost(c) ==
    /\ InFlight(c) /\ ~Running(c)
    /\ ~\E w \in Slot : walk[w].pc = "trigger" /\ Frontier(w) = c
    /\ card' = [card EXCEPT ![c].worker = IF Terminal(c) THEN "none" ELSE "failed",
                            ![c].box = "none"]
    /\ UNCHANGED <<used, sent>> /\ CardStep

CardAct(c) == WorkerClaims(c) \/ WorkerFinishes(c) \/ WorkerEnds(c) \/ WorkerLost(c)

\* AppCancel and Runner.Shutdown: the walkers' parent is cancelled.
Shutdown ==
    /\ ~closed /\ Spend("restarts")
    /\ closed' = TRUE
    /\ walk' = [w \in Slot |-> [walk[w] EXCEPT !.cancelled = walk[w].pc # "none"]]
    /\ UNCHANGED <<card, playbook, mutex, walker, exiting, control, requests, history>>

\* The process ends or crashes and starts again; Start resumes an active run.
Restart ==
    /\ IF closed THEN UNCHANGED used ELSE Spend("restarts")
    /\ mutex' = Unlocked /\ control' = Quiet /\ closed' = FALSE /\ exiting' = 0
    /\ asked' = {} /\ reopening' = NoEntry
    /\ LET first == CHOOSE w \in Slot : \A v \in Slot : w <= v
           resumed == playbook.runnable /\ Active(playbook.run)
       IN  /\ walker' = IF resumed THEN first ELSE 0
           /\ walk' = [w \in Slot |-> IF resumed /\ w = first
                                      THEN [Gone EXCEPT !.pc = "idle"] ELSE Gone]
    /\ crashed' = (crashed \/ \E w \in Slot : walk[w].pc = "trigger")
    /\ UNCHANGED <<card, playbook, sent, undone, slipped, stopOk>>

-----------------------------------------------------------------------------
Next ==
    \/ \E w \in Slot : WalkerStep(w)
    \/ Play \/ Stop \/ ControlStep
    \/ \E e \in Entry : AddEntry(e) \/ RemoveEntry(e)
    \/ \E m \in Manual : CheckOff(m)
    \/ SetRunnable \/ EditAnswered
    \/ \E c \in Card : \/ HandRun(c) \/ HandQueue(c) \/ MoveToTodo(c) \/ Reopen(c)
                       \/ ReopenWrite(c) \/ MoveToDone(c) \/ StallSweep(c) \/ CardAct(c)
    \/ Shutdown \/ Restart

Spec == Init /\ [][Next]_vars

(* Goroutines that can run are scheduled, a handler that holds a lock among  *)
(* them, the tick starts a pass at the latest, commits are answered, a       *)
(* worker ends or is found to be lost, and a process told to shut down is    *)
(* started again.  Nobody has to press Play, edit, or move a card.           *)
Fairness ==
    /\ \A w \in Slot : WF_vars(WalkerStep(w))
    /\ WF_vars(ControlStep) /\ WF_vars(EditAnswered)
    /\ \A c \in Card : /\ WF_vars(ReopenWrite(c))
                       /\ WF_vars(WorkerEnds(c)) /\ WF_vars(WorkerLost(c))
    /\ WF_vars(closed /\ Restart)

FairSpec == Spec /\ Fairness

-----------------------------------------------------------------------------
(* Properties.                                                              *)

\* walker.go: "such a Play can never be left without a walker".  Outside a
\* call and a shutdown, an active run has a walker that will make a pass.
ActiveRunIsWalked ==
    /\ Active(playbook.run) /\ mutex.by = "nobody"
    /\ control.pc = "idle" /\ ~closed
    => walker # 0 /\ ~walk[walker].cancelled

\* Stop: after one that answered without an error, no card of the playbook shows
\* a worker in flight that the run launched, until the next Play; unless a walker
\* which an earlier Stop gave up on, or a Play rolled back, was still in a pass.
StoppedRunIsQuiet ==
    stopOk => ~\E c \in Card \cap ToSet(playbook.entries) : LaunchedLive(c)

\* A pass or a person may have acted on an edit or a Stop that was rolled back, or
\* a card came back to todo in the middle of a run, its move having looked at the
\* runs before Play.
Excused == undone \/ slipped

\* "While any of its cards has a queued or running worker, the run starts no
\* other card": a walker that nobody cancelled queues no card while another of
\* the playbook has a worker in flight that the run launched, nor while one that
\* its pass looked at has any, started by hand or not, and the run is still the
\* one the pass decided from; unless a rollback or a late reopening excuses it.
OneWorkerAtATime ==
    [][\A w \in Slot :
        /\ walk[w].pc = "queue" /\ walk'[w].pc = "trigger"
        /\ ~walk[w].cancelled /\ ~Excused
        => ~\E d \in Card \cap ToSet(playbook.entries) :
              /\ d # Frontier(w)
              /\ \/ LaunchedLive(d)
                 \/ /\ Live(d) /\ d \in ToSet(walk[w].pass.entries)
                    /\ walk[w].pass.run = playbook.run]_vars

\* A card is queued for the run once between two Plays, whatever fails and
\* whenever the process restarts, with three exceptions: somebody moved it back
\* to todo; its worker ended cleanly while it was in todo, and the runner launched
\* it again by itself; a rollback or a late reopening excuses it.
QueuedOnce ==
    [][\A c \in Card : card'[c].box = "pending" /\ card[c].box # "pending"
                       => c \notin sent \/ Excused]_vars

\* A shutdown that waited for its walkers leaves no card queued for a worker
\* that nobody asked for, unless a crash did so before.
ShutdownStrandsNothing ==
    closed /\ ~crashed /\ (\A w \in Slot : walk[w].pc = "none") =>
        \A c \in Card : card[c].box # "pending"

\* A worker reports completed on a card which it leaves in todo.
EndsInTodo(c) ==
    /\ InFlight(c) /\ card[c].state = "todo"
    /\ card'[c].state = "todo" /\ card'[c].worker = "none"

\* Every Play and Stop returns, and a run does not stay running: it completes,
\* or waits for somebody, once the workers it waits for have ended; unless again
\* and again a worker ends cleanly and leaves its card in todo, which the runner
\* launches again without limit.
RunSettles ==
    /\ \/ []<>(playbook.run.status # "running")
       \/ []<><<\E c \in Card : EndsInTodo(c)>>_vars
    /\ []<>(control.pc = "idle")
=============================================================================
