---------------------------- MODULE ChatSession ----------------------------
(***************************************************************************)
(* The lifecycle of chat and blueprint sessions: opening, ending and       *)
(* deleting them, subscribing, sending to them, the goroutine that bridges *)
(* a session's log stream into the transcript, the limit on containers,    *)
(* and the backend that runs them.                                         *)
(*                                                                         *)
(* A call is a thread: pc is where it stands, then where it goes on when   *)
(* the operation it is in returns.  The container of a blueprint session   *)
(* stands for the session its architect holds.                             *)
(***************************************************************************)
EXTENDS Integers, FiniteSets, SequencesExt

CONSTANTS
    Session, Caller,
    Kinds,            \* the choices of what each session is
    MaxConcurrent,    \* chat.max_concurrent
    MaxSendFailures,  \* unreachable sends in a row that end a session
    Bound             \* bounds on "calls", "sends" among them, "faults", "restarts"

ASSUME ChatAssumption ==
    /\ Session \cap Caller = {} /\ IsFiniteSet(Session) /\ IsFiniteSet(Caller)
    /\ "none" \notin Session /\ "free" \notin Caller
    /\ Kinds \subseteq [Session -> {"none", "chat", "blueprint"}]
    /\ MaxConcurrent \in Nat \ {0} /\ MaxSendFailures \in Nat \ {0}
    /\ Bound \in [{"calls", "sends", "faults", "restarts"} -> Nat]

VARIABLES
    kind,         \* what each session is
    row,          \* the status of its row
    transcript,   \* its user messages, in order
    box,          \* its container: up, and the messages it was given
    lock,         \* who holds its status, hub and transcript mutexes
    pending,      \* m.pendingActive
    bridge,       \* the log consumers: a session's registered one, and the one
                  \* a call has cancelled and waits for
    call,         \* the calls in progress
    fails,        \* m.sendFailures
    used,         \* how much of each bound is used up
    adrift,       \* history: the container may have been lost track of
    crossed       \* history: a consumer was started as an EndSession closed the row

history == <<adrift, crossed>>
vars == <<kind, row, transcript, box, lock, pending, bridge, call, fails, used, history>>

Live(s) == row[s] \in {"active", "warm"}
Chat(s) == kind[s] = "chat"
Thread == Session \cup Caller
NoBridge == [pc |-> "none", over |-> FALSE]
Down == [up |-> FALSE, given |-> <<>>]
Idle == [s |-> "none", pc |-> "idle", then |-> <<>>, ok |-> TRUE, slot |-> FALSE,
         msg |-> 0]

\* Where a call can stand, by the mutex it needs next.
StatusPCs == {"rewarm", "persist", "promote", "reread", "kill", "restart"}
HubPCs == {"subscribe", "publish", "quieten", "drop"}
FlightPCs == {"reserve", "start", "persist", "opened"}
PCs == StatusPCs \cup HubPCs \cup FlightPCs \cup
       {"idle", "open", "joinOpen", "bridge", "end", "join", "cold", "delete", "delstop", "delrow",
        "attach", "unhub", "send", "arm", "post", "relock", "reopen", "reopened", "repost", "append",
        "failed", "unreached", "endfailed"}

CTypeOK ==
    /\ kind \in Kinds
    /\ row \in [Session -> {"absent", "cold", "active", "warm"}]
    /\ \A s \in Session : /\ box[s].up \in BOOLEAN
                          /\ ToSet(box[s].given) \cup ToSet(transcript[s]) \subseteq 1..Bound["sends"]
                          /\ fails[s] \in 0..MaxSendFailures - 1
    /\ lock \in [Session -> [{"status", "hub", "transcript"} -> Caller \cup {"free"}]]
    /\ pending = Cardinality({c \in Caller : call[c].slot})
    /\ bridge \in [Thread -> [over : BOOLEAN,
                     pc : {"none", "open", "restart", "wait", "stream", "frame", "exit"}]]
    /\ \A c \in Caller : call[c].pc \in PCs

Init ==
    /\ kind \in Kinds
    /\ row = [s \in Session |-> IF kind[s] = "none" THEN "absent" ELSE "cold"]
    /\ transcript = [s \in Session |-> <<>>] /\ box = [s \in Session |-> Down]
    /\ lock = [s \in Session |-> [k \in {"status", "hub", "transcript"} |-> "free"]]
    /\ pending = 0 /\ bridge = [t \in Thread |-> NoBridge]
    /\ call = [c \in Caller |-> Idle]
    /\ fails = [s \in Session |-> 0]
    /\ used = [k \in DOMAIN Bound |-> 0]
    /\ adrift = {} /\ crossed = {}

Spend(k) == used[k] < Bound[k] /\ used' = [used EXCEPT ![k] = @ + 1]

-----------------------------------------------------------------------------
(* Calls, their mutexes and the world they act on.                          *)

At(c, pc) == call[c].pc = pc
Goto(c, pc) == call' = [call EXCEPT ![c].pc = pc]
Invoke(c, pc, then) == call' = [call EXCEPT ![c].pc = pc, ![c].then = <<then>> \o @]
Returned(c, ok) ==
    IF call[c].then = <<>> THEN Idle
    ELSE [call[c] EXCEPT !.pc = Head(call[c].then), !.then = Tail(@), !.ok = ok, !.slot = FALSE]
Return(c, ok) == call' = [call EXCEPT ![c] = Returned(c, ok)]

Free(s, k) == lock[s][k] = "free"
Take(c, s, k) == lock' = [lock EXCEPT ![s][k] = c]
Leave(s, k) == lock' = [lock EXCEPT ![s][k] = "free"]

SessionOf(t) == IF t \in Session THEN t ELSE call[t].s

\* The container ends and closes the log streams attached to it.
BoxEnds(s) ==
    /\ box' = [box EXCEPT ![s] = Down]
    /\ bridge' = [t \in Thread |-> IF SessionOf(t) = s /\ bridge[t].pc \in {"stream", "frame"}
                                   THEN [bridge[t] EXCEPT !.over = TRUE] ELSE bridge[t]]

\* StartChat; a backend that holds the session already keeps it.
BoxStarts(s, given) ==
    box' = [box EXCEPT ![s] = IF @.up THEN @ ELSE [up |-> TRUE, given |-> given]]

rest == <<kind, history>>
world == <<row, transcript, box, fails>>

-----------------------------------------------------------------------------
(* startConsumer and stopConsumer.                                          *)

\* An EndSession has stopped the consumer and not yet written the row.
Ending(d) == call[d].pc \in {"kill", "cold"} \/ (At(d, "join") /\ Head(call[d].then) = "kill")

\* A registered consumer is left alone; a new blueprint consumer sends the
\* start first when restart is set.
StartConsumer(s, restart) ==
    IF bridge[s].pc # "none" THEN UNCHANGED <<bridge, crossed>>
    ELSE /\ bridge' = [bridge EXCEPT ![s].pc = IF restart /\ ~Chat(s) THEN "restart" ELSE "open"]
         /\ crossed' = IF ~Live(s) \/ \E d \in Caller : call[d].s = s /\ Ending(d)
                       THEN crossed \cup {s} ELSE crossed

Bridge(c) ==
    /\ At(c, "bridge") /\ StartConsumer(call[c].s, TRUE) /\ Return(c, TRUE)
    /\ UNCHANGED <<kind, world, lock, pending, used, adrift>>

\* The entry is removed and the consumer cancelled; the caller waits for it.
StopConsumer(c, then) ==
    /\ bridge' = [bridge EXCEPT ![call[c].s] = NoBridge, ![c] = bridge[call[c].s]]
    /\ Invoke(c, "join", then)

Join(c) ==
    /\ At(c, "join") /\ bridge[c].pc = "none" /\ Return(c, TRUE)
    /\ UNCHANGED <<rest, world, lock, pending, bridge, used>>

-----------------------------------------------------------------------------
(* The goroutine of a consumer, registered or cancelled.                    *)

Cancelled(t) == t \in Caller
Step(t, pc, over) == bridge' = [bridge EXCEPT ![t] = [pc |-> pc, over |-> over]]
BridgeUnchanged == UNCHANGED <<rest, row, transcript, lock, pending, call, fails>>

\* /logs of a chat session nobody holds answers an error; an architect's
\* answers any session.
OpenStream(t) ==
    /\ bridge[t].pc = "open"
    /\ Step(t, IF Cancelled(t) THEN "exit"
               ELSE IF Chat(t) /\ ~box[t].up THEN "wait" ELSE "stream", FALSE)
    /\ UNCHANGED <<box, used>> /\ BridgeUnchanged

\* The backoff ends; what an architect lost is started again first.
Retry(t) ==
    /\ bridge[t].pc = "wait"
    /\ Step(t, IF Cancelled(t) THEN "exit" ELSE IF Chat(t) THEN "open" ELSE "restart", FALSE)
    /\ UNCHANGED <<box, used>> /\ BridgeUnchanged

\* Mutant: the start is re-sent without looking at the row again.
MutantRestartsCold(t) ==
    /\ bridge[t].pc = "restart" /\ ~Cancelled(t)
    /\ Step(t, "open", FALSE) /\ BoxStarts(t, <<>>)
    /\ UNCHANGED <<used>> /\ BridgeUnchanged

\* restartArchitect, under the status mutex.
RestartBridge(t) ==
    /\ bridge[t].pc = "restart" /\ Free(SessionOf(t), "status")
    /\ IF Cancelled(t) THEN Step(t, "exit", FALSE) /\ UNCHANGED box
       ELSE IF ~Live(t) THEN Step(t, "exit", FALSE) /\ UNCHANGED box
       ELSE Step(t, "open", FALSE) /\ BoxStarts(t, <<>>)
    /\ UNCHANGED <<used>> /\ BridgeUnchanged

\* A text frame becomes a row, behind a blueprint's send in flight, and is
\* published.
Frame(t) ==
    /\ bridge[t].pc = "stream" /\ ~Cancelled(t) /\ ~bridge[t].over /\ box[t].up
    /\ Step(t, "frame", FALSE)
    /\ UNCHANGED <<box, used>> /\ BridgeUnchanged

FrameStored(t) ==
    /\ bridge[t].pc = "frame"
    /\ Free(SessionOf(t), "hub")
    /\ Chat(SessionOf(t)) \/ Free(SessionOf(t), "transcript")
    /\ Step(t, "stream", bridge[t].over)
    /\ UNCHANGED <<box, used>> /\ BridgeUnchanged

StreamEnds(t) ==
    /\ bridge[t].pc = "stream"
    /\ Cancelled(t) \/ bridge[t].over
    /\ Step(t, IF Cancelled(t) \/ Chat(t) THEN "exit" ELSE "wait", FALSE)
    /\ UNCHANGED <<box, used>> /\ BridgeUnchanged

StreamBreaks(t) ==
    /\ bridge[t].pc = "stream" /\ ~Cancelled(t) /\ Spend("faults")
    /\ Step(t, "wait", FALSE)
    /\ UNCHANGED <<box>> /\ BridgeUnchanged

ExitBridge(t) ==
    /\ bridge[t].pc = "exit" /\ bridge' = [bridge EXCEPT ![t] = NoBridge]
    /\ UNCHANGED <<box, used>> /\ BridgeUnchanged

Consumer(t) ==
    \/ OpenStream(t) \/ Retry(t) \/ RestartBridge(t) \/ Frame(t) \/ FrameStored(t)
    \/ StreamEnds(t) \/ StreamBreaks(t) \/ ExitBridge(t)

-----------------------------------------------------------------------------
(* OpenSession.                                                             *)

Open(c) ==
    LET s == call[c].s IN
    /\ At(c, "open")
    /\ CASE row[s] = "absent" -> Return(c, FALSE)
         [] row[s] = "active" -> Goto(c, "bridge")
         [] row[s] = "warm" -> Goto(c, "rewarm")
         [] row[s] = "cold" ->
              IF \E d \in Caller : call[d].s = s /\ call[d].pc \in FlightPCs
              THEN Goto(c, "joinOpen") ELSE Goto(c, "reserve")
    /\ UNCHANGED <<rest, world, lock, pending, bridge, used>>

\* The warm row is read again under the status mutex; a row that has drifted
\* is returned as it is, without an error.
Rewarm(c) ==
    LET s == call[c].s IN
    /\ At(c, "rewarm") /\ Free(s, "status")
    /\ row' = [row EXCEPT ![s] = IF @ = "warm" THEN "active" ELSE @]
    /\ IF Live(s) THEN Goto(c, "bridge") ELSE Return(c, row[s] # "absent")
    /\ UNCHANGED <<rest, transcript, box, fails, lock, pending, bridge, used>>

\* Mutant: an open that fails keeps its reservation.
MutantLanded(c, ok) ==
    /\ call' = [d \in Caller |->
          IF d = c \/ (call[d].pc = "joinOpen" /\ call[d].s = call[c].s)
          THEN Returned(d, ok) ELSE call[d]]
    /\ pending' = IF call[c].slot /\ ok THEN pending - 1 ELSE pending

\* openCold returns, to every caller that shares the flight.
Landed(c, ok) ==
    /\ call' = [d \in Caller |->
          IF d = c \/ (call[d].pc = "joinOpen" /\ call[d].s = call[c].s)
          THEN Returned(d, ok) ELSE call[d]]
    /\ pending' = IF call[c].slot THEN pending - 1 ELSE pending

Counted == Cardinality({s \in Session : Chat(s) /\ Live(s)})

\* Mutant: the opens in flight are not counted.
MutantReserve(c) ==
    /\ At(c, "reserve")
    /\ IF row[call[c].s] # "cold" THEN Landed(c, row[call[c].s] # "absent")
       ELSE IF Chat(call[c].s) /\ Counted >= MaxConcurrent THEN Landed(c, FALSE)
       ELSE /\ call' = [call EXCEPT ![c].pc = "start", ![c].slot = Chat(call[c].s)]
            /\ pending' = IF Chat(call[c].s) THEN pending + 1 ELSE pending
    /\ UNCHANGED <<rest, world, lock, bridge, used>>

\* Under openLimitMu: the open rows and the opens in flight leave room.
Reserve(c) ==
    /\ At(c, "reserve")
    /\ IF row[call[c].s] # "cold" THEN Landed(c, row[call[c].s] # "absent")
       ELSE IF Chat(call[c].s) /\ Counted + pending >= MaxConcurrent THEN Landed(c, FALSE)
       ELSE /\ call' = [call EXCEPT ![c].pc = "start", ![c].slot = Chat(call[c].s)]
            /\ pending' = IF Chat(call[c].s) THEN pending + 1 ELSE pending
    /\ UNCHANGED <<rest, world, lock, bridge, used>>

\* The transcript so far is the container's resume.
Start(c) ==
    LET s == call[c].s IN
    /\ At(c, "start") /\ BoxStarts(s, IF Chat(s) THEN transcript[s] ELSE <<>>)
    /\ Goto(c, "persist")
    /\ UNCHANGED <<rest, row, transcript, fails, lock, pending, bridge, used>>

\* StartChat fails, or only its answer is lost.
StartFails(c) ==
    LET s == call[c].s IN
    /\ At(c, "start") /\ Spend("faults") /\ Landed(c, FALSE)
    /\ \/ UNCHANGED <<box, adrift>>
       \/ BoxStarts(s, IF Chat(s) THEN transcript[s] ELSE <<>>) /\ adrift' = adrift \cup {s}
    /\ UNCHANGED <<kind, crossed, row, transcript, fails, lock, bridge>>

\* Under the status mutex: a row that is gone leaves the container behind.
Persist(c) ==
    LET s == call[c].s IN
    /\ At(c, "persist") /\ Free(s, "status")
    /\ IF row[s] = "absent"
       THEN Landed(c, FALSE) /\ adrift' = adrift \cup {s} /\ UNCHANGED row
       ELSE /\ row' = [row EXCEPT ![s] = "active"] /\ Goto(c, "opened")
            /\ UNCHANGED <<pending, adrift>>
    /\ UNCHANGED <<kind, crossed, transcript, box, fails, lock, bridge, used>>

\* The row cannot be written: rollbackContainer.
PersistFails(c) ==
    /\ At(c, "persist") /\ Free(call[c].s, "status") /\ row[call[c].s] = "cold"
    /\ Spend("faults") /\ Landed(c, FALSE) /\ BoxEnds(call[c].s)
    /\ UNCHANGED <<rest, row, transcript, fails, lock>>

Opened(c) ==
    /\ At(c, "opened") /\ StartConsumer(call[c].s, FALSE) /\ Landed(c, TRUE)
    /\ UNCHANGED <<kind, world, lock, used, adrift>>

Opens(c) == \/ Open(c) \/ Rewarm(c) \/ Reserve(c) \/ Start(c) \/ StartFails(c)
            \/ Persist(c) \/ PersistFails(c) \/ Opened(c)

-----------------------------------------------------------------------------
(* EndSession and DeleteSession.                                            *)

\* Mutant: the consumer is cancelled but stays registered until it is gone.
MutantEnd(c) ==
    LET s == call[c].s IN
    /\ At(c, "end")
    /\ IF ~Live(s) THEN Return(c, row[s] = "cold") ELSE Goto(c, "kill")
    /\ UNCHANGED <<rest, world, lock, pending, bridge, used>>

\* Mutant: the consumer is stopped under the status mutex.
MutantEndLocked(c) ==
    LET s == call[c].s IN
    /\ At(c, "end")
    /\ IF ~Live(s) THEN Return(c, row[s] = "cold") /\ UNCHANGED <<bridge, lock>>
       ELSE Free(s, "status") /\ Take(c, s, "status") /\ StopConsumer(c, "cold")
    /\ UNCHANGED <<rest, world, pending, used>>

End(c) ==
    LET s == call[c].s IN
    /\ At(c, "end")
    /\ IF ~Live(s) THEN Return(c, row[s] = "cold") /\ UNCHANGED bridge
       ELSE StopConsumer(c, "kill")
    /\ UNCHANGED <<rest, world, lock, pending, used>>

\* EndChat under the status mutex; a failure is only logged.
Kill(c) ==
    LET s == call[c].s IN
    /\ At(c, "kill") /\ Free(s, "status")
    /\ Take(c, s, "status") /\ Goto(c, "cold")
    /\ \/ BoxEnds(s) /\ UNCHANGED <<used, adrift>>
       \/ Spend("faults") /\ adrift' = adrift \cup {s} /\ UNCHANGED <<box, bridge>>
    /\ UNCHANGED <<kind, crossed, row, transcript, fails, pending>>

\* The row read before the mutex was taken is written back cold.
Cold(c) ==
    LET s == call[c].s IN
    /\ At(c, "cold") /\ Leave(s, "status")
    /\ row' = [row EXCEPT ![s] = IF @ = "absent" THEN @ ELSE "cold"]
    /\ IF row[s] = "absent" THEN Return(c, FALSE) ELSE Goto(c, "quieten")
    /\ UNCHANGED <<rest, transcript, box, fails, pending, bridge, used>>

\* The hub's replay ring is cleared.
Quieten(c) ==
    /\ At(c, "quieten") /\ Free(call[c].s, "hub") /\ Return(c, TRUE)
    /\ UNCHANGED <<rest, world, lock, pending, bridge, used>>

Delete(c) ==
    LET s == call[c].s IN
    /\ At(c, "delete")
    /\ CASE row[s] = "absent" -> Return(c, FALSE)
         [] row[s] = "cold" -> Goto(c, "delstop")
         [] OTHER -> Invoke(c, "end", "delstop")
    /\ UNCHANGED <<rest, world, lock, pending, bridge, used>>

DeleteStop(c) ==
    /\ At(c, "delstop") /\ StopConsumer(c, "delrow")
    /\ UNCHANGED <<rest, world, lock, pending, used>>

DeleteRow(c) ==
    LET s == call[c].s IN
    /\ At(c, "delrow")
    /\ row' = [row EXCEPT ![s] = "absent"] /\ transcript' = [transcript EXCEPT ![s] = <<>>]
    /\ IF row[s] = "absent" THEN Return(c, FALSE) ELSE Goto(c, "drop")
    \* EndSession failed before this, or somebody reopened the session since.
    /\ adrift' = IF Live(s) THEN adrift \cup {s} ELSE adrift
    /\ UNCHANGED <<kind, crossed, box, fails, lock, pending, bridge, used>>

Drop(c) ==
    LET s == call[c].s IN
    /\ At(c, "drop") /\ Free(s, "hub")
    /\ fails' = [fails EXCEPT ![s] = 0] /\ Return(c, TRUE)
    /\ UNCHANGED <<rest, row, transcript, box, lock, pending, bridge, used>>

Ends(c) == \/ End(c) \/ Join(c) \/ Kill(c) \/ Cold(c) \/ Quieten(c)
           \/ Delete(c) \/ DeleteStop(c) \/ DeleteRow(c) \/ Drop(c)

-----------------------------------------------------------------------------
(* Subscribing: Reattach, then MarkActive, inside the hub's mutex.          *)

Subscribe(c) ==
    LET s == call[c].s IN
    /\ At(c, "subscribe") /\ Free(s, "hub") /\ Take(c, s, "hub")
    /\ Invoke(c, "attach", "unhub")
    /\ UNCHANGED <<rest, world, pending, bridge, used>>

Attach(c) ==
    /\ At(c, "attach")
    /\ IF Live(call[c].s) THEN Goto(c, "reread") ELSE Return(c, TRUE)
    /\ UNCHANGED <<rest, world, lock, pending, bridge, used>>

Reread(c) ==
    LET s == call[c].s IN
    /\ At(c, "reread") /\ Free(s, "status")
    /\ CASE row[s] = "active" -> Goto(c, "bridge")
         [] row[s] = "warm" -> Invoke(c, "bridge", "promote")
         [] OTHER -> Return(c, TRUE)
    /\ UNCHANGED <<rest, world, lock, pending, bridge, used>>

\* MarkActive.
Promote(c) ==
    LET s == call[c].s IN
    /\ At(c, "promote") /\ Free(s, "status") /\ Return(c, TRUE)
    /\ row' = [row EXCEPT ![s] = IF @ = "warm" THEN "active" ELSE @]
    /\ UNCHANGED <<rest, transcript, box, fails, lock, pending, bridge, used>>

Unhub(c) ==
    /\ At(c, "unhub") /\ Leave(call[c].s, "hub") /\ Return(c, TRUE)
    /\ UNCHANGED <<rest, world, pending, bridge, used>>

Subscribes(c) == Subscribe(c) \/ Attach(c) \/ Reread(c) \/ Promote(c) \/ Unhub(c)

-----------------------------------------------------------------------------
(* Sending a user message.                                                  *)

Send(c) ==
    LET s == call[c].s IN
    /\ At(c, "send")
    /\ CASE row[s] = "absent" -> Return(c, FALSE)
         [] row[s] = "active" -> Goto(c, "arm")
         [] row[s] = "warm" -> Invoke(c, "promote", "arm")
         [] row[s] = "cold" -> Invoke(c, "open", "arm")
    /\ UNCHANGED <<rest, world, lock, pending, bridge, used>>

\* A blueprint's transcript mutex is held from here to the row's publish.
Arm(c) ==
    LET s == call[c].s IN
    /\ At(c, "arm")
    /\ IF ~call[c].ok THEN Return(c, FALSE) /\ UNCHANGED lock
       ELSE /\ Goto(c, "post")
            /\ IF Chat(s) THEN UNCHANGED lock
               ELSE Free(s, "transcript") /\ Take(c, s, "transcript")
    /\ UNCHANGED <<rest, world, pending, bridge, used>>

Give(c) == box' = [box EXCEPT ![call[c].s].given = Append(@, call[c].msg)]

Post(c) ==
    /\ call[c].pc \in {"post", "repost"} /\ box[call[c].s].up
    /\ Give(c) /\ Goto(c, "append")
    /\ UNCHANGED <<rest, row, transcript, fails, lock, pending, bridge, used>>

\* The backend cannot be reached, or only its answer is lost.
PostUnreached(c) ==
    /\ call[c].pc \in {"post", "repost"} /\ Spend("faults")
    /\ \/ UNCHANGED box
       \/ box[call[c].s].up /\ Give(c)
    /\ Goto(c, "unreached")
    /\ UNCHANGED <<rest, row, transcript, fails, lock, pending, bridge>>

\* Mutant: the row is stored before the message goes out.
MutantPostUnknown(c) ==
    LET s == call[c].s IN
    /\ call[c].pc \in {"post", "repost"} /\ ~box[s].up
    /\ transcript' = [transcript EXCEPT ![s] = IF call[c].msg \in ToSet(@) \/ row[s] = "absent"
                                               THEN @ ELSE Append(@, call[c].msg)]
    /\ IF At(c, "repost") THEN Goto(c, "failed") /\ UNCHANGED lock
       ELSE IF Chat(s) THEN Invoke(c, "end", "reopen") /\ UNCHANGED lock
       ELSE Goto(c, "restart") /\ Leave(s, "transcript")
    /\ UNCHANGED <<rest, row, box, fails, pending, bridge, used>>

\* The backend does not hold the session: a chat is ended and opened again, a
\* blueprint's start is sent again, once.
PostUnknown(c) ==
    LET s == call[c].s IN
    /\ call[c].pc \in {"post", "repost"} /\ ~box[s].up
    /\ IF At(c, "repost") THEN Goto(c, "failed") /\ UNCHANGED lock
       ELSE IF Chat(s) THEN Invoke(c, "end", "reopen") /\ UNCHANGED lock
       ELSE Goto(c, "restart") /\ Leave(s, "transcript")
    /\ UNCHANGED <<rest, world, pending, bridge, used>>

\* A start that fails may have failed to reach the backend, which counts as a
\* failed send; which error it was is not kept.
StartFailed(c) == Goto(c, "failed") \/ Goto(c, "unreached")

Reopen(c) ==
    /\ \/ /\ At(c, "reopen")
          /\ IF call[c].ok THEN Invoke(c, "open", "reopened") ELSE Goto(c, "failed")
       \/ At(c, "reopened") /\ IF call[c].ok THEN Goto(c, "repost") ELSE StartFailed(c)
    /\ UNCHANGED <<rest, world, lock, pending, bridge, used>>

RestartForSend(c) ==
    LET s == call[c].s IN
    /\ At(c, "restart") /\ Free(s, "status")
    /\ \/ /\ call' = [call EXCEPT ![c].pc = "relock", ![c].ok = Live(s)]
          /\ IF Live(s) THEN BoxStarts(s, <<>>) ELSE UNCHANGED box
          /\ UNCHANGED used
       \/ /\ call' = [call EXCEPT ![c].pc = "relock", ![c].ok = FALSE]
          /\ Spend("faults") /\ UNCHANGED box
    /\ UNCHANGED <<rest, row, transcript, fails, lock, pending, bridge>>

Relock(c) ==
    LET s == call[c].s IN
    /\ At(c, "relock") /\ Free(s, "transcript") /\ Take(c, s, "transcript")
    /\ IF call[c].ok THEN Goto(c, "repost") ELSE StartFailed(c)
    /\ UNCHANGED <<rest, world, pending, bridge, used>>

LeaveTranscript(c) ==
    IF lock[call[c].s].transcript = c THEN Leave(call[c].s, "transcript") ELSE UNCHANGED lock

\* Mutant: a failed send ends the session with its transcript mutex held.
MutantFailed(c) ==
    LET s == call[c].s
        unreached == At(c, "unreached")
        tooMany == unreached /\ fails[s] + 1 = MaxSendFailures
    IN  /\ call[c].pc \in {"failed", "unreached"}
        /\ fails' = [fails EXCEPT ![s] = IF tooMany THEN 0 ELSE IF unreached THEN @ + 1 ELSE @]
        /\ IF tooMany THEN Invoke(c, "end", "endfailed") /\ UNCHANGED lock
           ELSE Return(c, FALSE) /\ LeaveTranscript(c)
        /\ UNCHANGED <<rest, row, transcript, box, pending, bridge, used>>

\* The send has failed; a backend that cannot be reached too often in a row
\* ends the session.
Failed(c) ==
    LET s == call[c].s
        unreached == At(c, "unreached")
        tooMany == unreached /\ fails[s] + 1 = MaxSendFailures
    IN  /\ call[c].pc \in {"failed", "unreached"} /\ LeaveTranscript(c)
        /\ fails' = [fails EXCEPT ![s] = IF tooMany THEN 0 ELSE IF unreached THEN @ + 1 ELSE @]
        /\ IF tooMany THEN Invoke(c, "end", "endfailed") ELSE Return(c, FALSE)
        /\ UNCHANGED <<rest, row, transcript, box, pending, bridge, used>>

EndFailed(c) ==
    /\ At(c, "endfailed") /\ LeaveTranscript(c) /\ Return(c, FALSE)
    /\ UNCHANGED <<rest, world, pending, bridge, used>>

\* The backend has the message: it becomes a row and is published.
AppendRow(c) ==
    LET s == call[c].s IN
    /\ At(c, "append") /\ fails' = [fails EXCEPT ![s] = 0]
    /\ IF row[s] = "absent" THEN Return(c, FALSE) /\ LeaveTranscript(c) /\ UNCHANGED transcript
       ELSE /\ transcript' = [transcript EXCEPT ![s] = Append(@, call[c].msg)]
            /\ Goto(c, "publish") /\ UNCHANGED lock
    /\ UNCHANGED <<rest, row, box, pending, bridge, used>>

Publish(c) ==
    /\ At(c, "publish") /\ Free(call[c].s, "hub") /\ LeaveTranscript(c) /\ Return(c, TRUE)
    /\ UNCHANGED <<rest, world, pending, bridge, used>>

Sends(c) == \/ Send(c) \/ Arm(c) \/ Post(c) \/ PostUnreached(c) \/ PostUnknown(c)
            \/ Reopen(c) \/ RestartForSend(c) \/ Relock(c) \/ Failed(c) \/ EndFailed(c)
            \/ AppendRow(c) \/ Publish(c)

-----------------------------------------------------------------------------
(* What happens from outside.                                               *)

\* A call begins; the idle reaper's EndSession, and the grace timer's and the
\* startup's calls, are calls like a person's.
Begin(c) ==
    /\ At(c, "idle")
    /\ \E s \in Session, pc \in {"open", "end", "delete", "subscribe", "send"} :
        /\ row[s] # "absent"
        /\ used.calls < Bound["calls"]
        /\ pc = "send" => used["sends"] < Bound["sends"]
        /\ used' = [used EXCEPT !["calls"] = @ + 1, !["sends"] = IF pc = "send" THEN @ + 1 ELSE @]
        /\ call' = [call EXCEPT ![c] = [Idle EXCEPT !.s = s, !.pc = pc,
                                           !.msg = IF pc = "send" THEN used'["sends"] ELSE 0]]
    /\ UNCHANGED <<rest, world, lock, pending, bridge>>

\* The last subscriber left and the grace timer fired.
MarkWarmIdle(s) ==
    /\ row[s] = "active" /\ Free(s, "status") /\ Spend("calls")
    /\ row' = [row EXCEPT ![s] = "warm"]
    /\ UNCHANGED <<rest, transcript, box, fails, lock, pending, bridge, call>>

\* A worker exits, or its backend restarts.
WorkerExits(s) ==
    /\ box[s].up /\ Spend("faults") /\ BoxEnds(s)
    /\ UNCHANGED <<rest, row, transcript, fails, lock, pending, call>>

\* The process ends or crashes, and the startup reattaches the open sessions.
Restart ==
    /\ Spend("restarts")
    /\ call' = [c \in Caller |-> Idle] /\ pending' = 0
    /\ lock' = [s \in Session |-> [k \in DOMAIN lock[s] |-> "free"]]
    /\ bridge' = [t \in Thread |->
          IF t \in Session /\ Live(t)
          THEN [pc |-> IF Chat(t) THEN "open" ELSE "restart", over |-> FALSE] ELSE NoBridge]
    /\ fails' = [s \in Session |-> 0]
    /\ adrift' = adrift \cup {s \in Session : box[s].up /\ ~Live(s)}
    /\ UNCHANGED <<kind, crossed, row, transcript, box>>

Next ==
    \/ \E c \in Caller : Begin(c) \/ Opens(c) \/ Bridge(c) \/ Ends(c) \/ Subscribes(c) \/ Sends(c)
    \/ \E t \in Thread : Consumer(t)
    \/ \E s \in Session : MarkWarmIdle(s) \/ WorkerExits(s)
    \/ Restart

Spec == Init /\ [][Next]_vars

-----------------------------------------------------------------------------
(* Properties.                                                              *)

NoCall(s) == \A c \in Caller : call[c].s # s

\* chat.max_concurrent: however opens, ends, crashes of workers and failures
\* interleave, no more chat containers run than the limit, but for those the
\* manager has lost track of.
WithinLimit == Cardinality({s \in Session : Chat(s) /\ box[s].up} \ adrift) <= MaxConcurrent

\* Once the calls on a session have returned, a cold or deleted session has no
\* container and no architect session, unless an EndChat or the answer of a
\* StartChat failed, or it was deleted or the process ended inside an open.
ClosedIsEnded ==
    \A s \in Session \ adrift : NoCall(s) /\ box[s].up => Live(s)

\* stopConsumer: "a fast Reopen after EndSession is guaranteed to start a fresh
\* consumer".  Once the calls on a session have returned, an open session with
\* a container has a consumer that reads its log, or will again, unless a call
\* that found the row open started one as an EndSession closed it.
LiveIsBridged ==
    \A s \in Session \ (adrift \cup crossed) : NoCall(s) /\ Live(s) /\ box[s].up =>
        /\ bridge[s].pc \notin {"none", "exit"}
        /\ Chat(s) => ~bridge[s].over

\* SendUserMessage: a resume "never holds the message being sent", and a
\* message is sent again only when the backend did not have it: no container
\* is given a message twice, and the transcript has it once.
GivenOnce ==
    \A s \in Session : IsInjective(box[s].given) /\ IsInjective(transcript[s])

\* The threads, calls and consumers, that a thread waits for.
Holder(k, s) == IF Free(s, k) THEN {} ELSE {<<"call", lock[s][k]>>}

CallWaits(c) ==
    LET s == call[c].s
        pc == call[c].pc
    IN  CASE pc = "join" -> {<<"bridge", c>>}
          [] pc = "joinOpen" -> {<<"call", d>> : d \in {d \in Caller : call[d].s = s
                                                        /\ call[d].pc \in FlightPCs}}
          [] pc \in StatusPCs -> Holder("status", s)
          [] pc \in HubPCs -> Holder("hub", s)
          [] pc \in {"arm", "relock"} -> IF Chat(s) THEN {} ELSE Holder("transcript", s)
          [] OTHER -> {}

BridgeWaits(t) ==
    LET s == SessionOf(t) IN
    CASE bridge[t].pc = "restart" -> Holder("status", s)
      [] bridge[t].pc = "frame" -> Holder("hub", s)
                                   \cup (IF Chat(s) THEN {} ELSE Holder("transcript", s))
      [] OTHER -> {}

\* No calls and consumers wait for one another in a circle: on the status, the
\* hub and the transcript mutex, on a consumer that was stopped, or on an open
\* in flight.
NobodyWaitsForever ==
    LET threads == ({"call"} \X Caller) \cup ({"bridge"} \X Thread)
        WaitsFor(t) == IF t[1] = "call" THEN CallWaits(t[2]) ELSE BridgeWaits(t[2])
        blocked == {t \in threads : WaitsFor(t) # {}}
    IN  \A S \in (SUBSET blocked) \ {{}} : \E t \in S : WaitsFor(t) \cap S = {}
=============================================================================
