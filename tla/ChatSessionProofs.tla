------------------------- MODULE ChatSessionProofs -------------------------
(***************************************************************************)
(* Proofs about ChatSession.  IInv, the inductive invariant, is a stack of *)
(* layers, each resting on those before it:                                *)
(*                                                                         *)
(*   Typed     what the variables hold, and where each call returns to;    *)
(*   Mutexes   where the holder of a mutex stands;                         *)
(*   Flights   one open of a session at a time, and what it may find;      *)
(*   Fresh     the messages that no container and no row has yet;          *)
(*   Limited   each container has an open row or the reservation of an     *)
(*             open, and there is room for them;                           *)
(*   Bridged   the sessions that have no consumer, and who sees to them.   *)
(*                                                                         *)
(* A call's step is described once, by the lemma DoesX of its action X:    *)
(* where the call stood and goes, and what the step leaves alone.  What    *)
(* every step of a call keeps (OthersStay, StatusSteps, HubSteps ...)      *)
(* follows from these, and each layer's step from both.                    *)
(***************************************************************************)
EXTENDS ChatSession, FiniteSetTheorems, FunctionTheorems, SequenceTheorems, TLAPS

CallType == [s : Session \cup {"none"}, pc : PCs, then : Seq(PCs), ok : BOOLEAN,
             slot : BOOLEAN, msg : Nat]

OpenPCs == {"open", "joinOpen", "rewarm", "reserve", "start", "persist", "opened"}
EndPCs == {"end", "kill", "cold", "quieten"}
SendPCs == {"send", "arm", "post", "repost", "append", "publish", "restart", "relock",
            "reopen", "reopened", "unreached", "failed", "endfailed"}

\* Where an operation returns to: a send opens, ends and promotes, a deletion ends,
\* and a subscription reattaches.
Fits(pc, then) ==
    /\ pc \in OpenPCs => \/ Len(then) = 0
                         \/ (Len(then) = 1 /\ then[1] \in {"arm", "reopened"})
    /\ pc \in EndPCs => \/ Len(then) = 0
                        \/ (Len(then) = 1 /\ then[1] \in {"delstop", "reopen", "endfailed"})
    /\ pc = "join" => \/ (Len(then) = 1 /\ then[1] \in {"kill", "delrow"})
                      \/ /\ Len(then) = 2 /\ then[1] = "kill"
                         /\ then[2] \in {"delstop", "reopen", "endfailed"}
    /\ pc = "bridge" => \/ Len(then) = 0
                        \/ (Len(then) = 1 /\ then[1] \in {"arm", "reopened", "unhub"})
                        \/ (Len(then) = 2 /\ then[1] = "promote" /\ then[2] = "unhub")
    /\ pc \in {"attach", "reread"} => Len(then) = 1 /\ then[1] = "unhub"
    /\ pc = "promote" => Len(then) = 1 /\ then[1] \in {"arm", "unhub"}
    /\ pc \in SendPCs \cup {"idle", "delete", "delstop", "delrow", "drop", "subscribe", "unhub"}
       => Len(then) = 0

ForSend(q) == \/ q.pc \in SendPCs
              \/ (Len(q.then) = 1 /\ q.then[1] \in {"arm", "reopened", "reopen", "endfailed"})
              \/ (Len(q.then) = 2 /\ q.then[2] \in {"reopen", "endfailed"})

Shape(q) == /\ Fits(q.pc, q.then)
            /\ (q.s = "none") <=> (q.pc = "idle")
            /\ q.slot <=> (q.pc \in {"start", "persist", "opened"} /\ kind[q.s] = "chat")

Calls == call \in [Caller -> CallType] /\ \A c \in Caller : Shape(call[c])
Slots == {c \in Caller : call[c].slot}

Locks == [Session -> [{"status", "hub", "transcript"} -> Caller \cup {"free"}]]
Bridges == [Thread -> [over : BOOLEAN,
                       pc : {"none", "open", "restart", "wait", "stream", "frame", "exit"}]]
Boxes == [Session -> [up : BOOLEAN, given : Seq(Nat)]]
Used == [{"calls", "sends", "faults", "restarts"} -> Nat]

World ==
    /\ kind \in Kinds
    /\ row \in [Session -> {"absent", "cold", "active", "warm"}]
    /\ transcript \in [Session -> Seq(Nat)]
    /\ box \in Boxes /\ lock \in Locks /\ bridge \in Bridges
    /\ fails \in [Session -> 0..MaxSendFailures - 1]
    /\ used \in Used /\ used["sends"] <= Bound["sends"]

Typed == World /\ Calls /\ pending = Cardinality(Slots)

\* The hub's mutex is held to the end of the subscription, a transcript's while
\* the send is armed.
Subscribed(q) == \/ q.pc = "unhub"
                 \/ (Len(q.then) = 1 /\ q.then[1] = "unhub")
                 \/ (Len(q.then) = 2 /\ q.then[2] = "unhub")
ArmedPCs == {"post", "repost", "append", "publish", "unreached", "failed"}

StatusHeld ==
    /\ \A c \in Caller : At(c, "cold") => lock[call[c].s]["status"] = c
    /\ \A s \in Session, c \in Caller : lock[s]["status"] = c => call[c].s = s /\ At(c, "cold")
HubHeld ==
    \A s \in Session, c \in Caller : lock[s]["hub"] = c => call[c].s = s /\ Subscribed(call[c])
TranscriptHeld ==
    \A s \in Session, c \in Caller : lock[s]["transcript"] = c =>
        ~Chat(s) /\ call[c].s = s /\ call[c].pc \in ArmedPCs
Starters == \A c \in Caller : call[c].pc \in {"restart", "relock"} => ~Chat(call[c].s)
Consumers ==
    /\ \A c \in Caller : bridge[c].pc # "none" => At(c, "join")
    /\ \A s \in Session : bridge[s].pc = "restart" => ~Chat(s)
    /\ \A t \in Thread : bridge[t].over => bridge[t].pc \in {"stream", "frame"}
Mutexes == StatusHeld /\ HubHeld /\ TranscriptHeld /\ Starters /\ Consumers

InFlight(c) == call[c].pc \in FlightPCs
Flights ==
    /\ \A c, d \in Caller : InFlight(c) /\ InFlight(d) /\ call[c].s = call[d].s => c = d
    /\ \A c \in Caller : call[c].pc \in {"start", "persist"} => ~Live(call[c].s)

\* A message its container has not been given, and one its row is not written for.
Unposted(q) == \/ q.pc \in {"send", "arm", "post", "repost", "restart", "relock", "reopen",
                            "reopened"}
               \/ (Len(q.then) = 1 /\ q.then[1] \in {"arm", "reopened", "reopen"})
               \/ (Len(q.then) = 2 /\ q.then[2] = "reopen")
Fresh ==
    /\ \A c \in Caller :
        /\ ForSend(call[c]) => call[c].msg \in 1..used.sends
        /\ call[c].msg <= used.sends
        /\ \A s \in Session :
            /\ Unposted(call[c]) => call[c].msg \notin ToSet(box[s].given)
            /\ Unposted(call[c]) \/ At(c, "append") => call[c].msg \notin ToSet(transcript[s])
    /\ \A c, d \in Caller : call[c].msg = call[d].msg /\ call[c].msg # 0 => c = d
    /\ \A s \in Session : ToSet(box[s].given) \cup ToSet(transcript[s]) \subseteq 1..used.sends
    /\ GivenOnce

Opening(s) == \E c \in Caller : call[c].s = s /\ At(c, "persist")
Closing(s) == \E c \in Caller : call[c].s = s /\ At(c, "cold")
Occupied == {s \in Session : Chat(s) /\ Live(s)} \cup {call[c].s : c \in Slots}

\* Each container has a row that is open or about to be, and there is room for it.
Tracked == \A s \in Session \ adrift : box[s].up => Opening(s) \/ (Live(s) /\ ~Closing(s))
Room == Cardinality(Occupied) <= MaxConcurrent
Limited == Tracked /\ Room

\* A call that has stopped the consumer to close the row, and one that is about to
\* close it or to register a consumer.
Closes(q) == q.pc \in {"kill", "cold"} \/ (q.pc = "join" /\ q.then[1] = "kill")
Attends(q) == \/ q.pc \in {"opened", "delrow"} \/ Closes(q)
              \/ (q.pc = "join" /\ q.then[1] = "delrow")
Closers(s) == {c \in Caller : call[c].s = s /\ Closes(call[c])}
Attended(s) == \E c \in Caller : call[c].s = s /\ Attends(call[c])

Linked(s) ==
    /\ ~Live(s) => bridge[s].pc = "none"
    /\ Closers(s) # {} => bridge[s].pc = "none"
    /\ Live(s) /\ bridge[s].pc = "none" /\ (box[s].up \/ ~Chat(s)) => Attended(s)
    /\ Chat(s) /\ (bridge[s].pc = "exit" \/ bridge[s].over) => ~box[s].up
    /\ ~Chat(s) => bridge[s].pc # "exit"
Bridged == \A s \in Session \ (adrift \cup crossed) : Linked(s)

IInv == Typed /\ Mutexes /\ Flights /\ Fresh /\ Limited /\ Bridged

-----------------------------------------------------------------------------
(* What a call's step does to its record.                                   *)

Only(c) == \A d \in Caller \ {c} : call'[d] = call[d]
Went(c, p) ==
    /\ call'[c].pc = p /\ call'[c].then = call[c].then
    /\ call'[c].s = call[c].s /\ call'[c].msg = call[c].msg
Pushed(c, p, t) ==
    /\ call'[c].pc = p /\ call'[c].then[1] = t
    /\ Len(call[c].then) \in {0, 1} /\ Len(call'[c].then) = Len(call[c].then) + 1
    /\ Len(call[c].then) = 1 => call'[c].then[2] = call[c].then[1]
    /\ call'[c].s = call[c].s /\ call'[c].msg = call[c].msg
Popped(c) ==
    \/ Len(call[c].then) = 0 /\ call'[c] = Idle
    \/ /\ Len(call[c].then) = 1 /\ call'[c].pc = call[c].then[1] /\ Len(call'[c].then) = 0
       /\ call'[c].s = call[c].s /\ call'[c].msg = call[c].msg
    \/ /\ Len(call[c].then) = 2 /\ call'[c].pc = call[c].then[1] /\ Len(call'[c].then) = 1
       /\ call'[c].then[1] = call[c].then[2]
       /\ call'[c].s = call[c].s /\ call'[c].msg = call[c].msg

\* Whether a call that stands at p on s holds a reservation.
Reserves(s, p) == p \in {"start", "persist", "opened"} /\ kind[s] = "chat"

LEMMA PushFacts ==
    ASSUME NEW S, NEW t \in S, NEW st \in Seq(S)
    PROVE  /\ <<t>> \o st \in Seq(S)
           /\ Len(<<t>> \o st) = Len(st) + 1
           /\ (<<t>> \o st)[1] = t
           /\ \A i \in 1..Len(st) : (<<t>> \o st)[i + 1] = st[i]
  OBVIOUS

LEMMA PopFacts ==
    ASSUME NEW S, NEW st \in Seq(S), st # <<>>
    PROVE  /\ Head(st) = st[1] /\ Head(st) \in S /\ Tail(st) \in Seq(S)
           /\ Len(st) >= 1 /\ Len(Tail(st)) = Len(st) - 1
           /\ \A i \in 1..Len(st) - 1 : Tail(st)[i] = st[i + 1]
  OBVIOUS

LEMMA FitsShort ==
    ASSUME NEW p \in PCs, NEW st \in Seq(PCs), Fits(p, st)
    PROVE  Len(st) \in {0, 1, 2}
  BY DEF Fits, PCs, StatusPCs, HubPCs, FlightPCs, OpenPCs, EndPCs, SendPCs

\* A call that goes on within the operation it is in.
LEMMA Goes ==
    ASSUME Calls, kind' = kind, NEW c \in Caller, NEW p \in PCs, Goto(c, p),
           call[c].pc # "idle", p # "idle",
           Fits(p, call[c].then), call[c].slot <=> Reserves(call[c].s, p)
    PROVE  Calls' /\ Only(c) /\ Went(c, p) /\ call'[c].slot = call[c].slot
<1> DEFINE r == [call[c] EXCEPT !.pc = p]
<1>1. call[c] \in CallType /\ Shape(call[c])
  BY DEF Calls
<1>2. r \in CallType /\ r.pc = p /\ r.then = call[c].then /\ r.s = call[c].s
      /\ r.msg = call[c].msg /\ r.slot = call[c].slot
  BY <1>1 DEF CallType
<1>3. call' = [call EXCEPT ![c] = r]
  BY DEF Goto
<1> HIDE DEF r
<1>4. call' \in [Caller -> CallType] /\ call'[c] = r /\ Only(c)
  BY <1>2, <1>3 DEF Calls, Only
<1>5. \A d \in Caller : Shape(call[d])'
  <2> SUFFICES ASSUME NEW d \in Caller PROVE Shape(call[d])'
    OBVIOUS
  <2>1. CASE d = c
    BY <1>1, <1>2, <1>4, <2>1 DEF Shape, Fits, Reserves
  <2>2. CASE d # c
    <3>1. call'[d] = call[d] /\ Shape(call[d])
      BY <1>4, <2>2 DEF Calls, Only
    <3>2. QED
      BY <3>1 DEF Shape, Fits
  <2>3. QED
    BY <2>1, <2>2
<1>6. QED
  BY <1>2, <1>4, <1>5 DEF Calls, Went

\* A call that enters an operation, and will go on at t when that returns.
LEMMA Invokes ==
    ASSUME Calls, kind' = kind, NEW c \in Caller, NEW p \in PCs, NEW t \in PCs, Invoke(c, p, t),
           call[c].pc # "idle", p # "idle", ~Reserves(call[c].s, p), ~call[c].slot,
           Fits(p, <<t>> \o call[c].then)
    PROVE  Calls' /\ Only(c) /\ Pushed(c, p, t) /\ call'[c].slot = call[c].slot
<1> DEFINE st == <<t>> \o call[c].then
           r == [call[c] EXCEPT !.pc = p, !.then = st]
<1>1. call[c] \in CallType /\ Shape(call[c]) /\ call[c].then \in Seq(PCs)
  BY DEF Calls, CallType
<1>2. /\ st \in Seq(PCs) /\ Len(st) = Len(call[c].then) + 1 /\ st[1] = t
      /\ \A i \in 1..Len(call[c].then) : st[i + 1] = call[c].then[i]
  BY <1>1, PushFacts
<1>3. Len(call[c].then) = 1 => st[2] = call[c].then[1]
  BY <1>2
<1>4. call' = [call EXCEPT ![c] = r] /\ Fits(p, st)
  BY DEF Invoke, Calls, CallType
<1> HIDE DEF st
<1>5. r \in CallType /\ r.pc = p /\ r.then = st /\ r.s = call[c].s
      /\ r.msg = call[c].msg /\ r.slot = call[c].slot
  BY <1>1, <1>2 DEF CallType
<1> HIDE DEF r
<1>6. call' \in [Caller -> CallType] /\ call'[c] = r /\ Only(c)
  BY <1>4, <1>5 DEF Calls, Only
<1>7. \A d \in Caller : Shape(call[d])'
  <2> SUFFICES ASSUME NEW d \in Caller PROVE Shape(call[d])'
    OBVIOUS
  <2>1. CASE d = c
    BY <1>1, <1>4, <1>5, <1>6, <2>1 DEF Shape, Reserves, Fits
  <2>2. CASE d # c
    <3>1. call'[d] = call[d] /\ Shape(call[d])
      BY <1>6, <2>2 DEF Calls, Only
    <3>2. QED
      BY <3>1 DEF Shape, Fits
  <2>3. QED
    BY <2>1, <2>2
<1>8. Pushed(c, p, t)
  <2>1. Len(st) \in {0, 1, 2} /\ Len(call[c].then) \in Nat
    BY <1>1, <1>2, <1>4, FitsShort
  <2>2. Len(call[c].then) \in {0, 1}
    <3> DEFINE n == Len(call[c].then)
    <3>1. n \in Nat /\ n + 1 \in {0, 1, 2}
      BY <1>2, <2>1
    <3> HIDE DEF n
    <3>2. n \in {0, 1}
      BY <3>1
    <3>3. QED
      BY <3>2 DEF n
  <2>3. QED
    BY <1>2, <1>3, <1>5, <1>6, <2>2 DEF Pushed
<1>9. QED
  BY <1>5, <1>6, <1>7, <1>8 DEF Calls

\* What a call goes on with fits what it returns to.
LEMMA FitsOn ==
    ASSUME NEW q \in CallType, Fits(q.pc, q.then), q.then # <<>>
    PROVE  /\ Head(q.then) = q.then[1] /\ q.then[1] \in PCs \ {"idle"}
           /\ q.then[1] \notin {"start", "persist", "opened"}
           /\ Tail(q.then) \in Seq(PCs)
           /\ \/ Len(q.then) = 1 /\ Len(Tail(q.then)) = 0
              \/ Len(q.then) = 2 /\ Len(Tail(q.then)) = 1 /\ Tail(q.then)[1] = q.then[2]
           /\ Fits(q.then[1], Tail(q.then))
<1>1. q.then \in Seq(PCs) /\ q.pc \in PCs
  BY DEF CallType
<1>2. /\ Head(q.then) = q.then[1] /\ q.then[1] \in PCs /\ Tail(q.then) \in Seq(PCs)
      /\ Len(q.then) >= 1 /\ Len(Tail(q.then)) = Len(q.then) - 1
      /\ \A i \in 1..Len(q.then) - 1 : Tail(q.then)[i] = q.then[i + 1]
  BY <1>1, PopFacts
<1>3. Len(q.then) = 2 => Tail(q.then)[1] = q.then[2]
  BY <1>2
<1>4. Len(q.then) \in Nat
  BY <1>1
<1>5. Len(q.then) # 0
  BY <1>2, <1>4
<1>6. /\ Len(q.then) = 1 \/ Len(q.then) = 2
      /\ q.then[1] \in {"arm", "reopened", "delstop", "reopen", "endfailed", "kill", "delrow",
                        "unhub", "promote"}
      /\ q.then[1] = "promote" => Len(q.then) = 2 /\ q.then[2] = "unhub"
      /\ q.then[1] # "kill" /\ q.then[1] # "promote" => Len(q.then) = 1
      /\ Len(q.then) = 2 /\ q.then[1] = "kill" => q.then[2] \in {"delstop", "reopen", "endfailed"}
  BY <1>1, <1>5 DEF Fits, PCs, StatusPCs, HubPCs, FlightPCs, OpenPCs, EndPCs, SendPCs
<1>7. \/ Len(q.then) = 1 /\ Len(Tail(q.then)) = 0
      \/ Len(q.then) = 2 /\ Len(Tail(q.then)) = 1 /\ Tail(q.then)[1] = q.then[2]
  BY <1>2, <1>3, <1>6
<1>8. Fits(q.then[1], Tail(q.then))
  BY <1>6, <1>7 DEF Fits, OpenPCs, EndPCs, SendPCs
<1>9. QED
  BY <1>2, <1>6, <1>7, <1>8

LEMMA IdleFits == "none" \notin Session => Idle \in CallType /\ Shape(Idle)
  BY DEF CallType, Shape, Fits, Idle, OpenPCs, EndPCs, SendPCs, PCs, StatusPCs, HubPCs, FlightPCs

\* The record of a call whose operation has returned.
LEMMA ReturnedShape ==
    ASSUME Calls, kind' = kind, NEW c \in Caller, NEW ok \in BOOLEAN, call[c].pc # "idle",
           NEW r, r = Returned(c, ok)
    PROVE  /\ r \in CallType /\ Shape(r) /\ ~r.slot
           /\ \/ Len(call[c].then) = 0 /\ r = Idle
              \/ /\ Len(call[c].then) = 1 /\ r.pc = call[c].then[1] /\ Len(r.then) = 0
                 /\ r.s = call[c].s /\ r.msg = call[c].msg
              \/ /\ Len(call[c].then) = 2 /\ r.pc = call[c].then[1] /\ Len(r.then) = 1
                 /\ r.then[1] = call[c].then[2]
                 /\ r.s = call[c].s /\ r.msg = call[c].msg
<1> DEFINE q == call[c]
           st == Tail(q.then)
           p == q.then[1]
<1>1. q \in CallType /\ Shape(q) /\ q.then \in Seq(PCs) /\ Fits(q.pc, q.then)
  BY DEF Calls, CallType, Shape
<1>2. CASE q.then = <<>>
  <2>1. r = Idle /\ Len(q.then) = 0
    BY <1>2 DEF Returned
  <2>2. Idle \in CallType /\ Shape(Idle) /\ ~Idle.slot
    BY IdleFits, ChatAssumption DEF Idle
  <2>3. QED
    BY <2>1, <2>2
<1>3. CASE q.then # <<>>
  <2>1. /\ Head(q.then) = p /\ p \in PCs \ {"idle"} /\ p \notin {"start", "persist", "opened"}
        /\ st \in Seq(PCs)
        /\ \/ Len(q.then) = 1 /\ Len(st) = 0
           \/ Len(q.then) = 2 /\ Len(st) = 1 /\ st[1] = q.then[2]
        /\ Fits(p, st)
    BY <1>1, <1>3, FitsOn
  <2>2. r = [q EXCEPT !.pc = p, !.then = st, !.ok = ok, !.slot = FALSE]
    BY <1>1, <1>3, <2>1 DEF Returned, CallType
  <2> HIDE DEF p, st
  <2>3. /\ r \in CallType /\ r.pc = p /\ r.then = st /\ r.s = q.s /\ r.msg = q.msg
        /\ r.slot = FALSE
    BY <1>1, <2>1, <2>2 DEF CallType
  <2>4. Shape(r)
    BY <1>1, <2>1, <2>3 DEF Shape
  <2>5. p = q.then[1]
    BY DEF p
  <2>6. QED
    BY <2>1, <2>3, <2>4, <2>5
<1>4. QED
  BY <1>2, <1>3

\* A call whose operation returns.
LEMMA Returns ==
    ASSUME Calls, kind' = kind, NEW c \in Caller, NEW ok \in BOOLEAN, Return(c, ok),
           call[c].pc # "idle"
    PROVE  Calls' /\ Only(c) /\ Popped(c) /\ ~call'[c].slot
<1> DEFINE r == Returned(c, ok)
<1>1. /\ r \in CallType /\ Shape(r) /\ ~r.slot
      /\ \/ Len(call[c].then) = 0 /\ r = Idle
         \/ /\ Len(call[c].then) = 1 /\ r.pc = call[c].then[1] /\ Len(r.then) = 0
            /\ r.s = call[c].s /\ r.msg = call[c].msg
         \/ /\ Len(call[c].then) = 2 /\ r.pc = call[c].then[1] /\ Len(r.then) = 1
            /\ r.then[1] = call[c].then[2]
            /\ r.s = call[c].s /\ r.msg = call[c].msg
  BY ReturnedShape
<1>2. call' = [call EXCEPT ![c] = r]
  BY DEF Return
<1> HIDE DEF r
<1>3. call' \in [Caller -> CallType] /\ call'[c] = r /\ Only(c)
  BY <1>1, <1>2 DEF Calls, Only
<1>4. \A d \in Caller : Shape(call[d])'
  <2> SUFFICES ASSUME NEW d \in Caller PROVE Shape(call[d])'
    OBVIOUS
  <2>1. Shape(call'[d])
    BY <1>1, <1>3 DEF Only, Calls
  <2>2. QED
    BY <2>1 DEF Shape, Fits
<1>5. QED
  BY <1>1, <1>3, <1>4 DEF Calls, Popped

\* What is left to a call is to return to one of the points in P, or to end.
Due(c, P) == Len(call[c].then) = 0 \/ (Len(call[c].then) = 1 /\ call[c].then[1] \in P)
Back(c, P) ==
    \/ /\ Len(call[c].then) = 0 /\ Len(call'[c].then) = 0
       /\ call'[c].pc = "idle" /\ call'[c].s = "none" /\ call'[c].msg = 0
    \/ /\ Len(call[c].then) = 1 /\ Len(call'[c].then) = 0 /\ call[c].then[1] \in P
       /\ call'[c].pc = call[c].then[1]
       /\ call'[c].s = call[c].s /\ call'[c].msg = call[c].msg

LEMMA PopBack == ASSUME NEW c \in Caller, NEW P, Popped(c), Due(c, P) PROVE Back(c, P)
  BY DEF Popped, Due, Back, Idle

\* openCold returns to the callers that share the flight.
Joins(d, c) == At(d, "joinOpen") /\ call[d].s = call[c].s
Landing(c) ==
    /\ Back(c, {"arm", "reopened"})
    /\ \A d \in Caller \ {c} : IF Joins(d, c) THEN Back(d, {"arm", "reopened"})
                                              ELSE call'[d] = call[d]

LEMMA Lands ==
    ASSUME Calls, kind' = kind, NEW c \in Caller, NEW ok \in BOOLEAN, Landed(c, ok),
           InFlight(c)
    PROVE  /\ Calls' /\ Landing(c) /\ Slots' = Slots \ {c}
           /\ pending = Cardinality(Slots) => pending' = Cardinality(Slots')
<1>1. \A d \in Caller : d = c \/ Joins(d, c) => call'[d] = Returned(d, ok)
  BY DEF Landed, Joins, At
<1>2. \A d \in Caller : ~(d = c \/ Joins(d, c)) => call'[d] = call[d]
  BY DEF Landed, Joins, At
<1>3. \A d \in Caller : d = c \/ Joins(d, c) => call[d].pc # "idle"
  BY DEF Joins, At, InFlight, FlightPCs
<1>4. ASSUME NEW d \in Caller, d = c \/ Joins(d, c)
      PROVE  call'[d] \in CallType /\ Shape(call'[d]) /\ ~call'[d].slot /\ Popped(d)
  <2> DEFINE r == call'[d]
  <2>1. r = Returned(d, ok) /\ call[d].pc # "idle"
    BY <1>1, <1>3, <1>4
  <2> HIDE DEF r
  <2>2. /\ r \in CallType /\ Shape(r) /\ ~r.slot
        /\ \/ Len(call[d].then) = 0 /\ r = Idle
           \/ /\ Len(call[d].then) = 1 /\ r.pc = call[d].then[1] /\ Len(r.then) = 0
              /\ r.s = call[d].s /\ r.msg = call[d].msg
           \/ /\ Len(call[d].then) = 2 /\ r.pc = call[d].then[1] /\ Len(r.then) = 1
              /\ r.then[1] = call[d].then[2]
              /\ r.s = call[d].s /\ r.msg = call[d].msg
    BY <2>1, ReturnedShape
  <2>3. QED
    BY <2>2 DEF Popped, r
<1>5. ASSUME NEW d \in Caller, ~(d = c \/ Joins(d, c))
      PROVE  call'[d] \in CallType /\ Shape(call'[d])
  BY <1>2, <1>5 DEF Calls
<1>6. Calls'
  <2>1. call' \in [Caller -> CallType]
    <3>1. call' = [d \in Caller |-> call'[d]]
      BY DEF Landed
    <3>2. QED
      BY <1>4, <1>5, <3>1
  <2>2. \A d \in Caller : Shape(call[d])'
    BY <1>4, <1>5 DEF Shape, Fits
  <2>3. QED
    BY <2>1, <2>2 DEF Calls
<1>7. \A d \in Caller : Joins(d, c) => ~call[d].slot
  BY DEF Calls, Shape, Joins, At
<1>8. Slots' = Slots \ {c}
  BY <1>2, <1>4, <1>7 DEF Slots
<1>9. Landing(c)
  <2>1. \A d \in Caller : d = c \/ Joins(d, c) => Due(d, {"arm", "reopened"})
    BY DEF Calls, Shape, Fits, Joins, At, InFlight, FlightPCs, OpenPCs, Due
  <2>2. \A d \in Caller : d = c \/ Joins(d, c) => Back(d, {"arm", "reopened"})
    BY <1>4, <2>1, PopBack
  <2>3. QED
    BY <1>2, <2>2 DEF Landing
<1>10. ASSUME pending = Cardinality(Slots) PROVE pending' = Cardinality(Slots')
  <2>1. IsFiniteSet(Slots) /\ Cardinality(Slots) \in Nat
    BY ChatAssumption, FS_Subset, FS_CardinalityType DEF Slots
  <2>2. Cardinality(Slots') = IF c \in Slots THEN Cardinality(Slots) - 1 ELSE Cardinality(Slots)
    BY <1>8, <2>1, FS_RemoveElement
  <2>3. c \in Slots <=> call[c].slot
    BY DEF Slots
  <2>4. pending' = IF call[c].slot THEN pending - 1 ELSE pending
    BY DEF Landed
  <2>5. QED
    BY <1>10, <2>1, <2>2, <2>3, <2>4
<1>11. QED
  BY <1>6, <1>8, <1>9, <1>10

\* A call that never held a reservation is known to have none.
LEMMA SameSlots ==
    ASSUME NEW c \in Caller, Only(c), call'[c].slot = call[c].slot
    PROVE  Slots' = Slots
  BY DEF Slots, Only

-----------------------------------------------------------------------------
(* What the helpers of the actions do to the mutexes, the consumers, the    *)
(* containers and the bounds.                                               *)

LEMMA Taken ==
    ASSUME lock \in Locks, NEW s \in Session, NEW c \in Caller,
           NEW k \in {"status", "hub", "transcript"}, Take(c, s, k)
    PROVE  /\ lock' \in Locks
           /\ \A z \in Session, j \in {"status", "hub", "transcript"} :
                lock'[z][j] = IF z = s /\ j = k THEN c ELSE lock[z][j]
  BY DEF Locks, Take

LEMMA Left ==
    ASSUME lock \in Locks, NEW s \in Session, NEW k \in {"status", "hub", "transcript"},
           Leave(s, k)
    PROVE  /\ lock' \in Locks
           /\ \A z \in Session, j \in {"status", "hub", "transcript"} :
                lock'[z][j] = IF z = s /\ j = k THEN "free" ELSE lock[z][j]
  BY DEF Locks, Leave

LEMMA LeftTranscript ==
    ASSUME lock \in Locks, NEW c \in Caller, call[c].s \in Session, LeaveTranscript(c)
    PROVE  /\ lock' \in Locks
           /\ \A z \in Session, j \in {"status", "hub", "transcript"} :
                lock'[z][j] = IF z = call[c].s /\ j = "transcript" /\ lock[z][j] = c
                              THEN "free" ELSE lock[z][j]
<1>1. CASE lock[call[c].s].transcript = c
  BY <1>1, Left DEF LeaveTranscript
<1>2. CASE lock[call[c].s].transcript # c
  BY <1>2 DEF LeaveTranscript
<1>3. QED
  BY <1>1, <1>2

LEMMA Started ==
    ASSUME bridge \in Bridges, NEW s \in Session, NEW again \in BOOLEAN, StartConsumer(s, again)
    PROVE  /\ bridge' \in Bridges
           /\ \A t \in Thread \ {s} : bridge'[t] = bridge[t]
           /\ bridge[s].pc # "none" => bridge'[s] = bridge[s]
           /\ bridge[s].pc = "none" =>
                /\ bridge'[s].over = bridge[s].over
                /\ \/ bridge'[s].pc = "open"
                   \/ again /\ ~Chat(s) /\ bridge'[s].pc = "restart"
                /\ ~Live(s) \/ (\E d \in Caller : call[d].s = s /\ Ending(d)) => s \in crossed'
           /\ crossed \subseteq crossed'
<1>1. s \in Thread
  BY DEF Thread
<1>2. CASE bridge[s].pc # "none"
  BY <1>2 DEF StartConsumer
<1>3. CASE bridge[s].pc = "none"
  BY <1>1, <1>3 DEF StartConsumer, Bridges
<1>4. QED
  BY <1>2, <1>3

LEMMA Stopped ==
    ASSUME bridge \in Bridges, NEW c \in Caller, call[c].s \in Session,
           bridge' = [bridge EXCEPT ![call[c].s] = NoBridge, ![c] = bridge[call[c].s]]
    PROVE  /\ bridge' \in Bridges
           /\ bridge'[call[c].s] = NoBridge /\ bridge'[c] = bridge[call[c].s]
           /\ \A t \in Thread \ {c, call[c].s} : bridge'[t] = bridge[t]
<1>1. /\ call[c].s \in Thread /\ c \in Thread /\ call[c].s # c
      /\ NoBridge \in [over : BOOLEAN,
                         pc : {"none", "open", "restart", "wait", "stream", "frame", "exit"}]
  BY ChatAssumption DEF Thread, NoBridge
<1>2. QED
  BY <1>1 DEF Bridges

LEMMA Ended ==
    ASSUME box \in Boxes, bridge \in Bridges, NEW s \in Session, BoxEnds(s)
    PROVE  /\ box' \in Boxes /\ bridge' \in Bridges
           /\ box'[s] = Down /\ ~box'[s].up /\ box'[s].given = <<>>
           /\ \A z \in Session \ {s} : box'[z] = box[z]
           /\ \A t \in Thread :
                /\ bridge'[t].pc = bridge[t].pc
                /\ \/ bridge'[t].over = bridge[t].over
                   \/ bridge'[t].over /\ SessionOf(t) = s /\ bridge[t].pc \in {"stream", "frame"}
<1>1. Down \in [up : BOOLEAN, given : Seq(Nat)] /\ ~Down.up /\ Down.given = <<>>
  BY DEF Down
<1>2. box' \in Boxes /\ box'[s] = Down /\ \A z \in Session \ {s} : box'[z] = box[z]
  BY <1>1 DEF BoxEnds, Boxes
<1>3. ASSUME NEW t \in Thread
      PROVE  /\ bridge'[t] \in [over : BOOLEAN,
                         pc : {"none", "open", "restart", "wait", "stream", "frame", "exit"}]
             /\ bridge'[t].pc = bridge[t].pc
             /\ \/ bridge'[t].over = bridge[t].over
                \/ bridge'[t].over /\ SessionOf(t) = s /\ bridge[t].pc \in {"stream", "frame"}
  <2>1. bridge[t] \in [over : BOOLEAN,
                       pc : {"none", "open", "restart", "wait", "stream", "frame", "exit"}]
    BY DEF Bridges
  <2>2. CASE SessionOf(t) = s /\ bridge[t].pc \in {"stream", "frame"}
    <3>1. bridge'[t] = [bridge[t] EXCEPT !.over = TRUE]
      BY <2>2 DEF BoxEnds
    <3>2. QED
      BY <2>1, <2>2, <3>1
  <2>3. CASE ~(SessionOf(t) = s /\ bridge[t].pc \in {"stream", "frame"})
    <3>1. bridge'[t] = bridge[t]
      BY <2>3 DEF BoxEnds
    <3>2. QED
      BY <2>1, <3>1
  <2>4. QED
    BY <2>2, <2>3
<1>4. bridge' \in Bridges
  <2>1. bridge' = [t \in Thread |-> bridge'[t]]
    BY DEF BoxEnds
  <2>2. QED
    BY <1>3, <2>1 DEF Bridges
<1>5. QED
  BY <1>1, <1>2, <1>3, <1>4

LEMMA Begun ==
    ASSUME box \in Boxes, NEW s \in Session, NEW given \in Seq(Nat), BoxStarts(s, given)
    PROVE  /\ box' \in Boxes /\ box'[s].up
           /\ box[s].up => box' = box
           /\ ~box[s].up => box'[s].given = given
           /\ \A z \in Session \ {s} : box'[z] = box[z]
<1>1. CASE box[s].up
  <2>1. box' = [box EXCEPT ![s] = box[s]]
    BY <1>1 DEF BoxStarts
  <2>2. QED
    BY <1>1, <2>1 DEF Boxes
<1>2. CASE ~box[s].up
  <2>1. box' = [box EXCEPT ![s] = [up |-> TRUE, given |-> given]]
    BY <1>2 DEF BoxStarts
  <2>2. QED
    BY <1>2, <2>1 DEF Boxes
<1>3. QED
  BY <1>1, <1>2

LEMMA Handed ==
    ASSUME box \in Boxes, NEW c \in Caller, call[c].s \in Session, call[c].msg \in Nat, Give(c)
    PROVE  /\ box' \in Boxes /\ box'[call[c].s].up = box[call[c].s].up
           /\ box[call[c].s].given \in Seq(Nat)
           /\ box'[call[c].s].given = Append(box[call[c].s].given, call[c].msg)
           /\ \A z \in Session \ {call[c].s} : box'[z] = box[z]
<1> DEFINE s == call[c].s
           longer == Append(box[s].given, call[c].msg)
           b == [box[s] EXCEPT !.given = longer]
<1>1. box[s] \in [up : BOOLEAN, given : Seq(Nat)] /\ longer \in Seq(Nat)
  BY DEF Boxes
<1>2. box' = [box EXCEPT ![s] = b]
  BY DEF Give
<1> HIDE DEF longer
<1>3. b \in [up : BOOLEAN, given : Seq(Nat)] /\ b.up = box[s].up /\ b.given = longer
  BY <1>1
<1> HIDE DEF b
<1>4. box' \in Boxes /\ box'[s] = b /\ \A z \in Session \ {s} : box'[z] = box[z]
  BY <1>2, <1>3 DEF Boxes
<1>5. QED
  BY <1>1, <1>3, <1>4 DEF longer

LEMMA Spent ==
    ASSUME used \in Used, used["sends"] <= Bound["sends"],
           NEW k \in {"calls", "sends", "faults", "restarts"}, Spend(k)
    PROVE  /\ used' \in Used /\ used'["sends"] <= Bound["sends"]
           /\ k # "sends" => used'["sends"] = used["sends"]
  BY ChatAssumption DEF Used, Spend

-----------------------------------------------------------------------------
(* What each step of a call does to the call, and that the shapes are kept. *)

LEMMA DoesOpen ==
    ASSUME Typed, NEW c \in Caller, Open(c)
    PROVE  /\ Typed' /\ Only(c) /\ call[c].s \in Session /\ At(c, "open")
           /\ Due(c, {"arm", "reopened"})
           /\ Slots' = Slots
           /\ UNCHANGED <<kind, row, transcript, box, lock, bridge, fails, used, adrift,
                          crossed, pending>>
           /\ \/ row[call[c].s] = "absent" /\ Back(c, {"arm", "reopened"})
              \/ row[call[c].s] = "active" /\ Went(c, "bridge")
              \/ row[call[c].s] = "warm" /\ Went(c, "rewarm")
              \/ /\ row[call[c].s] = "cold"
                 /\ \E d \in Caller : call[d].s = call[c].s /\ InFlight(d)
                 /\ Went(c, "joinOpen")
              \/ /\ row[call[c].s] = "cold"
                 /\ \A d \in Caller : call[d].s = call[c].s => ~InFlight(d)
                 /\ Went(c, "reserve")
<1> DEFINE s == call[c].s
<1>1. /\ call[c] \in CallType /\ Shape(call[c]) /\ kind' = kind /\ s \in Session
      /\ At(c, "open")
      /\ Calls /\ World /\ call[c].then \in Seq(PCs) /\ call[c].slot \in BOOLEAN
  BY DEF Typed, Calls, CallType, Shape, World, At, Open, rest
<1>2. /\ UNCHANGED <<kind, row, transcript, box, lock, bridge, fails, used, adrift, crossed,
                     pending>>
  BY DEF Open, rest, world, history
<1>3. Due(c, {"arm", "reopened"})
  BY <1>1 DEF At, Due, Shape, Fits, OpenPCs, EndPCs, SendPCs
<1>4. /\ Calls' /\ Only(c) /\ call'[c].slot = call[c].slot
      /\ \/ row[call[c].s] = "absent" /\ Back(c, {"arm", "reopened"})
         \/ row[call[c].s] = "active" /\ Went(c, "bridge")
         \/ row[call[c].s] = "warm" /\ Went(c, "rewarm")
         \/ /\ row[call[c].s] = "cold" /\ \E d \in Caller : call[d].s = call[c].s /\ InFlight(d)
            /\ Went(c, "joinOpen")
         \/ /\ row[call[c].s] = "cold" /\ \A d \in Caller : call[d].s = call[c].s => ~InFlight(d)
            /\ Went(c, "reserve")
  <2>1. CASE row[call[c].s] = "absent"
    <3>1. Return(c, FALSE)
      BY <1>1, <2>1 DEF Open, Live, InFlight, At
    <3>2. call[c].pc # "idle" /\ ~call[c].slot /\ (FALSE) \in BOOLEAN
      BY <1>1 DEF Shape, At
    <3>3. Calls' /\ Only(c) /\ Popped(c) /\ ~call'[c].slot
      BY <1>1, <3>1, <3>2, Returns
    <3>4. call'[c].slot = call[c].slot
      BY <1>1, <3>2, <3>3 DEF Calls, CallType
    <3>5. Back(c, {"arm", "reopened"})
      BY <3>3, <1>3, PopBack
    <3>6. QED
      BY <1>1, <2>1, <3>1, <3>3, <3>4, <3>5
  <2>2. CASE row[call[c].s] = "active"
    <3>1. Goto(c, "bridge")
      BY <1>1, <2>2 DEF Open, Live, InFlight, At
    <3>2. /\ call[c].pc # "idle" /\ "bridge" \in PCs /\ Fits("bridge", call[c].then)
          /\ call[c].slot <=> Reserves(s, "bridge")
      BY <1>1, <2>2 DEF At, Shape, Fits, Reserves, OpenPCs, EndPCs, SendPCs, PCs, StatusPCs,
         HubPCs, FlightPCs
    <3>3. QED
      BY <1>1, <2>2, <3>1, <3>2, Goes
  <2>3. CASE row[call[c].s] = "warm"
    <3>1. Goto(c, "rewarm")
      BY <1>1, <2>3 DEF Open, Live, InFlight, At
    <3>2. /\ call[c].pc # "idle" /\ "rewarm" \in PCs /\ Fits("rewarm", call[c].then)
          /\ call[c].slot <=> Reserves(s, "rewarm")
      BY <1>1, <2>3 DEF At, Shape, Fits, Reserves, OpenPCs, EndPCs, SendPCs, PCs, StatusPCs,
         HubPCs, FlightPCs
    <3>3. QED
      BY <1>1, <2>3, <3>1, <3>2, Goes
  <2>4. CASE row[call[c].s] = "cold" /\ \E d \in Caller : call[d].s = call[c].s /\ InFlight(d)
    <3>1. Goto(c, "joinOpen")
      BY <1>1, <2>4 DEF Open, Live, InFlight, At
    <3>2. /\ call[c].pc # "idle" /\ "joinOpen" \in PCs /\ Fits("joinOpen", call[c].then)
          /\ call[c].slot <=> Reserves(s, "joinOpen")
      BY <1>1, <2>4 DEF At, Shape, Fits, Reserves, OpenPCs, EndPCs, SendPCs, PCs, StatusPCs,
         HubPCs, FlightPCs
    <3>3. QED
      BY <1>1, <2>4, <3>1, <3>2, Goes
  <2>5. CASE row[call[c].s] = "cold" /\ \A d \in Caller : call[d].s = call[c].s => ~InFlight(d)
    <3>1. Goto(c, "reserve")
      BY <1>1, <2>5 DEF Open, Live, InFlight, At
    <3>2. /\ call[c].pc # "idle" /\ "reserve" \in PCs /\ Fits("reserve", call[c].then)
          /\ call[c].slot <=> Reserves(s, "reserve")
      BY <1>1, <2>5 DEF At, Shape, Fits, Reserves, OpenPCs, EndPCs, SendPCs, PCs, StatusPCs,
         HubPCs, FlightPCs
    <3>3. QED
      BY <1>1, <2>5, <3>1, <3>2, Goes
  <2>6. QED
    BY <1>1, <2>1, <2>2, <2>3, <2>4, <2>5 DEF World, Live, At
<1>5. World'
  BY <1>1 DEF World, At, CallType, Open, rest, world
<1>6. Slots' = Slots
  BY <1>4, SameSlots
<1>7. QED
  BY <1>1, <1>2, <1>3, <1>4, <1>5, <1>6 DEF Typed

LEMMA DoesRewarm ==
    ASSUME Typed, NEW c \in Caller, Rewarm(c)
    PROVE  /\ Typed' /\ Only(c) /\ call[c].s \in Session /\ At(c, "rewarm")
           /\ Due(c, {"arm", "reopened"})
           /\ Slots' = Slots
           /\ UNCHANGED <<kind, transcript, box, lock, bridge, fails, used, adrift, crossed,
                          pending>>
           /\ row' = [row EXCEPT ![call[c].s] = IF @ = "warm" THEN "active" ELSE @]
           /\ \/ Live(call[c].s) /\ Went(c, "bridge")
              \/ ~Live(call[c].s) /\ Back(c, {"arm", "reopened"})
<1> DEFINE s == call[c].s
<1>1. /\ call[c] \in CallType /\ Shape(call[c]) /\ kind' = kind /\ s \in Session
      /\ At(c, "rewarm")
      /\ Calls /\ World /\ call[c].then \in Seq(PCs) /\ call[c].slot \in BOOLEAN
  BY DEF Typed, Calls, CallType, Shape, World, At, Rewarm, rest
<1>2. /\ UNCHANGED <<kind, transcript, box, lock, bridge, fails, used, adrift, crossed, pending>>
      /\ row' = [row EXCEPT ![call[c].s] = IF @ = "warm" THEN "active" ELSE @]
  BY DEF Rewarm, rest, world, history
<1>3. Due(c, {"arm", "reopened"})
  BY <1>1 DEF At, Due, Shape, Fits, OpenPCs, EndPCs, SendPCs
<1>4. /\ Calls' /\ Only(c) /\ call'[c].slot = call[c].slot
      /\ \/ Live(call[c].s) /\ Went(c, "bridge")
         \/ ~Live(call[c].s) /\ Back(c, {"arm", "reopened"})
  <2>1. CASE Live(call[c].s)
    <3>1. Goto(c, "bridge")
      BY <1>1, <2>1 DEF Rewarm, Live, InFlight, At
    <3>2. /\ call[c].pc # "idle" /\ "bridge" \in PCs /\ Fits("bridge", call[c].then)
          /\ call[c].slot <=> Reserves(s, "bridge")
      BY <1>1, <2>1 DEF At, Shape, Fits, Reserves, OpenPCs, EndPCs, SendPCs, PCs, StatusPCs,
         HubPCs, FlightPCs
    <3>3. QED
      BY <1>1, <2>1, <3>1, <3>2, Goes
  <2>2. CASE ~Live(call[c].s)
    <3>1. Return(c, row[call[c].s] # "absent")
      BY <1>1, <2>2 DEF Rewarm, Live, InFlight, At
    <3>2. call[c].pc # "idle" /\ ~call[c].slot /\ (row[call[c].s] # "absent") \in BOOLEAN
      BY <1>1 DEF Shape, At
    <3>3. Calls' /\ Only(c) /\ Popped(c) /\ ~call'[c].slot
      BY <1>1, <3>1, <3>2, Returns
    <3>4. call'[c].slot = call[c].slot
      BY <1>1, <3>2, <3>3 DEF Calls, CallType
    <3>5. Back(c, {"arm", "reopened"})
      BY <3>3, <1>3, PopBack
    <3>6. QED
      BY <1>1, <2>2, <3>1, <3>3, <3>4, <3>5
  <2>3. QED
    BY <1>1, <2>1, <2>2 DEF World, Live, At
<1>5. World'
  BY <1>1 DEF World, At, CallType, Rewarm, rest, world
<1>6. Slots' = Slots
  BY <1>4, SameSlots
<1>7. QED
  BY <1>1, <1>2, <1>3, <1>4, <1>5, <1>6 DEF Typed

LEMMA DoesStart ==
    ASSUME Typed, NEW c \in Caller, Start(c)
    PROVE  /\ Typed' /\ Only(c) /\ call[c].s \in Session /\ At(c, "start")
           /\ Due(c, {"arm", "reopened"})
           /\ Slots' = Slots
           /\ UNCHANGED <<kind, row, transcript, lock, bridge, fails, used, adrift, crossed,
                          pending>>
           /\ BoxStarts(call[c].s, IF Chat(call[c].s) THEN transcript[call[c].s] ELSE <<>>)
           /\ Went(c, "persist")
<1> DEFINE s == call[c].s
<1>1. /\ call[c] \in CallType /\ Shape(call[c]) /\ kind' = kind /\ s \in Session
      /\ At(c, "start")
      /\ Calls /\ World /\ call[c].then \in Seq(PCs) /\ call[c].slot \in BOOLEAN
  BY DEF Typed, Calls, CallType, Shape, World, At, Start, rest
<1>2. /\ UNCHANGED <<kind, row, transcript, lock, bridge, fails, used, adrift, crossed, pending>>
      /\ BoxStarts(call[c].s, IF Chat(call[c].s) THEN transcript[call[c].s] ELSE <<>>)
  BY DEF Start, rest, world, history
<1>3. Due(c, {"arm", "reopened"})
  BY <1>1 DEF At, Due, Shape, Fits, OpenPCs, EndPCs, SendPCs
<1>4. /\ Calls' /\ Only(c) /\ call'[c].slot = call[c].slot
      /\ Went(c, "persist")
  <2>1. Goto(c, "persist")
    BY <1>1 DEF Start
  <2>2. /\ call[c].pc # "idle" /\ "persist" \in PCs /\ Fits("persist", call[c].then)
        /\ call[c].slot <=> Reserves(s, "persist")
    BY <1>1 DEF At, Shape, Fits, Reserves, OpenPCs, EndPCs, SendPCs, PCs, StatusPCs, HubPCs,
       FlightPCs
  <2>3. QED
    BY <1>1, <2>1, <2>2, Goes
<1>5. World'
  <2>1. (IF Chat(s) THEN transcript[s] ELSE <<>>) \in Seq(Nat)
    BY <1>1 DEF World
  <2>2. box' \in Boxes
    BY <1>1, <1>2, <2>1, Begun DEF World
  <2>3. QED
    BY <1>1, <1>2, <2>2 DEF World
<1>6. Slots' = Slots
  BY <1>4, SameSlots
<1>7. QED
  BY <1>1, <1>2, <1>3, <1>4, <1>5, <1>6 DEF Typed

LEMMA DoesBridge ==
    ASSUME Typed, NEW c \in Caller, Bridge(c)
    PROVE  /\ Typed' /\ Only(c) /\ call[c].s \in Session /\ At(c, "bridge")
           /\ Slots' = Slots
           /\ UNCHANGED <<kind, row, transcript, box, lock, fails, used, adrift, pending>>
           /\ StartConsumer(call[c].s, TRUE)
           /\ \/ Back(c, {"arm", "reopened", "unhub"})
              \/ /\ Len(call[c].then) = 2 /\ call[c].then[2] = "unhub"
                 /\ call'[c].pc = "promote" /\ Len(call'[c].then) = 1
                 /\ call'[c].then[1] = "unhub"
                 /\ call'[c].s = call[c].s /\ call'[c].msg = call[c].msg
<1> DEFINE s == call[c].s
<1>1. /\ call[c] \in CallType /\ Shape(call[c]) /\ kind' = kind /\ s \in Session
      /\ At(c, "bridge")
      /\ Calls /\ World /\ call[c].then \in Seq(PCs) /\ call[c].slot \in BOOLEAN
  BY DEF Typed, Calls, CallType, Shape, World, At, Bridge, rest
<1>2. /\ UNCHANGED <<kind, row, transcript, box, lock, fails, used, adrift, pending>>
      /\ StartConsumer(call[c].s, TRUE)
  BY DEF Bridge, rest, world, history
<1>3. /\ Calls' /\ Only(c) /\ call'[c].slot = call[c].slot
      /\ \/ Back(c, {"arm", "reopened", "unhub"})
         \/ /\ Len(call[c].then) = 2 /\ call[c].then[2] = "unhub"
            /\ call'[c].pc = "promote" /\ Len(call'[c].then) = 1 /\ call'[c].then[1] = "unhub"
            /\ call'[c].s = call[c].s /\ call'[c].msg = call[c].msg
  <2>1. Return(c, TRUE)
    BY <1>1 DEF Bridge
  <2>2. call[c].pc # "idle" /\ ~call[c].slot /\ (TRUE) \in BOOLEAN
    BY <1>1 DEF Shape, At
  <2>3. Calls' /\ Only(c) /\ Popped(c) /\ ~call'[c].slot
    BY <1>1, <2>1, <2>2, Returns
  <2>4. call'[c].slot = call[c].slot
    BY <1>1, <2>2, <2>3 DEF Calls, CallType
  <2>5. QED
    BY <1>1, <2>3, <2>4 DEF Popped, Back, Idle, At, Shape, Fits
<1>4. World'
  BY <1>1, Started DEF World, At, CallType, Bridge, rest, world
<1>5. Slots' = Slots
  BY <1>3, SameSlots
<1>6. QED
  BY <1>1, <1>2, <1>3, <1>4, <1>5 DEF Typed

LEMMA DoesJoin ==
    ASSUME Typed, NEW c \in Caller, Join(c)
    PROVE  /\ Typed' /\ Only(c) /\ call[c].s \in Session /\ At(c, "join")
           /\ Slots' = Slots
           /\ UNCHANGED <<kind, row, transcript, box, lock, bridge, fails, used, adrift,
                          crossed, pending>>
           /\ bridge[c].pc = "none"
           /\ \/ /\ Len(call[c].then) = 1 /\ call[c].then[1] \in {"kill", "delrow"}
                 /\ call'[c].pc = call[c].then[1] /\ Len(call'[c].then) = 0
              \/ /\ Len(call[c].then) = 2 /\ call[c].then[1] = "kill" /\ call'[c].pc = "kill"
                 /\ call[c].then[2] \in {"delstop", "reopen", "endfailed"}
                 /\ Len(call'[c].then) = 1 /\ call'[c].then[1] = call[c].then[2]
           /\ call'[c].s = call[c].s /\ call'[c].msg = call[c].msg
<1> DEFINE s == call[c].s
<1>1. /\ call[c] \in CallType /\ Shape(call[c]) /\ kind' = kind /\ s \in Session
      /\ At(c, "join")
      /\ Calls /\ World /\ call[c].then \in Seq(PCs) /\ call[c].slot \in BOOLEAN
  BY DEF Typed, Calls, CallType, Shape, World, At, Join, rest
<1>2. /\ UNCHANGED <<kind, row, transcript, box, lock, bridge, fails, used, adrift, crossed,
                     pending>>
      /\ bridge[c].pc = "none"
  BY DEF Join, rest, world, history
<1>3. /\ Calls' /\ Only(c) /\ call'[c].slot = call[c].slot
      /\ \/ /\ Len(call[c].then) = 1 /\ call[c].then[1] \in {"kill", "delrow"}
            /\ call'[c].pc = call[c].then[1] /\ Len(call'[c].then) = 0
         \/ /\ Len(call[c].then) = 2 /\ call[c].then[1] = "kill" /\ call'[c].pc = "kill"
            /\ call[c].then[2] \in {"delstop", "reopen", "endfailed"}
            /\ Len(call'[c].then) = 1 /\ call'[c].then[1] = call[c].then[2]
      /\ call'[c].s = call[c].s /\ call'[c].msg = call[c].msg
  <2>1. Return(c, TRUE)
    BY <1>1 DEF Join
  <2>2. call[c].pc # "idle" /\ ~call[c].slot /\ (TRUE) \in BOOLEAN
    BY <1>1 DEF Shape, At
  <2>3. Calls' /\ Only(c) /\ Popped(c) /\ ~call'[c].slot
    BY <1>1, <2>1, <2>2, Returns
  <2>4. call'[c].slot = call[c].slot
    BY <1>1, <2>2, <2>3 DEF Calls, CallType
  <2>5. QED
    BY <1>1, <2>3, <2>4 DEF Popped, Back, Idle, At, Shape, Fits
<1>4. World'
  BY <1>1 DEF World, At, CallType, Join, rest, world
<1>5. Slots' = Slots
  BY <1>3, SameSlots
<1>6. QED
  BY <1>1, <1>2, <1>3, <1>4, <1>5 DEF Typed

LEMMA DoesEnd ==
    ASSUME Typed, NEW c \in Caller, End(c)
    PROVE  /\ Typed' /\ Only(c) /\ call[c].s \in Session /\ At(c, "end")
           /\ Due(c, {"delstop", "reopen", "endfailed"})
           /\ Slots' = Slots
           /\ UNCHANGED <<kind, row, transcript, box, lock, fails, used, adrift, crossed,
                          pending>>
           /\ \/ /\ ~Live(call[c].s)
                 /\ Back(c, {"delstop", "reopen", "endfailed"})
                 /\ bridge' = bridge
              \/ /\ Live(call[c].s)
                 /\ Pushed(c, "join", "kill")
                 /\ bridge' = [bridge EXCEPT ![call[c].s] = NoBridge, ![c] = bridge[call[c].s]]
<1> DEFINE s == call[c].s
<1>1. /\ call[c] \in CallType /\ Shape(call[c]) /\ kind' = kind /\ s \in Session
      /\ At(c, "end")
      /\ Calls /\ World /\ call[c].then \in Seq(PCs) /\ call[c].slot \in BOOLEAN
  BY DEF Typed, Calls, CallType, Shape, World, At, End, rest
<1>2. /\ UNCHANGED <<kind, row, transcript, box, lock, fails, used, adrift, crossed, pending>>
  BY DEF End, rest, world, history, StopConsumer
<1>3. Due(c, {"delstop", "reopen", "endfailed"})
  BY <1>1 DEF At, Due, Shape, Fits, OpenPCs, EndPCs, SendPCs
<1>4. /\ Calls' /\ Only(c) /\ call'[c].slot = call[c].slot
      /\ \/ /\ ~Live(call[c].s)
            /\ Back(c, {"delstop", "reopen", "endfailed"})
            /\ bridge' = bridge
         \/ /\ Live(call[c].s)
            /\ Pushed(c, "join", "kill")
            /\ bridge' = [bridge EXCEPT ![call[c].s] = NoBridge, ![c] = bridge[call[c].s]]
  <2>1. CASE ~Live(call[c].s)
    <3>1. Return(c, row[call[c].s] = "cold") /\ (bridge' = bridge)
      BY <1>1, <2>1 DEF End, Live, InFlight, At, StopConsumer
    <3>2. call[c].pc # "idle" /\ ~call[c].slot /\ (row[call[c].s] = "cold") \in BOOLEAN
      BY <1>1 DEF Shape, At
    <3>3. Calls' /\ Only(c) /\ Popped(c) /\ ~call'[c].slot
      BY <1>1, <3>1, <3>2, Returns
    <3>4. call'[c].slot = call[c].slot
      BY <1>1, <3>2, <3>3 DEF Calls, CallType
    <3>5. Back(c, {"delstop", "reopen", "endfailed"})
      BY <3>3, <1>3, PopBack
    <3>6. QED
      BY <1>1, <2>1, <3>1, <3>3, <3>4, <3>5
  <2>2. CASE Live(call[c].s)
    <3>1. Invoke(c, "join", "kill")
          /\ (bridge' = [bridge EXCEPT ![call[c].s] = NoBridge, ![c] = bridge[call[c].s]])
      BY <1>1, <2>2 DEF End, Live, InFlight, At, StopConsumer
    <3>2. /\ call[c].pc # "idle" /\ "join" \in PCs /\ "kill" \in PCs /\ ~call[c].slot
          /\ ~Reserves(s, "join")
      BY <1>1, <2>2 DEF At, Shape, Reserves, PCs, StatusPCs, HubPCs, FlightPCs
    <3>3. Fits("join", <<"kill">> \o call[c].then)
      BY <1>1, <3>2, PushFacts DEF At, Shape, Fits, OpenPCs, EndPCs, SendPCs
    <3>4. QED
      BY <1>1, <2>2, <3>1, <3>2, <3>3, Invokes
  <2>3. QED
    BY <1>1, <2>1, <2>2 DEF World, Live, At
<1>5. World'
  BY <1>1, Stopped DEF World, At, CallType, End, rest, world, StopConsumer
<1>6. Slots' = Slots
  BY <1>4, SameSlots
<1>7. QED
  BY <1>1, <1>2, <1>3, <1>4, <1>5, <1>6 DEF Typed

LEMMA DoesKill ==
    ASSUME Typed, NEW c \in Caller, Kill(c)
    PROVE  /\ Typed' /\ Only(c) /\ call[c].s \in Session /\ At(c, "kill")
           /\ Due(c, {"delstop", "reopen", "endfailed"})
           /\ Slots' = Slots
           /\ UNCHANGED <<kind, row, transcript, fails, crossed, pending>>
           /\ Free(call[c].s, "status")
           /\ Take(c, call[c].s, "status")
           /\ \/ BoxEnds(call[c].s) /\ adrift' = adrift /\ used' = used
              \/ /\ box' = box /\ bridge' = bridge /\ adrift' = adrift \cup {call[c].s}
                 /\ Spend("faults")
           /\ Went(c, "cold")
<1> DEFINE s == call[c].s
<1>1. /\ call[c] \in CallType /\ Shape(call[c]) /\ kind' = kind /\ s \in Session
      /\ At(c, "kill")
      /\ Calls /\ World /\ call[c].then \in Seq(PCs) /\ call[c].slot \in BOOLEAN
  BY DEF Typed, Calls, CallType, Shape, World, At, Kill, rest
<1>2. /\ UNCHANGED <<kind, row, transcript, fails, crossed, pending>>
      /\ Free(call[c].s, "status")
      /\ Take(c, call[c].s, "status")
      /\ \/ BoxEnds(call[c].s) /\ adrift' = adrift /\ used' = used
         \/ box' = box /\ bridge' = bridge /\ adrift' = adrift \cup {call[c].s} /\ Spend("faults")
  BY DEF Kill, rest, world, history
<1>3. Due(c, {"delstop", "reopen", "endfailed"})
  BY <1>1 DEF At, Due, Shape, Fits, OpenPCs, EndPCs, SendPCs
<1>4. /\ Calls' /\ Only(c) /\ call'[c].slot = call[c].slot
      /\ Went(c, "cold")
  <2>1. Goto(c, "cold")
    BY <1>1 DEF Kill
  <2>2. /\ call[c].pc # "idle" /\ "cold" \in PCs /\ Fits("cold", call[c].then)
        /\ call[c].slot <=> Reserves(s, "cold")
    BY <1>1 DEF At, Shape, Fits, Reserves, OpenPCs, EndPCs, SendPCs, PCs, StatusPCs, HubPCs,
       FlightPCs
  <2>3. QED
    BY <1>1, <2>1, <2>2, Goes
<1>5. World'
  BY <1>1, Taken, Ended, Spent DEF World, At, CallType, Kill, rest, world
<1>6. Slots' = Slots
  BY <1>4, SameSlots
<1>7. QED
  BY <1>1, <1>2, <1>3, <1>4, <1>5, <1>6 DEF Typed

LEMMA DoesCold ==
    ASSUME Typed, NEW c \in Caller, Cold(c)
    PROVE  /\ Typed' /\ Only(c) /\ call[c].s \in Session /\ At(c, "cold")
           /\ Due(c, {"delstop", "reopen", "endfailed"})
           /\ Slots' = Slots
           /\ UNCHANGED <<kind, transcript, box, bridge, fails, used, adrift, crossed, pending>>
           /\ row' = [row EXCEPT ![call[c].s] = IF @ = "absent" THEN @ ELSE "cold"]
           /\ Leave(call[c].s, "status")
           /\ \/ row[call[c].s] = "absent" /\ Back(c, {"delstop", "reopen", "endfailed"})
              \/ row[call[c].s] # "absent" /\ Went(c, "quieten")
<1> DEFINE s == call[c].s
<1>1. /\ call[c] \in CallType /\ Shape(call[c]) /\ kind' = kind /\ s \in Session
      /\ At(c, "cold")
      /\ Calls /\ World /\ call[c].then \in Seq(PCs) /\ call[c].slot \in BOOLEAN
  BY DEF Typed, Calls, CallType, Shape, World, At, Cold, rest
<1>2. /\ UNCHANGED <<kind, transcript, box, bridge, fails, used, adrift, crossed, pending>>
      /\ row' = [row EXCEPT ![call[c].s] = IF @ = "absent" THEN @ ELSE "cold"]
      /\ Leave(call[c].s, "status")
  BY DEF Cold, rest, world, history
<1>3. Due(c, {"delstop", "reopen", "endfailed"})
  BY <1>1 DEF At, Due, Shape, Fits, OpenPCs, EndPCs, SendPCs
<1>4. /\ Calls' /\ Only(c) /\ call'[c].slot = call[c].slot
      /\ \/ row[call[c].s] = "absent" /\ Back(c, {"delstop", "reopen", "endfailed"})
         \/ row[call[c].s] # "absent" /\ Went(c, "quieten")
  <2>1. CASE row[call[c].s] = "absent"
    <3>1. Return(c, FALSE)
      BY <1>1, <2>1 DEF Cold, Live, InFlight, At
    <3>2. call[c].pc # "idle" /\ ~call[c].slot /\ (FALSE) \in BOOLEAN
      BY <1>1 DEF Shape, At
    <3>3. Calls' /\ Only(c) /\ Popped(c) /\ ~call'[c].slot
      BY <1>1, <3>1, <3>2, Returns
    <3>4. call'[c].slot = call[c].slot
      BY <1>1, <3>2, <3>3 DEF Calls, CallType
    <3>5. Back(c, {"delstop", "reopen", "endfailed"})
      BY <3>3, <1>3, PopBack
    <3>6. QED
      BY <1>1, <2>1, <3>1, <3>3, <3>4, <3>5
  <2>2. CASE row[call[c].s] # "absent"
    <3>1. Goto(c, "quieten")
      BY <1>1, <2>2 DEF Cold, Live, InFlight, At
    <3>2. /\ call[c].pc # "idle" /\ "quieten" \in PCs /\ Fits("quieten", call[c].then)
          /\ call[c].slot <=> Reserves(s, "quieten")
      BY <1>1, <2>2 DEF At, Shape, Fits, Reserves, OpenPCs, EndPCs, SendPCs, PCs, StatusPCs,
         HubPCs, FlightPCs
    <3>3. QED
      BY <1>1, <2>2, <3>1, <3>2, Goes
  <2>3. QED
    BY <1>1, <2>1, <2>2 DEF World, Live, At
<1>5. World'
  BY <1>1, Left DEF World, At, CallType, Cold, rest, world
<1>6. Slots' = Slots
  BY <1>4, SameSlots
<1>7. QED
  BY <1>1, <1>2, <1>3, <1>4, <1>5, <1>6 DEF Typed

LEMMA DoesQuieten ==
    ASSUME Typed, NEW c \in Caller, Quieten(c)
    PROVE  /\ Typed' /\ Only(c) /\ call[c].s \in Session /\ At(c, "quieten")
           /\ Due(c, {"delstop", "reopen", "endfailed"})
           /\ Slots' = Slots
           /\ UNCHANGED <<kind, row, transcript, box, lock, bridge, fails, used, adrift,
                          crossed, pending>>
           /\ Back(c, {"delstop", "reopen", "endfailed"})
<1> DEFINE s == call[c].s
<1>1. /\ call[c] \in CallType /\ Shape(call[c]) /\ kind' = kind /\ s \in Session
      /\ At(c, "quieten")
      /\ Calls /\ World /\ call[c].then \in Seq(PCs) /\ call[c].slot \in BOOLEAN
  BY DEF Typed, Calls, CallType, Shape, World, At, Quieten, rest
<1>2. /\ UNCHANGED <<kind, row, transcript, box, lock, bridge, fails, used, adrift, crossed,
                     pending>>
  BY DEF Quieten, rest, world, history
<1>3. Due(c, {"delstop", "reopen", "endfailed"})
  BY <1>1 DEF At, Due, Shape, Fits, OpenPCs, EndPCs, SendPCs
<1>4. /\ Calls' /\ Only(c) /\ call'[c].slot = call[c].slot
      /\ Back(c, {"delstop", "reopen", "endfailed"})
  <2>1. Return(c, TRUE)
    BY <1>1 DEF Quieten
  <2>2. call[c].pc # "idle" /\ ~call[c].slot /\ (TRUE) \in BOOLEAN
    BY <1>1 DEF Shape, At
  <2>3. Calls' /\ Only(c) /\ Popped(c) /\ ~call'[c].slot
    BY <1>1, <2>1, <2>2, Returns
  <2>4. call'[c].slot = call[c].slot
    BY <1>1, <2>2, <2>3 DEF Calls, CallType
  <2>5. Back(c, {"delstop", "reopen", "endfailed"})
    BY <2>3, <1>3, PopBack
  <2>6. QED
    BY <1>1, <2>1, <2>3, <2>4, <2>5
<1>5. World'
  BY <1>1 DEF World, At, CallType, Quieten, rest, world
<1>6. Slots' = Slots
  BY <1>4, SameSlots
<1>7. QED
  BY <1>1, <1>2, <1>3, <1>4, <1>5, <1>6 DEF Typed

LEMMA DoesDelete ==
    ASSUME Typed, NEW c \in Caller, Delete(c)
    PROVE  /\ Typed' /\ Only(c) /\ call[c].s \in Session /\ At(c, "delete")
           /\ Due(c, {})
           /\ Slots' = Slots
           /\ UNCHANGED <<kind, row, transcript, box, lock, bridge, fails, used, adrift,
                          crossed, pending>>
           /\ \/ row[call[c].s] = "absent" /\ Back(c, {})
              \/ row[call[c].s] = "cold" /\ Went(c, "delstop")
              \/ Live(call[c].s) /\ Pushed(c, "end", "delstop")
<1> DEFINE s == call[c].s
<1>1. /\ call[c] \in CallType /\ Shape(call[c]) /\ kind' = kind /\ s \in Session
      /\ At(c, "delete")
      /\ Calls /\ World /\ call[c].then \in Seq(PCs) /\ call[c].slot \in BOOLEAN
  BY DEF Typed, Calls, CallType, Shape, World, At, Delete, rest
<1>2. /\ UNCHANGED <<kind, row, transcript, box, lock, bridge, fails, used, adrift, crossed,
                     pending>>
  BY DEF Delete, rest, world, history
<1>3. Due(c, {})
  BY <1>1 DEF At, Due, Shape, Fits, OpenPCs, EndPCs, SendPCs
<1>4. /\ Calls' /\ Only(c) /\ call'[c].slot = call[c].slot
      /\ \/ row[call[c].s] = "absent" /\ Back(c, {})
         \/ row[call[c].s] = "cold" /\ Went(c, "delstop")
         \/ Live(call[c].s) /\ Pushed(c, "end", "delstop")
  <2>1. CASE row[call[c].s] = "absent"
    <3>1. Return(c, FALSE)
      BY <1>1, <2>1 DEF Delete, Live, InFlight, At
    <3>2. call[c].pc # "idle" /\ ~call[c].slot /\ (FALSE) \in BOOLEAN
      BY <1>1 DEF Shape, At
    <3>3. Calls' /\ Only(c) /\ Popped(c) /\ ~call'[c].slot
      BY <1>1, <3>1, <3>2, Returns
    <3>4. call'[c].slot = call[c].slot
      BY <1>1, <3>2, <3>3 DEF Calls, CallType
    <3>5. Back(c, {})
      BY <3>3, <1>3, PopBack
    <3>6. QED
      BY <1>1, <2>1, <3>1, <3>3, <3>4, <3>5
  <2>2. CASE row[call[c].s] = "cold"
    <3>1. Goto(c, "delstop")
      BY <1>1, <2>2 DEF Delete, Live, InFlight, At
    <3>2. /\ call[c].pc # "idle" /\ "delstop" \in PCs /\ Fits("delstop", call[c].then)
          /\ call[c].slot <=> Reserves(s, "delstop")
      BY <1>1, <2>2 DEF At, Shape, Fits, Reserves, OpenPCs, EndPCs, SendPCs, PCs, StatusPCs,
         HubPCs, FlightPCs
    <3>3. QED
      BY <1>1, <2>2, <3>1, <3>2, Goes
  <2>3. CASE Live(call[c].s)
    <3>1. Invoke(c, "end", "delstop")
      BY <1>1, <2>3 DEF Delete, Live, InFlight, At
    <3>2. /\ call[c].pc # "idle" /\ "end" \in PCs /\ "delstop" \in PCs /\ ~call[c].slot
          /\ ~Reserves(s, "end")
      BY <1>1, <2>3 DEF At, Shape, Reserves, PCs, StatusPCs, HubPCs, FlightPCs
    <3>3. Fits("end", <<"delstop">> \o call[c].then)
      BY <1>1, <3>2, PushFacts DEF At, Shape, Fits, OpenPCs, EndPCs, SendPCs
    <3>4. QED
      BY <1>1, <2>3, <3>1, <3>2, <3>3, Invokes
  <2>4. QED
    BY <1>1, <2>1, <2>2, <2>3 DEF World, Live, At
<1>5. World'
  BY <1>1 DEF World, At, CallType, Delete, rest, world
<1>6. Slots' = Slots
  BY <1>4, SameSlots
<1>7. QED
  BY <1>1, <1>2, <1>3, <1>4, <1>5, <1>6 DEF Typed

LEMMA DoesDeleteStop ==
    ASSUME Typed, NEW c \in Caller, DeleteStop(c)
    PROVE  /\ Typed' /\ Only(c) /\ call[c].s \in Session /\ At(c, "delstop")
           /\ Due(c, {})
           /\ Slots' = Slots
           /\ UNCHANGED <<kind, row, transcript, box, lock, fails, used, adrift, crossed,
                          pending>>
           /\ bridge' = [bridge EXCEPT ![call[c].s] = NoBridge, ![c] = bridge[call[c].s]]
           /\ Pushed(c, "join", "delrow")
<1> DEFINE s == call[c].s
<1>1. /\ call[c] \in CallType /\ Shape(call[c]) /\ kind' = kind /\ s \in Session
      /\ At(c, "delstop")
      /\ Calls /\ World /\ call[c].then \in Seq(PCs) /\ call[c].slot \in BOOLEAN
  BY DEF Typed, Calls, CallType, Shape, World, At, DeleteStop, rest
<1>2. /\ UNCHANGED <<kind, row, transcript, box, lock, fails, used, adrift, crossed, pending>>
      /\ bridge' = [bridge EXCEPT ![call[c].s] = NoBridge, ![c] = bridge[call[c].s]]
  BY DEF DeleteStop, rest, world, history, StopConsumer
<1>3. Due(c, {})
  BY <1>1 DEF At, Due, Shape, Fits, OpenPCs, EndPCs, SendPCs
<1>4. /\ Calls' /\ Only(c) /\ call'[c].slot = call[c].slot
      /\ Pushed(c, "join", "delrow")
  <2>1. Invoke(c, "join", "delrow")
    BY <1>1 DEF DeleteStop, StopConsumer
  <2>2. /\ call[c].pc # "idle" /\ "join" \in PCs /\ "delrow" \in PCs /\ ~call[c].slot
        /\ ~Reserves(s, "join")
    BY <1>1 DEF At, Shape, Reserves, PCs, StatusPCs, HubPCs, FlightPCs
  <2>3. Fits("join", <<"delrow">> \o call[c].then)
    BY <1>1, <2>2, PushFacts DEF At, Shape, Fits, OpenPCs, EndPCs, SendPCs
  <2>4. QED
    BY <1>1, <2>1, <2>2, <2>3, Invokes
<1>5. World'
  BY <1>1, Stopped DEF World, At, CallType, DeleteStop, rest, world, StopConsumer
<1>6. Slots' = Slots
  BY <1>4, SameSlots
<1>7. QED
  BY <1>1, <1>2, <1>3, <1>4, <1>5, <1>6 DEF Typed

LEMMA DoesDeleteRow ==
    ASSUME Typed, NEW c \in Caller, DeleteRow(c)
    PROVE  /\ Typed' /\ Only(c) /\ call[c].s \in Session /\ At(c, "delrow")
           /\ Due(c, {})
           /\ Slots' = Slots
           /\ UNCHANGED <<kind, box, lock, bridge, fails, used, crossed, pending>>
           /\ row' = [row EXCEPT ![call[c].s] = "absent"]
           /\ transcript' = [transcript EXCEPT ![call[c].s] = <<>>]
           /\ adrift' = IF Live(call[c].s) THEN adrift \cup {call[c].s} ELSE adrift
           /\ \/ row[call[c].s] = "absent" /\ Back(c, {})
              \/ row[call[c].s] # "absent" /\ Went(c, "drop")
<1> DEFINE s == call[c].s
<1>1. /\ call[c] \in CallType /\ Shape(call[c]) /\ kind' = kind /\ s \in Session
      /\ At(c, "delrow")
      /\ Calls /\ World /\ call[c].then \in Seq(PCs) /\ call[c].slot \in BOOLEAN
  BY DEF Typed, Calls, CallType, Shape, World, At, DeleteRow, rest
<1>2. /\ UNCHANGED <<kind, box, lock, bridge, fails, used, crossed, pending>>
      /\ row' = [row EXCEPT ![call[c].s] = "absent"]
      /\ transcript' = [transcript EXCEPT ![call[c].s] = <<>>]
      /\ adrift' = IF Live(call[c].s) THEN adrift \cup {call[c].s} ELSE adrift
  BY DEF DeleteRow, rest, world, history
<1>3. Due(c, {})
  BY <1>1 DEF At, Due, Shape, Fits, OpenPCs, EndPCs, SendPCs
<1>4. /\ Calls' /\ Only(c) /\ call'[c].slot = call[c].slot
      /\ \/ row[call[c].s] = "absent" /\ Back(c, {})
         \/ row[call[c].s] # "absent" /\ Went(c, "drop")
  <2>1. CASE row[call[c].s] = "absent"
    <3>1. Return(c, FALSE)
      BY <1>1, <2>1 DEF DeleteRow, Live, InFlight, At
    <3>2. call[c].pc # "idle" /\ ~call[c].slot /\ (FALSE) \in BOOLEAN
      BY <1>1 DEF Shape, At
    <3>3. Calls' /\ Only(c) /\ Popped(c) /\ ~call'[c].slot
      BY <1>1, <3>1, <3>2, Returns
    <3>4. call'[c].slot = call[c].slot
      BY <1>1, <3>2, <3>3 DEF Calls, CallType
    <3>5. Back(c, {})
      BY <3>3, <1>3, PopBack
    <3>6. QED
      BY <1>1, <2>1, <3>1, <3>3, <3>4, <3>5
  <2>2. CASE row[call[c].s] # "absent"
    <3>1. Goto(c, "drop")
      BY <1>1, <2>2 DEF DeleteRow, Live, InFlight, At
    <3>2. /\ call[c].pc # "idle" /\ "drop" \in PCs /\ Fits("drop", call[c].then)
          /\ call[c].slot <=> Reserves(s, "drop")
      BY <1>1, <2>2 DEF At, Shape, Fits, Reserves, OpenPCs, EndPCs, SendPCs, PCs, StatusPCs,
         HubPCs, FlightPCs
    <3>3. QED
      BY <1>1, <2>2, <3>1, <3>2, Goes
  <2>3. QED
    BY <1>1, <2>1, <2>2 DEF World, Live, At
<1>5. World'
  BY <1>1 DEF World, At, CallType, DeleteRow, rest, world
<1>6. Slots' = Slots
  BY <1>4, SameSlots
<1>7. QED
  BY <1>1, <1>2, <1>3, <1>4, <1>5, <1>6 DEF Typed

LEMMA DoesDrop ==
    ASSUME Typed, NEW c \in Caller, Drop(c)
    PROVE  /\ Typed' /\ Only(c) /\ call[c].s \in Session /\ At(c, "drop")
           /\ Due(c, {})
           /\ Slots' = Slots
           /\ UNCHANGED <<kind, row, transcript, box, lock, bridge, used, adrift, crossed,
                          pending>>
           /\ Back(c, {})
<1> DEFINE s == call[c].s
<1>1. /\ call[c] \in CallType /\ Shape(call[c]) /\ kind' = kind /\ s \in Session
      /\ At(c, "drop")
      /\ Calls /\ World /\ call[c].then \in Seq(PCs) /\ call[c].slot \in BOOLEAN
  BY DEF Typed, Calls, CallType, Shape, World, At, Drop, rest
<1>2. /\ UNCHANGED <<kind, row, transcript, box, lock, bridge, used, adrift, crossed, pending>>
  BY DEF Drop, rest, world, history
<1>3. Due(c, {})
  BY <1>1 DEF At, Due, Shape, Fits, OpenPCs, EndPCs, SendPCs
<1>4. /\ Calls' /\ Only(c) /\ call'[c].slot = call[c].slot
      /\ Back(c, {})
  <2>1. Return(c, TRUE)
    BY <1>1 DEF Drop
  <2>2. call[c].pc # "idle" /\ ~call[c].slot /\ (TRUE) \in BOOLEAN
    BY <1>1 DEF Shape, At
  <2>3. Calls' /\ Only(c) /\ Popped(c) /\ ~call'[c].slot
    BY <1>1, <2>1, <2>2, Returns
  <2>4. call'[c].slot = call[c].slot
    BY <1>1, <2>2, <2>3 DEF Calls, CallType
  <2>5. Back(c, {})
    BY <2>3, <1>3, PopBack
  <2>6. QED
    BY <1>1, <2>1, <2>3, <2>4, <2>5
<1>5. World'
  BY <1>1, ChatAssumption DEF World, At, CallType, Drop, rest, world
<1>6. Slots' = Slots
  BY <1>4, SameSlots
<1>7. QED
  BY <1>1, <1>2, <1>3, <1>4, <1>5, <1>6 DEF Typed

LEMMA DoesSubscribe ==
    ASSUME Typed, NEW c \in Caller, Subscribe(c)
    PROVE  /\ Typed' /\ Only(c) /\ call[c].s \in Session /\ At(c, "subscribe")
           /\ Due(c, {})
           /\ Slots' = Slots
           /\ UNCHANGED <<kind, row, transcript, box, bridge, fails, used, adrift, crossed,
                          pending>>
           /\ Free(call[c].s, "hub")
           /\ Take(c, call[c].s, "hub")
           /\ Pushed(c, "attach", "unhub")
<1> DEFINE s == call[c].s
<1>1. /\ call[c] \in CallType /\ Shape(call[c]) /\ kind' = kind /\ s \in Session
      /\ At(c, "subscribe")
      /\ Calls /\ World /\ call[c].then \in Seq(PCs) /\ call[c].slot \in BOOLEAN
  BY DEF Typed, Calls, CallType, Shape, World, At, Subscribe, rest
<1>2. /\ UNCHANGED <<kind, row, transcript, box, bridge, fails, used, adrift, crossed, pending>>
      /\ Free(call[c].s, "hub")
      /\ Take(c, call[c].s, "hub")
  BY DEF Subscribe, rest, world, history
<1>3. Due(c, {})
  BY <1>1 DEF At, Due, Shape, Fits, OpenPCs, EndPCs, SendPCs
<1>4. /\ Calls' /\ Only(c) /\ call'[c].slot = call[c].slot
      /\ Pushed(c, "attach", "unhub")
  <2>1. Invoke(c, "attach", "unhub")
    BY <1>1 DEF Subscribe
  <2>2. /\ call[c].pc # "idle" /\ "attach" \in PCs /\ "unhub" \in PCs /\ ~call[c].slot
        /\ ~Reserves(s, "attach")
    BY <1>1 DEF At, Shape, Reserves, PCs, StatusPCs, HubPCs, FlightPCs
  <2>3. Fits("attach", <<"unhub">> \o call[c].then)
    BY <1>1, <2>2, PushFacts DEF At, Shape, Fits, OpenPCs, EndPCs, SendPCs
  <2>4. QED
    BY <1>1, <2>1, <2>2, <2>3, Invokes
<1>5. World'
  BY <1>1, Taken DEF World, At, CallType, Subscribe, rest, world
<1>6. Slots' = Slots
  BY <1>4, SameSlots
<1>7. QED
  BY <1>1, <1>2, <1>3, <1>4, <1>5, <1>6 DEF Typed

LEMMA DoesAttach ==
    ASSUME Typed, NEW c \in Caller, Attach(c)
    PROVE  /\ Typed' /\ Only(c) /\ call[c].s \in Session /\ At(c, "attach")
           /\ Due(c, {"unhub"})
           /\ Slots' = Slots
           /\ UNCHANGED <<kind, row, transcript, box, lock, bridge, fails, used, adrift,
                          crossed, pending>>
           /\ \/ Live(call[c].s) /\ Went(c, "reread")
              \/ ~Live(call[c].s) /\ Back(c, {"unhub"})
<1> DEFINE s == call[c].s
<1>1. /\ call[c] \in CallType /\ Shape(call[c]) /\ kind' = kind /\ s \in Session
      /\ At(c, "attach")
      /\ Calls /\ World /\ call[c].then \in Seq(PCs) /\ call[c].slot \in BOOLEAN
  BY DEF Typed, Calls, CallType, Shape, World, At, Attach, rest
<1>2. /\ UNCHANGED <<kind, row, transcript, box, lock, bridge, fails, used, adrift, crossed,
                     pending>>
  BY DEF Attach, rest, world, history
<1>3. Due(c, {"unhub"})
  BY <1>1 DEF At, Due, Shape, Fits, OpenPCs, EndPCs, SendPCs
<1>4. /\ Calls' /\ Only(c) /\ call'[c].slot = call[c].slot
      /\ \/ Live(call[c].s) /\ Went(c, "reread")
         \/ ~Live(call[c].s) /\ Back(c, {"unhub"})
  <2>1. CASE Live(call[c].s)
    <3>1. Goto(c, "reread")
      BY <1>1, <2>1 DEF Attach, Live, InFlight, At
    <3>2. /\ call[c].pc # "idle" /\ "reread" \in PCs /\ Fits("reread", call[c].then)
          /\ call[c].slot <=> Reserves(s, "reread")
      BY <1>1, <2>1 DEF At, Shape, Fits, Reserves, OpenPCs, EndPCs, SendPCs, PCs, StatusPCs,
         HubPCs, FlightPCs
    <3>3. QED
      BY <1>1, <2>1, <3>1, <3>2, Goes
  <2>2. CASE ~Live(call[c].s)
    <3>1. Return(c, TRUE)
      BY <1>1, <2>2 DEF Attach, Live, InFlight, At
    <3>2. call[c].pc # "idle" /\ ~call[c].slot /\ (TRUE) \in BOOLEAN
      BY <1>1 DEF Shape, At
    <3>3. Calls' /\ Only(c) /\ Popped(c) /\ ~call'[c].slot
      BY <1>1, <3>1, <3>2, Returns
    <3>4. call'[c].slot = call[c].slot
      BY <1>1, <3>2, <3>3 DEF Calls, CallType
    <3>5. Back(c, {"unhub"})
      BY <3>3, <1>3, PopBack
    <3>6. QED
      BY <1>1, <2>2, <3>1, <3>3, <3>4, <3>5
  <2>3. QED
    BY <1>1, <2>1, <2>2 DEF World, Live, At
<1>5. World'
  BY <1>1 DEF World, At, CallType, Attach, rest, world
<1>6. Slots' = Slots
  BY <1>4, SameSlots
<1>7. QED
  BY <1>1, <1>2, <1>3, <1>4, <1>5, <1>6 DEF Typed

LEMMA DoesReread ==
    ASSUME Typed, NEW c \in Caller, Reread(c)
    PROVE  /\ Typed' /\ Only(c) /\ call[c].s \in Session /\ At(c, "reread")
           /\ Due(c, {"unhub"})
           /\ Slots' = Slots
           /\ UNCHANGED <<kind, row, transcript, box, lock, bridge, fails, used, adrift,
                          crossed, pending>>
           /\ Free(call[c].s, "status")
           /\ \/ row[call[c].s] = "active" /\ Went(c, "bridge")
              \/ row[call[c].s] = "warm" /\ Pushed(c, "bridge", "promote")
              \/ ~Live(call[c].s) /\ Back(c, {"unhub"})
<1> DEFINE s == call[c].s
<1>1. /\ call[c] \in CallType /\ Shape(call[c]) /\ kind' = kind /\ s \in Session
      /\ At(c, "reread")
      /\ Calls /\ World /\ call[c].then \in Seq(PCs) /\ call[c].slot \in BOOLEAN
  BY DEF Typed, Calls, CallType, Shape, World, At, Reread, rest
<1>2. /\ UNCHANGED <<kind, row, transcript, box, lock, bridge, fails, used, adrift, crossed,
                     pending>>
      /\ Free(call[c].s, "status")
  BY DEF Reread, rest, world, history
<1>3. Due(c, {"unhub"})
  BY <1>1 DEF At, Due, Shape, Fits, OpenPCs, EndPCs, SendPCs
<1>4. /\ Calls' /\ Only(c) /\ call'[c].slot = call[c].slot
      /\ \/ row[call[c].s] = "active" /\ Went(c, "bridge")
         \/ row[call[c].s] = "warm" /\ Pushed(c, "bridge", "promote")
         \/ ~Live(call[c].s) /\ Back(c, {"unhub"})
  <2>1. CASE row[call[c].s] = "active"
    <3>1. Goto(c, "bridge")
      BY <1>1, <2>1 DEF Reread, Live, InFlight, At
    <3>2. /\ call[c].pc # "idle" /\ "bridge" \in PCs /\ Fits("bridge", call[c].then)
          /\ call[c].slot <=> Reserves(s, "bridge")
      BY <1>1, <2>1 DEF At, Shape, Fits, Reserves, OpenPCs, EndPCs, SendPCs, PCs, StatusPCs,
         HubPCs, FlightPCs
    <3>3. QED
      BY <1>1, <2>1, <3>1, <3>2, Goes
  <2>2. CASE row[call[c].s] = "warm"
    <3>1. Invoke(c, "bridge", "promote")
      BY <1>1, <2>2 DEF Reread, Live, InFlight, At
    <3>2. /\ call[c].pc # "idle" /\ "bridge" \in PCs /\ "promote" \in PCs /\ ~call[c].slot
          /\ ~Reserves(s, "bridge")
      BY <1>1, <2>2 DEF At, Shape, Reserves, PCs, StatusPCs, HubPCs, FlightPCs
    <3>3. Fits("bridge", <<"promote">> \o call[c].then)
      BY <1>1, <3>2, PushFacts DEF At, Shape, Fits, OpenPCs, EndPCs, SendPCs
    <3>4. QED
      BY <1>1, <2>2, <3>1, <3>2, <3>3, Invokes
  <2>3. CASE ~Live(call[c].s)
    <3>1. Return(c, TRUE)
      BY <1>1, <2>3 DEF Reread, Live, InFlight, At
    <3>2. call[c].pc # "idle" /\ ~call[c].slot /\ (TRUE) \in BOOLEAN
      BY <1>1 DEF Shape, At
    <3>3. Calls' /\ Only(c) /\ Popped(c) /\ ~call'[c].slot
      BY <1>1, <3>1, <3>2, Returns
    <3>4. call'[c].slot = call[c].slot
      BY <1>1, <3>2, <3>3 DEF Calls, CallType
    <3>5. Back(c, {"unhub"})
      BY <3>3, <1>3, PopBack
    <3>6. QED
      BY <1>1, <2>3, <3>1, <3>3, <3>4, <3>5
  <2>4. QED
    BY <1>1, <2>1, <2>2, <2>3 DEF World, Live, At
<1>5. World'
  BY <1>1 DEF World, At, CallType, Reread, rest, world
<1>6. Slots' = Slots
  BY <1>4, SameSlots
<1>7. QED
  BY <1>1, <1>2, <1>3, <1>4, <1>5, <1>6 DEF Typed

LEMMA DoesPromote ==
    ASSUME Typed, NEW c \in Caller, Promote(c)
    PROVE  /\ Typed' /\ Only(c) /\ call[c].s \in Session /\ At(c, "promote")
           /\ Due(c, {"unhub", "arm"})
           /\ Slots' = Slots
           /\ UNCHANGED <<kind, transcript, box, lock, bridge, fails, used, adrift, crossed,
                          pending>>
           /\ row' = [row EXCEPT ![call[c].s] = IF @ = "warm" THEN "active" ELSE @]
           /\ Back(c, {"unhub", "arm"})
<1> DEFINE s == call[c].s
<1>1. /\ call[c] \in CallType /\ Shape(call[c]) /\ kind' = kind /\ s \in Session
      /\ At(c, "promote")
      /\ Calls /\ World /\ call[c].then \in Seq(PCs) /\ call[c].slot \in BOOLEAN
  BY DEF Typed, Calls, CallType, Shape, World, At, Promote, rest
<1>2. /\ UNCHANGED <<kind, transcript, box, lock, bridge, fails, used, adrift, crossed, pending>>
      /\ row' = [row EXCEPT ![call[c].s] = IF @ = "warm" THEN "active" ELSE @]
  BY DEF Promote, rest, world, history
<1>3. Due(c, {"unhub", "arm"})
  BY <1>1 DEF At, Due, Shape, Fits, OpenPCs, EndPCs, SendPCs
<1>4. /\ Calls' /\ Only(c) /\ call'[c].slot = call[c].slot
      /\ Back(c, {"unhub", "arm"})
  <2>1. Return(c, TRUE)
    BY <1>1 DEF Promote
  <2>2. call[c].pc # "idle" /\ ~call[c].slot /\ (TRUE) \in BOOLEAN
    BY <1>1 DEF Shape, At
  <2>3. Calls' /\ Only(c) /\ Popped(c) /\ ~call'[c].slot
    BY <1>1, <2>1, <2>2, Returns
  <2>4. call'[c].slot = call[c].slot
    BY <1>1, <2>2, <2>3 DEF Calls, CallType
  <2>5. Back(c, {"unhub", "arm"})
    BY <2>3, <1>3, PopBack
  <2>6. QED
    BY <1>1, <2>1, <2>3, <2>4, <2>5
<1>5. World'
  BY <1>1 DEF World, At, CallType, Promote, rest, world
<1>6. Slots' = Slots
  BY <1>4, SameSlots
<1>7. QED
  BY <1>1, <1>2, <1>3, <1>4, <1>5, <1>6 DEF Typed

LEMMA DoesUnhub ==
    ASSUME Typed, NEW c \in Caller, Unhub(c)
    PROVE  /\ Typed' /\ Only(c) /\ call[c].s \in Session /\ At(c, "unhub")
           /\ Due(c, {})
           /\ Slots' = Slots
           /\ UNCHANGED <<kind, row, transcript, box, bridge, fails, used, adrift, crossed,
                          pending>>
           /\ Leave(call[c].s, "hub")
           /\ Back(c, {})
<1> DEFINE s == call[c].s
<1>1. /\ call[c] \in CallType /\ Shape(call[c]) /\ kind' = kind /\ s \in Session
      /\ At(c, "unhub")
      /\ Calls /\ World /\ call[c].then \in Seq(PCs) /\ call[c].slot \in BOOLEAN
  BY DEF Typed, Calls, CallType, Shape, World, At, Unhub, rest
<1>2. /\ UNCHANGED <<kind, row, transcript, box, bridge, fails, used, adrift, crossed, pending>>
      /\ Leave(call[c].s, "hub")
  BY DEF Unhub, rest, world, history
<1>3. Due(c, {})
  BY <1>1 DEF At, Due, Shape, Fits, OpenPCs, EndPCs, SendPCs
<1>4. /\ Calls' /\ Only(c) /\ call'[c].slot = call[c].slot
      /\ Back(c, {})
  <2>1. Return(c, TRUE)
    BY <1>1 DEF Unhub
  <2>2. call[c].pc # "idle" /\ ~call[c].slot /\ (TRUE) \in BOOLEAN
    BY <1>1 DEF Shape, At
  <2>3. Calls' /\ Only(c) /\ Popped(c) /\ ~call'[c].slot
    BY <1>1, <2>1, <2>2, Returns
  <2>4. call'[c].slot = call[c].slot
    BY <1>1, <2>2, <2>3 DEF Calls, CallType
  <2>5. Back(c, {})
    BY <2>3, <1>3, PopBack
  <2>6. QED
    BY <1>1, <2>1, <2>3, <2>4, <2>5
<1>5. World'
  BY <1>1, Left DEF World, At, CallType, Unhub, rest, world
<1>6. Slots' = Slots
  BY <1>4, SameSlots
<1>7. QED
  BY <1>1, <1>2, <1>3, <1>4, <1>5, <1>6 DEF Typed

LEMMA DoesSend ==
    ASSUME Typed, NEW c \in Caller, Send(c)
    PROVE  /\ Typed' /\ Only(c) /\ call[c].s \in Session /\ At(c, "send")
           /\ Due(c, {})
           /\ Slots' = Slots
           /\ UNCHANGED <<kind, row, transcript, box, lock, bridge, fails, used, adrift,
                          crossed, pending>>
           /\ \/ row[call[c].s] = "absent" /\ Back(c, {})
              \/ row[call[c].s] = "active" /\ Went(c, "arm")
              \/ row[call[c].s] = "warm" /\ Pushed(c, "promote", "arm")
              \/ row[call[c].s] = "cold" /\ Pushed(c, "open", "arm")
<1> DEFINE s == call[c].s
<1>1. /\ call[c] \in CallType /\ Shape(call[c]) /\ kind' = kind /\ s \in Session
      /\ At(c, "send")
      /\ Calls /\ World /\ call[c].then \in Seq(PCs) /\ call[c].slot \in BOOLEAN
  BY DEF Typed, Calls, CallType, Shape, World, At, Send, rest
<1>2. /\ UNCHANGED <<kind, row, transcript, box, lock, bridge, fails, used, adrift, crossed,
                     pending>>
  BY DEF Send, rest, world, history
<1>3. Due(c, {})
  BY <1>1 DEF At, Due, Shape, Fits, OpenPCs, EndPCs, SendPCs
<1>4. /\ Calls' /\ Only(c) /\ call'[c].slot = call[c].slot
      /\ \/ row[call[c].s] = "absent" /\ Back(c, {})
         \/ row[call[c].s] = "active" /\ Went(c, "arm")
         \/ row[call[c].s] = "warm" /\ Pushed(c, "promote", "arm")
         \/ row[call[c].s] = "cold" /\ Pushed(c, "open", "arm")
  <2>1. CASE row[call[c].s] = "absent"
    <3>1. Return(c, FALSE)
      BY <1>1, <2>1 DEF Send, Live, InFlight, At
    <3>2. call[c].pc # "idle" /\ ~call[c].slot /\ (FALSE) \in BOOLEAN
      BY <1>1 DEF Shape, At
    <3>3. Calls' /\ Only(c) /\ Popped(c) /\ ~call'[c].slot
      BY <1>1, <3>1, <3>2, Returns
    <3>4. call'[c].slot = call[c].slot
      BY <1>1, <3>2, <3>3 DEF Calls, CallType
    <3>5. Back(c, {})
      BY <3>3, <1>3, PopBack
    <3>6. QED
      BY <1>1, <2>1, <3>1, <3>3, <3>4, <3>5
  <2>2. CASE row[call[c].s] = "active"
    <3>1. Goto(c, "arm")
      BY <1>1, <2>2 DEF Send, Live, InFlight, At
    <3>2. /\ call[c].pc # "idle" /\ "arm" \in PCs /\ Fits("arm", call[c].then)
          /\ call[c].slot <=> Reserves(s, "arm")
      BY <1>1, <2>2 DEF At, Shape, Fits, Reserves, OpenPCs, EndPCs, SendPCs, PCs, StatusPCs,
         HubPCs, FlightPCs
    <3>3. QED
      BY <1>1, <2>2, <3>1, <3>2, Goes
  <2>3. CASE row[call[c].s] = "warm"
    <3>1. Invoke(c, "promote", "arm")
      BY <1>1, <2>3 DEF Send, Live, InFlight, At
    <3>2. /\ call[c].pc # "idle" /\ "promote" \in PCs /\ "arm" \in PCs /\ ~call[c].slot
          /\ ~Reserves(s, "promote")
      BY <1>1, <2>3 DEF At, Shape, Reserves, PCs, StatusPCs, HubPCs, FlightPCs
    <3>3. Fits("promote", <<"arm">> \o call[c].then)
      BY <1>1, <3>2, PushFacts DEF At, Shape, Fits, OpenPCs, EndPCs, SendPCs
    <3>4. QED
      BY <1>1, <2>3, <3>1, <3>2, <3>3, Invokes
  <2>4. CASE row[call[c].s] = "cold"
    <3>1. Invoke(c, "open", "arm")
      BY <1>1, <2>4 DEF Send, Live, InFlight, At
    <3>2. /\ call[c].pc # "idle" /\ "open" \in PCs /\ "arm" \in PCs /\ ~call[c].slot
          /\ ~Reserves(s, "open")
      BY <1>1, <2>4 DEF At, Shape, Reserves, PCs, StatusPCs, HubPCs, FlightPCs
    <3>3. Fits("open", <<"arm">> \o call[c].then)
      BY <1>1, <3>2, PushFacts DEF At, Shape, Fits, OpenPCs, EndPCs, SendPCs
    <3>4. QED
      BY <1>1, <2>4, <3>1, <3>2, <3>3, Invokes
  <2>5. QED
    BY <1>1, <2>1, <2>2, <2>3, <2>4 DEF World, Live, At
<1>5. World'
  BY <1>1 DEF World, At, CallType, Send, rest, world
<1>6. Slots' = Slots
  BY <1>4, SameSlots
<1>7. QED
  BY <1>1, <1>2, <1>3, <1>4, <1>5, <1>6 DEF Typed

LEMMA DoesArm ==
    ASSUME Typed, NEW c \in Caller, Arm(c)
    PROVE  /\ Typed' /\ Only(c) /\ call[c].s \in Session /\ At(c, "arm")
           /\ Due(c, {})
           /\ Slots' = Slots
           /\ UNCHANGED <<kind, row, transcript, box, bridge, fails, used, adrift, crossed,
                          pending>>
           /\ \/ ~call[c].ok /\ Back(c, {}) /\ lock' = lock
              \/ /\ call[c].ok
                 /\ Went(c, "post")
                 /\ IF Chat(call[c].s) THEN lock' = lock
                    ELSE Free(call[c].s, "transcript") /\ Take(c, call[c].s, "transcript")
<1> DEFINE s == call[c].s
<1>1. /\ call[c] \in CallType /\ Shape(call[c]) /\ kind' = kind /\ s \in Session
      /\ At(c, "arm")
      /\ Calls /\ World /\ call[c].then \in Seq(PCs) /\ call[c].slot \in BOOLEAN
  BY DEF Typed, Calls, CallType, Shape, World, At, Arm, rest
<1>2. /\ UNCHANGED <<kind, row, transcript, box, bridge, fails, used, adrift, crossed, pending>>
  BY DEF Arm, rest, world, history
<1>3. Due(c, {})
  BY <1>1 DEF At, Due, Shape, Fits, OpenPCs, EndPCs, SendPCs
<1>4. /\ Calls' /\ Only(c) /\ call'[c].slot = call[c].slot
      /\ \/ ~call[c].ok /\ Back(c, {}) /\ lock' = lock
         \/ /\ call[c].ok
            /\ Went(c, "post")
            /\ IF Chat(call[c].s) THEN lock' = lock
               ELSE Free(call[c].s, "transcript") /\ Take(c, call[c].s, "transcript")
  <2>1. CASE ~call[c].ok
    <3>1. Return(c, FALSE) /\ (lock' = lock)
      BY <1>1, <2>1 DEF Arm, Live, InFlight, At
    <3>2. call[c].pc # "idle" /\ ~call[c].slot /\ (FALSE) \in BOOLEAN
      BY <1>1 DEF Shape, At
    <3>3. Calls' /\ Only(c) /\ Popped(c) /\ ~call'[c].slot
      BY <1>1, <3>1, <3>2, Returns
    <3>4. call'[c].slot = call[c].slot
      BY <1>1, <3>2, <3>3 DEF Calls, CallType
    <3>5. Back(c, {})
      BY <3>3, <1>3, PopBack
    <3>6. QED
      BY <1>1, <2>1, <3>1, <3>3, <3>4, <3>5
  <2>2. CASE call[c].ok
    <3>1. Goto(c, "post") /\ (IF Chat(call[c].s) THEN lock' = lock
                              ELSE Free(call[c].s, "transcript") /\ Take(c, call[c].s, "transcript"))
      BY <1>1, <2>2 DEF Arm, Live, InFlight, At
    <3>2. /\ call[c].pc # "idle" /\ "post" \in PCs /\ Fits("post", call[c].then)
          /\ call[c].slot <=> Reserves(s, "post")
      BY <1>1, <2>2 DEF At, Shape, Fits, Reserves, OpenPCs, EndPCs, SendPCs, PCs, StatusPCs,
         HubPCs, FlightPCs
    <3>3. QED
      BY <1>1, <2>2, <3>1, <3>2, Goes
  <2>3. QED
    BY <1>1, <2>1, <2>2 DEF World, Live, At
<1>5. World'
  BY <1>1, Taken DEF World, At, CallType, Arm, rest, world
<1>6. Slots' = Slots
  BY <1>4, SameSlots
<1>7. QED
  BY <1>1, <1>2, <1>3, <1>4, <1>5, <1>6 DEF Typed

LEMMA DoesPost ==
    ASSUME Typed, NEW c \in Caller, Post(c)
    PROVE  /\ Typed' /\ Only(c) /\ call[c].s \in Session /\ (At(c, "post") \/ At(c, "repost"))
           /\ Due(c, {})
           /\ Slots' = Slots
           /\ UNCHANGED <<kind, row, transcript, lock, bridge, fails, used, adrift, crossed,
                          pending>>
           /\ Give(c)
           /\ Went(c, "append")
<1> DEFINE s == call[c].s
<1>1. /\ call[c] \in CallType /\ Shape(call[c]) /\ kind' = kind /\ s \in Session
      /\ (At(c, "post") \/ At(c, "repost"))
      /\ Calls /\ World /\ call[c].then \in Seq(PCs) /\ call[c].slot \in BOOLEAN
  BY DEF Typed, Calls, CallType, Shape, World, At, Post, rest
<1>2. /\ UNCHANGED <<kind, row, transcript, lock, bridge, fails, used, adrift, crossed, pending>>
      /\ Give(c)
  BY DEF Post, rest, world, history
<1>3. Due(c, {})
  BY <1>1 DEF At, Due, Shape, Fits, OpenPCs, EndPCs, SendPCs
<1>4. /\ Calls' /\ Only(c) /\ call'[c].slot = call[c].slot
      /\ Went(c, "append")
  <2>1. Goto(c, "append")
    BY <1>1 DEF Post
  <2>2. /\ call[c].pc # "idle" /\ "append" \in PCs /\ Fits("append", call[c].then)
        /\ call[c].slot <=> Reserves(s, "append")
    BY <1>1 DEF At, Shape, Fits, Reserves, OpenPCs, EndPCs, SendPCs, PCs, StatusPCs, HubPCs,
       FlightPCs
  <2>3. QED
    BY <1>1, <2>1, <2>2, Goes
<1>5. World'
  BY <1>1, Handed DEF World, At, CallType, Post, rest, world
<1>6. Slots' = Slots
  BY <1>4, SameSlots
<1>7. QED
  BY <1>1, <1>2, <1>3, <1>4, <1>5, <1>6 DEF Typed

LEMMA DoesPostUnreached ==
    ASSUME Typed, NEW c \in Caller, PostUnreached(c)
    PROVE  /\ Typed' /\ Only(c) /\ call[c].s \in Session /\ (At(c, "post") \/ At(c, "repost"))
           /\ Due(c, {})
           /\ Slots' = Slots
           /\ UNCHANGED <<kind, row, transcript, lock, bridge, fails, adrift, crossed, pending>>
           /\ box' = box \/ Give(c)
           /\ Spend("faults")
           /\ Went(c, "unreached")
<1> DEFINE s == call[c].s
<1>1. /\ call[c] \in CallType /\ Shape(call[c]) /\ kind' = kind /\ s \in Session
      /\ (At(c, "post") \/ At(c, "repost"))
      /\ Calls /\ World /\ call[c].then \in Seq(PCs) /\ call[c].slot \in BOOLEAN
  BY DEF Typed, Calls, CallType, Shape, World, At, PostUnreached, rest
<1>2. /\ UNCHANGED <<kind, row, transcript, lock, bridge, fails, adrift, crossed, pending>>
      /\ box' = box \/ Give(c)
      /\ Spend("faults")
  BY DEF PostUnreached, rest, world, history
<1>3. Due(c, {})
  BY <1>1 DEF At, Due, Shape, Fits, OpenPCs, EndPCs, SendPCs
<1>4. /\ Calls' /\ Only(c) /\ call'[c].slot = call[c].slot
      /\ Went(c, "unreached")
  <2>1. Goto(c, "unreached")
    BY <1>1 DEF PostUnreached
  <2>2. /\ call[c].pc # "idle" /\ "unreached" \in PCs /\ Fits("unreached", call[c].then)
        /\ call[c].slot <=> Reserves(s, "unreached")
    BY <1>1 DEF At, Shape, Fits, Reserves, OpenPCs, EndPCs, SendPCs, PCs, StatusPCs, HubPCs,
       FlightPCs
  <2>3. QED
    BY <1>1, <2>1, <2>2, Goes
<1>5. World'
  BY <1>1, Handed, Spent DEF World, At, CallType, PostUnreached, rest, world
<1>6. Slots' = Slots
  BY <1>4, SameSlots
<1>7. QED
  BY <1>1, <1>2, <1>3, <1>4, <1>5, <1>6 DEF Typed

LEMMA DoesPostUnknown ==
    ASSUME Typed, NEW c \in Caller, PostUnknown(c)
    PROVE  /\ Typed' /\ Only(c) /\ call[c].s \in Session /\ (At(c, "post") \/ At(c, "repost"))
           /\ Due(c, {})
           /\ Slots' = Slots
           /\ UNCHANGED <<kind, row, transcript, box, bridge, fails, used, adrift, crossed,
                          pending>>
           /\ ~box[call[c].s].up
           /\ \/ At(c, "repost") /\ Went(c, "failed") /\ lock' = lock
              \/ /\ At(c, "post") /\ Chat(call[c].s)
                 /\ Pushed(c, "end", "reopen")
                 /\ lock' = lock
              \/ /\ At(c, "post") /\ ~Chat(call[c].s)
                 /\ Went(c, "restart")
                 /\ Leave(call[c].s, "transcript")
<1> DEFINE s == call[c].s
<1>1. /\ call[c] \in CallType /\ Shape(call[c]) /\ kind' = kind /\ s \in Session
      /\ (At(c, "post") \/ At(c, "repost"))
      /\ Calls /\ World /\ call[c].then \in Seq(PCs) /\ call[c].slot \in BOOLEAN
  BY DEF Typed, Calls, CallType, Shape, World, At, PostUnknown, rest
<1>2. /\ UNCHANGED <<kind, row, transcript, box, bridge, fails, used, adrift, crossed, pending>>
      /\ ~box[call[c].s].up
  BY DEF PostUnknown, rest, world, history
<1>3. Due(c, {})
  BY <1>1 DEF At, Due, Shape, Fits, OpenPCs, EndPCs, SendPCs
<1>4. /\ Calls' /\ Only(c) /\ call'[c].slot = call[c].slot
      /\ \/ At(c, "repost") /\ Went(c, "failed") /\ lock' = lock
         \/ /\ At(c, "post") /\ Chat(call[c].s)
            /\ Pushed(c, "end", "reopen")
            /\ lock' = lock
         \/ /\ At(c, "post") /\ ~Chat(call[c].s)
            /\ Went(c, "restart")
            /\ Leave(call[c].s, "transcript")
  <2>1. CASE At(c, "repost")
    <3>1. Goto(c, "failed") /\ (lock' = lock)
      BY <1>1, <2>1 DEF PostUnknown, Live, InFlight, At
    <3>2. /\ call[c].pc # "idle" /\ "failed" \in PCs /\ Fits("failed", call[c].then)
          /\ call[c].slot <=> Reserves(s, "failed")
      BY <1>1, <2>1 DEF At, Shape, Fits, Reserves, OpenPCs, EndPCs, SendPCs, PCs, StatusPCs,
         HubPCs, FlightPCs
    <3>3. QED
      BY <1>1, <2>1, <3>1, <3>2, Goes
  <2>2. CASE At(c, "post") /\ Chat(call[c].s)
    <3>1. Invoke(c, "end", "reopen") /\ (lock' = lock)
      BY <1>1, <2>2 DEF PostUnknown, Live, InFlight, At
    <3>2. /\ call[c].pc # "idle" /\ "end" \in PCs /\ "reopen" \in PCs /\ ~call[c].slot
          /\ ~Reserves(s, "end")
      BY <1>1, <2>2 DEF At, Shape, Reserves, PCs, StatusPCs, HubPCs, FlightPCs
    <3>3. Fits("end", <<"reopen">> \o call[c].then)
      BY <1>1, <3>2, PushFacts DEF At, Shape, Fits, OpenPCs, EndPCs, SendPCs
    <3>4. QED
      BY <1>1, <2>2, <3>1, <3>2, <3>3, Invokes
  <2>3. CASE At(c, "post") /\ ~Chat(call[c].s)
    <3>1. Goto(c, "restart") /\ (Leave(call[c].s, "transcript"))
      BY <1>1, <2>3 DEF PostUnknown, Live, InFlight, At
    <3>2. /\ call[c].pc # "idle" /\ "restart" \in PCs /\ Fits("restart", call[c].then)
          /\ call[c].slot <=> Reserves(s, "restart")
      BY <1>1, <2>3 DEF At, Shape, Fits, Reserves, OpenPCs, EndPCs, SendPCs, PCs, StatusPCs,
         HubPCs, FlightPCs
    <3>3. QED
      BY <1>1, <2>3, <3>1, <3>2, Goes
  <2>4. QED
    BY <1>1, <2>1, <2>2, <2>3 DEF World, Live, At
<1>5. World'
  BY <1>1, Left DEF World, At, CallType, PostUnknown, rest, world
<1>6. Slots' = Slots
  BY <1>4, SameSlots
<1>7. QED
  BY <1>1, <1>2, <1>3, <1>4, <1>5, <1>6 DEF Typed

LEMMA DoesReopen ==
    ASSUME Typed, NEW c \in Caller, Reopen(c)
    PROVE  /\ Typed' /\ Only(c) /\ call[c].s \in Session /\ (At(c, "reopen") \/ At(c, "reopened"))
           /\ Due(c, {})
           /\ Slots' = Slots
           /\ UNCHANGED <<kind, row, transcript, box, lock, bridge, fails, used, adrift,
                          crossed, pending>>
           /\ \/ At(c, "reopen") /\ call[c].ok /\ Pushed(c, "open", "reopened")
              \/ At(c, "reopened") /\ call[c].ok /\ Went(c, "repost")
              \/ ~call[c].ok /\ (Went(c, "failed") \/ Went(c, "unreached"))
<1> DEFINE s == call[c].s
<1>1. /\ call[c] \in CallType /\ Shape(call[c]) /\ kind' = kind /\ s \in Session
      /\ (At(c, "reopen") \/ At(c, "reopened"))
      /\ Calls /\ World /\ call[c].then \in Seq(PCs) /\ call[c].slot \in BOOLEAN
  BY DEF Typed, Calls, CallType, Shape, World, At, Reopen, rest
<1>2. /\ UNCHANGED <<kind, row, transcript, box, lock, bridge, fails, used, adrift, crossed,
                     pending>>
  BY DEF Reopen, rest, world, history
<1>3. Due(c, {})
  BY <1>1 DEF At, Due, Shape, Fits, OpenPCs, EndPCs, SendPCs
<1>4. /\ Calls' /\ Only(c) /\ call'[c].slot = call[c].slot
      /\ \/ At(c, "reopen") /\ call[c].ok /\ Pushed(c, "open", "reopened")
         \/ At(c, "reopened") /\ call[c].ok /\ Went(c, "repost")
         \/ ~call[c].ok /\ (Went(c, "failed") \/ Went(c, "unreached"))
  <2>1. CASE At(c, "reopen") /\ call[c].ok
    <3>1. Invoke(c, "open", "reopened")
      BY <1>1, <2>1 DEF Reopen, Live, InFlight, At
    <3>2. /\ call[c].pc # "idle" /\ "open" \in PCs /\ "reopened" \in PCs /\ ~call[c].slot
          /\ ~Reserves(s, "open")
      BY <1>1, <2>1 DEF At, Shape, Reserves, PCs, StatusPCs, HubPCs, FlightPCs
    <3>3. Fits("open", <<"reopened">> \o call[c].then)
      BY <1>1, <3>2, PushFacts DEF At, Shape, Fits, OpenPCs, EndPCs, SendPCs
    <3>4. QED
      BY <1>1, <2>1, <3>1, <3>2, <3>3, Invokes
  <2>2. CASE At(c, "reopened") /\ call[c].ok
    <3>1. Goto(c, "repost")
      BY <1>1, <2>2 DEF Reopen, Live, InFlight, At
    <3>2. /\ call[c].pc # "idle" /\ "repost" \in PCs /\ Fits("repost", call[c].then)
          /\ call[c].slot <=> Reserves(s, "repost")
      BY <1>1, <2>2 DEF At, Shape, Fits, Reserves, OpenPCs, EndPCs, SendPCs, PCs, StatusPCs,
         HubPCs, FlightPCs
    <3>3. QED
      BY <1>1, <2>2, <3>1, <3>2, Goes
  <2>3. CASE ~call[c].ok
    <3>1. PICK pc \in {"failed", "unreached"} : Goto(c, pc)
      BY <1>1, <2>3 DEF Reopen, StartFailed, At
    <3>2. /\ call[c].pc # "idle" /\ pc \in PCs /\ Fits(pc, call[c].then)
          /\ call[c].slot <=> Reserves(s, pc)
      BY <1>1, <2>3 DEF At, Shape, Fits, Reserves, OpenPCs, EndPCs, SendPCs, PCs, StatusPCs,
         HubPCs, FlightPCs
    <3>3. QED
      BY <1>1, <2>3, <3>1, <3>2, Goes
  <2>4. QED
    BY <1>1, <2>1, <2>2, <2>3 DEF World, Live, At
<1>5. World'
  BY <1>1 DEF World, At, CallType, Reopen, rest, world
<1>6. Slots' = Slots
  BY <1>4, SameSlots
<1>7. QED
  BY <1>1, <1>2, <1>3, <1>4, <1>5, <1>6 DEF Typed

LEMMA DoesRelock ==
    ASSUME Typed, NEW c \in Caller, Relock(c)
    PROVE  /\ Typed' /\ Only(c) /\ call[c].s \in Session /\ At(c, "relock")
           /\ Due(c, {})
           /\ Slots' = Slots
           /\ UNCHANGED <<kind, row, transcript, box, bridge, fails, used, adrift, crossed,
                          pending>>
           /\ Free(call[c].s, "transcript")
           /\ Take(c, call[c].s, "transcript")
           /\ \/ call[c].ok /\ Went(c, "repost")
              \/ ~call[c].ok /\ (Went(c, "failed") \/ Went(c, "unreached"))
<1> DEFINE s == call[c].s
<1>1. /\ call[c] \in CallType /\ Shape(call[c]) /\ kind' = kind /\ s \in Session
      /\ At(c, "relock")
      /\ Calls /\ World /\ call[c].then \in Seq(PCs) /\ call[c].slot \in BOOLEAN
  BY DEF Typed, Calls, CallType, Shape, World, At, Relock, rest
<1>2. /\ UNCHANGED <<kind, row, transcript, box, bridge, fails, used, adrift, crossed, pending>>
      /\ Free(call[c].s, "transcript")
      /\ Take(c, call[c].s, "transcript")
  BY DEF Relock, rest, world, history
<1>3. Due(c, {})
  BY <1>1 DEF At, Due, Shape, Fits, OpenPCs, EndPCs, SendPCs
<1>4. /\ Calls' /\ Only(c) /\ call'[c].slot = call[c].slot
      /\ \/ call[c].ok /\ Went(c, "repost")
         \/ ~call[c].ok /\ (Went(c, "failed") \/ Went(c, "unreached"))
  <2>1. CASE call[c].ok
    <3>1. Goto(c, "repost")
      BY <1>1, <2>1 DEF Relock, Live, InFlight, At
    <3>2. /\ call[c].pc # "idle" /\ "repost" \in PCs /\ Fits("repost", call[c].then)
          /\ call[c].slot <=> Reserves(s, "repost")
      BY <1>1, <2>1 DEF At, Shape, Fits, Reserves, OpenPCs, EndPCs, SendPCs, PCs, StatusPCs,
         HubPCs, FlightPCs
    <3>3. QED
      BY <1>1, <2>1, <3>1, <3>2, Goes
  <2>2. CASE ~call[c].ok
    <3>1. PICK pc \in {"failed", "unreached"} : Goto(c, pc)
      BY <1>1, <2>2 DEF Relock, StartFailed, At
    <3>2. /\ call[c].pc # "idle" /\ pc \in PCs /\ Fits(pc, call[c].then)
          /\ call[c].slot <=> Reserves(s, pc)
      BY <1>1, <2>2 DEF At, Shape, Fits, Reserves, OpenPCs, EndPCs, SendPCs, PCs, StatusPCs,
         HubPCs, FlightPCs
    <3>3. QED
      BY <1>1, <2>2, <3>1, <3>2, Goes
  <2>3. QED
    BY <1>1, <2>1, <2>2 DEF World, Live, At
<1>5. World'
  BY <1>1, Taken DEF World, At, CallType, Relock, rest, world
<1>6. Slots' = Slots
  BY <1>4, SameSlots
<1>7. QED
  BY <1>1, <1>2, <1>3, <1>4, <1>5, <1>6 DEF Typed

LEMMA DoesFailed ==
    ASSUME Typed, NEW c \in Caller, Failed(c)
    PROVE  /\ Typed' /\ Only(c) /\ call[c].s \in Session
           /\ (At(c, "failed") \/ At(c, "unreached"))
           /\ Due(c, {})
           /\ Slots' = Slots
           /\ UNCHANGED <<kind, row, transcript, box, bridge, used, adrift, crossed, pending>>
           /\ LeaveTranscript(c)
           /\ \/ /\ At(c, "unreached") /\ fails[call[c].s] + 1 = MaxSendFailures
                 /\ Pushed(c, "end", "endfailed")
              \/ /\ ~(At(c, "unreached") /\ fails[call[c].s] + 1 = MaxSendFailures)
                 /\ Back(c, {})
<1> DEFINE s == call[c].s
<1>1. /\ call[c] \in CallType /\ Shape(call[c]) /\ kind' = kind /\ s \in Session
      /\ (At(c, "failed") \/ At(c, "unreached"))
      /\ Calls /\ World /\ call[c].then \in Seq(PCs) /\ call[c].slot \in BOOLEAN
  BY DEF Typed, Calls, CallType, Shape, World, At, Failed, rest
<1>2. /\ UNCHANGED <<kind, row, transcript, box, bridge, used, adrift, crossed, pending>>
      /\ LeaveTranscript(c)
  BY DEF Failed, rest, world, history
<1>3. Due(c, {})
  BY <1>1 DEF At, Due, Shape, Fits, OpenPCs, EndPCs, SendPCs
<1>4. /\ Calls' /\ Only(c) /\ call'[c].slot = call[c].slot
      /\ \/ /\ At(c, "unreached") /\ fails[call[c].s] + 1 = MaxSendFailures
            /\ Pushed(c, "end", "endfailed")
         \/ /\ ~(At(c, "unreached") /\ fails[call[c].s] + 1 = MaxSendFailures)
            /\ Back(c, {})
  <2>1. CASE At(c, "unreached") /\ fails[call[c].s] + 1 = MaxSendFailures
    <3>1. Invoke(c, "end", "endfailed")
      BY <1>1, <2>1 DEF Failed, Live, InFlight, At
    <3>2. /\ call[c].pc # "idle" /\ "end" \in PCs /\ "endfailed" \in PCs /\ ~call[c].slot
          /\ ~Reserves(s, "end")
      BY <1>1, <2>1 DEF At, Shape, Reserves, PCs, StatusPCs, HubPCs, FlightPCs
    <3>3. Fits("end", <<"endfailed">> \o call[c].then)
      BY <1>1, <3>2, PushFacts DEF At, Shape, Fits, OpenPCs, EndPCs, SendPCs
    <3>4. QED
      BY <1>1, <2>1, <3>1, <3>2, <3>3, Invokes
  <2>2. CASE ~(At(c, "unreached") /\ fails[call[c].s] + 1 = MaxSendFailures)
    <3>1. Return(c, FALSE)
      BY <1>1, <2>2 DEF Failed, Live, InFlight, At
    <3>2. call[c].pc # "idle" /\ ~call[c].slot /\ (FALSE) \in BOOLEAN
      BY <1>1 DEF Shape, At
    <3>3. Calls' /\ Only(c) /\ Popped(c) /\ ~call'[c].slot
      BY <1>1, <3>1, <3>2, Returns
    <3>4. call'[c].slot = call[c].slot
      BY <1>1, <3>2, <3>3 DEF Calls, CallType
    <3>5. Back(c, {})
      BY <3>3, <1>3, PopBack
    <3>6. QED
      BY <1>1, <2>2, <3>1, <3>3, <3>4, <3>5
  <2>3. QED
    BY <1>1, <2>1, <2>2 DEF World, Live, At
<1>5. World'
  BY <1>1, LeftTranscript, ChatAssumption DEF World, At, CallType, Failed, rest, world
<1>6. Slots' = Slots
  BY <1>4, SameSlots
<1>7. QED
  BY <1>1, <1>2, <1>3, <1>4, <1>5, <1>6 DEF Typed

LEMMA DoesEndFailed ==
    ASSUME Typed, NEW c \in Caller, EndFailed(c)
    PROVE  /\ Typed' /\ Only(c) /\ call[c].s \in Session /\ At(c, "endfailed")
           /\ Due(c, {})
           /\ Slots' = Slots
           /\ UNCHANGED <<kind, row, transcript, box, bridge, fails, used, adrift, crossed,
                          pending>>
           /\ LeaveTranscript(c)
           /\ Back(c, {})
<1> DEFINE s == call[c].s
<1>1. /\ call[c] \in CallType /\ Shape(call[c]) /\ kind' = kind /\ s \in Session
      /\ At(c, "endfailed")
      /\ Calls /\ World /\ call[c].then \in Seq(PCs) /\ call[c].slot \in BOOLEAN
  BY DEF Typed, Calls, CallType, Shape, World, At, EndFailed, rest
<1>2. /\ UNCHANGED <<kind, row, transcript, box, bridge, fails, used, adrift, crossed, pending>>
      /\ LeaveTranscript(c)
  BY DEF EndFailed, rest, world, history
<1>3. Due(c, {})
  BY <1>1 DEF At, Due, Shape, Fits, OpenPCs, EndPCs, SendPCs
<1>4. /\ Calls' /\ Only(c) /\ call'[c].slot = call[c].slot
      /\ Back(c, {})
  <2>1. Return(c, FALSE)
    BY <1>1 DEF EndFailed
  <2>2. call[c].pc # "idle" /\ ~call[c].slot /\ (FALSE) \in BOOLEAN
    BY <1>1 DEF Shape, At
  <2>3. Calls' /\ Only(c) /\ Popped(c) /\ ~call'[c].slot
    BY <1>1, <2>1, <2>2, Returns
  <2>4. call'[c].slot = call[c].slot
    BY <1>1, <2>2, <2>3 DEF Calls, CallType
  <2>5. Back(c, {})
    BY <2>3, <1>3, PopBack
  <2>6. QED
    BY <1>1, <2>1, <2>3, <2>4, <2>5
<1>5. World'
  BY <1>1, LeftTranscript DEF World, At, CallType, EndFailed, rest, world
<1>6. Slots' = Slots
  BY <1>4, SameSlots
<1>7. QED
  BY <1>1, <1>2, <1>3, <1>4, <1>5, <1>6 DEF Typed

LEMMA DoesAppendRow ==
    ASSUME Typed, NEW c \in Caller, AppendRow(c)
    PROVE  /\ Typed' /\ Only(c) /\ call[c].s \in Session /\ At(c, "append")
           /\ Due(c, {})
           /\ Slots' = Slots
           /\ UNCHANGED <<kind, row, box, bridge, used, adrift, crossed, pending>>
           /\ \/ /\ row[call[c].s] = "absent"
                 /\ Back(c, {})
                 /\ LeaveTranscript(c) /\ transcript' = transcript
              \/ /\ row[call[c].s] # "absent"
                 /\ Went(c, "publish")
                 /\ lock' = lock
                 /\ transcript' = [transcript EXCEPT ![call[c].s] = Append(@, call[c].msg)]
<1> DEFINE s == call[c].s
<1>1. /\ call[c] \in CallType /\ Shape(call[c]) /\ kind' = kind /\ s \in Session
      /\ At(c, "append")
      /\ Calls /\ World /\ call[c].then \in Seq(PCs) /\ call[c].slot \in BOOLEAN
  BY DEF Typed, Calls, CallType, Shape, World, At, AppendRow, rest
<1>2. /\ UNCHANGED <<kind, row, box, bridge, used, adrift, crossed, pending>>
  BY DEF AppendRow, rest, world, history
<1>3. Due(c, {})
  BY <1>1 DEF At, Due, Shape, Fits, OpenPCs, EndPCs, SendPCs
<1>4. /\ Calls' /\ Only(c) /\ call'[c].slot = call[c].slot
      /\ \/ /\ row[call[c].s] = "absent"
            /\ Back(c, {})
            /\ LeaveTranscript(c) /\ transcript' = transcript
         \/ /\ row[call[c].s] # "absent"
            /\ Went(c, "publish")
            /\ lock' = lock
            /\ transcript' = [transcript EXCEPT ![call[c].s] = Append(@, call[c].msg)]
  <2>1. CASE row[call[c].s] = "absent"
    <3>1. Return(c, FALSE) /\ (LeaveTranscript(c) /\ transcript' = transcript)
      BY <1>1, <2>1 DEF AppendRow, Live, InFlight, At
    <3>2. call[c].pc # "idle" /\ ~call[c].slot /\ (FALSE) \in BOOLEAN
      BY <1>1 DEF Shape, At
    <3>3. Calls' /\ Only(c) /\ Popped(c) /\ ~call'[c].slot
      BY <1>1, <3>1, <3>2, Returns
    <3>4. call'[c].slot = call[c].slot
      BY <1>1, <3>2, <3>3 DEF Calls, CallType
    <3>5. Back(c, {})
      BY <3>3, <1>3, PopBack
    <3>6. QED
      BY <1>1, <2>1, <3>1, <3>3, <3>4, <3>5
  <2>2. CASE row[call[c].s] # "absent"
    <3>1. Goto(c, "publish") /\ (lock' = lock
                                 /\ transcript' = [transcript EXCEPT ![call[c].s] = Append(@, call[c].msg)])
      BY <1>1, <2>2 DEF AppendRow, Live, InFlight, At
    <3>2. /\ call[c].pc # "idle" /\ "publish" \in PCs /\ Fits("publish", call[c].then)
          /\ call[c].slot <=> Reserves(s, "publish")
      BY <1>1, <2>2 DEF At, Shape, Fits, Reserves, OpenPCs, EndPCs, SendPCs, PCs, StatusPCs,
         HubPCs, FlightPCs
    <3>3. QED
      BY <1>1, <2>2, <3>1, <3>2, Goes
  <2>3. QED
    BY <1>1, <2>1, <2>2 DEF World, Live, At
<1>5. World'
  <2>1. fails' \in [Session -> 0..MaxSendFailures - 1]
    BY <1>1, ChatAssumption DEF World, AppendRow
  <2>2. lock' \in Locks
    BY <1>1, LeftTranscript DEF World, AppendRow
  <2>3. transcript' \in [Session -> Seq(Nat)]
    <3>1. Append(transcript[s], call[c].msg) \in Seq(Nat)
      BY <1>1 DEF World, CallType
    <3>2. QED
      BY <1>1, <3>1 DEF World, AppendRow
  <2>4. QED
    BY <1>1, <1>2, <2>1, <2>2, <2>3 DEF World
<1>6. Slots' = Slots
  BY <1>4, SameSlots
<1>7. QED
  BY <1>1, <1>2, <1>3, <1>4, <1>5, <1>6 DEF Typed

LEMMA DoesPublish ==
    ASSUME Typed, NEW c \in Caller, Publish(c)
    PROVE  /\ Typed' /\ Only(c) /\ call[c].s \in Session /\ At(c, "publish")
           /\ Due(c, {})
           /\ Slots' = Slots
           /\ UNCHANGED <<kind, row, transcript, box, bridge, fails, used, adrift, crossed,
                          pending>>
           /\ LeaveTranscript(c)
           /\ Back(c, {})
<1> DEFINE s == call[c].s
<1>1. /\ call[c] \in CallType /\ Shape(call[c]) /\ kind' = kind /\ s \in Session
      /\ At(c, "publish")
      /\ Calls /\ World /\ call[c].then \in Seq(PCs) /\ call[c].slot \in BOOLEAN
  BY DEF Typed, Calls, CallType, Shape, World, At, Publish, rest
<1>2. /\ UNCHANGED <<kind, row, transcript, box, bridge, fails, used, adrift, crossed, pending>>
      /\ LeaveTranscript(c)
  BY DEF Publish, rest, world, history
<1>3. Due(c, {})
  BY <1>1 DEF At, Due, Shape, Fits, OpenPCs, EndPCs, SendPCs
<1>4. /\ Calls' /\ Only(c) /\ call'[c].slot = call[c].slot
      /\ Back(c, {})
  <2>1. Return(c, TRUE)
    BY <1>1 DEF Publish
  <2>2. call[c].pc # "idle" /\ ~call[c].slot /\ (TRUE) \in BOOLEAN
    BY <1>1 DEF Shape, At
  <2>3. Calls' /\ Only(c) /\ Popped(c) /\ ~call'[c].slot
    BY <1>1, <2>1, <2>2, Returns
  <2>4. call'[c].slot = call[c].slot
    BY <1>1, <2>2, <2>3 DEF Calls, CallType
  <2>5. Back(c, {})
    BY <2>3, <1>3, PopBack
  <2>6. QED
    BY <1>1, <2>1, <2>3, <2>4, <2>5
<1>5. World'
  BY <1>1, LeftTranscript DEF World, At, CallType, Publish, rest, world
<1>6. Slots' = Slots
  BY <1>4, SameSlots
<1>7. QED
  BY <1>1, <1>2, <1>3, <1>4, <1>5, <1>6 DEF Typed

\* Before a call does anything: where it stands, and that its session exists.
LEMMA Standing ==
    ASSUME Typed, NEW c \in Caller
    PROVE  /\ call[c] \in CallType /\ Shape(call[c]) /\ Calls /\ World
           /\ call[c].then \in Seq(PCs) /\ call[c].msg \in Nat
           /\ call[c].pc # "idle" => call[c].s \in Session
           /\ call[c].pc = "idle" => call[c].s = "none" /\ Len(call[c].then) = 0
  BY DEF Typed, Calls, CallType, Shape, Fits

LEMMA DoesBegin ==
    ASSUME Typed, NEW c \in Caller, Begin(c)
    PROVE  /\ Typed' /\ Only(c) /\ At(c, "idle") /\ call'[c].s \in Session
           /\ call'[c].pc \in {"open", "end", "delete", "subscribe", "send"}
           /\ Len(call'[c].then) = 0 /\ used["sends"] <= used'["sends"]
           /\ IF call'[c].pc = "send" THEN /\ call'[c].msg = used["sends"] + 1
                                          /\ used'["sends"] = used["sends"] + 1
              ELSE call'[c].msg = 0
           /\ UNCHANGED <<kind, row, transcript, box, lock, bridge, fails, adrift, crossed>>
<1>1. call[c].s = "none" /\ Calls /\ World /\ call[c].pc = "idle" /\ kind' = kind
  BY DEF Typed, Calls, Shape, Begin, At, rest
<1>2. PICK s \in Session, pc \in {"open", "end", "delete", "subscribe", "send"} :
        /\ pc = "send" => used["sends"] < Bound["sends"]
        /\ used' = [used EXCEPT !["calls"] = @ + 1, !["sends"] = IF pc = "send" THEN @ + 1 ELSE @]
        /\ call' = [call EXCEPT ![c] = [Idle EXCEPT !.s = s, !.pc = pc,
                                           !.msg = IF pc = "send" THEN used'["sends"] ELSE 0]]
  BY DEF Begin
<1>3. /\ used' \in Used /\ used'["sends"] <= Bound["sends"]
      /\ used'["sends"] = IF pc = "send" THEN used["sends"] + 1 ELSE used["sends"]
      /\ used'["sends"] \in Nat /\ used["sends"] \in Nat
  <2> DEFINE n == IF pc = "send" THEN used["sends"] + 1 ELSE used["sends"]
  <2>1. used \in Used /\ used["sends"] \in Nat /\ used["calls"] + 1 \in Nat
    BY <1>1 DEF World, Used
  <2>2. n \in Nat /\ n <= Bound["sends"]
    BY <1>1, <1>2, <2>1, ChatAssumption DEF World
  <2>3. used' = [used EXCEPT !["calls"] = used["calls"] + 1, !["sends"] = n]
    BY <1>2, <2>1 DEF Used
  <2> HIDE DEF n
  <2>4. used' \in Used /\ used'["sends"] = n
    BY <2>1, <2>2, <2>3 DEF Used
  <2>5. QED
    BY <2>1, <2>2, <2>4 DEF n
<1> DEFINE m == IF pc = "send" THEN used'["sends"] ELSE 0
           q == [Idle EXCEPT !.s = s, !.pc = pc, !.msg = m]
<1>4. m \in Nat /\ (IF pc = "send" THEN m = used["sends"] + 1 ELSE m = 0)
  BY <1>3
<1>5. call' = [call EXCEPT ![c] = q]
  BY <1>2
<1> HIDE DEF m
<1>6. /\ q.s = s /\ q.pc = pc /\ q.msg = m /\ q.then = <<>> /\ ~q.slot /\ Len(q.then) = 0
      /\ q \in CallType
  <2>1. <<>> \in Seq(PCs) /\ Len(<<>>) = 0 /\ pc \in PCs
    BY DEF PCs, StatusPCs, HubPCs, FlightPCs
  <2>2. Idle \in CallType /\ Idle.then = <<>> /\ ~Idle.slot
    BY IdleFits, ChatAssumption DEF Idle
  <2>3. /\ q \in CallType /\ q.s = s /\ q.pc = pc /\ q.msg = m
        /\ q.then = Idle.then /\ q.slot = Idle.slot
    BY <1>4, <2>1, <2>2 DEF CallType
  <2>4. QED
    BY <2>1, <2>2, <2>3
<1>7. Shape(q)
  BY <1>6, ChatAssumption DEF Shape, Fits, OpenPCs, EndPCs, SendPCs
<1> HIDE DEF q
<1>8. call' \in [Caller -> CallType] /\ call'[c] = q /\ Only(c)
  BY <1>1, <1>6, <1>5 DEF Calls, Only
<1>9. \A d \in Caller : Shape(call[d])'
  <2> SUFFICES ASSUME NEW d \in Caller PROVE Shape(call[d])'
    OBVIOUS
  <2>1. Shape(call'[d])
    BY <1>1, <1>7, <1>8 DEF Only, Calls
  <2>2. QED
    BY <1>1, <2>1 DEF Shape, Fits
<1>10. Slots' = Slots /\ pending' = pending
  <2>1. ~call[c].slot
    BY <1>1 DEF Calls, Shape
  <2>2. QED
    BY <1>6, <1>8, <2>1 DEF Slots, Only, Begin
<1>11. World'
  BY <1>1, <1>3 DEF World, Begin, rest, world
<1>12. Typed'
  BY <1>8, <1>9, <1>10, <1>11 DEF Typed, Calls
<1>13. /\ UNCHANGED <<kind, row, transcript, box, lock, bridge, fails, adrift, crossed>>
  BY DEF Begin, rest, world, history
<1>14. QED
  <2>1. call'[c].s = s /\ call'[c].pc = pc /\ Len(call'[c].then) = 0 /\ call'[c].msg = m
    BY <1>6, <1>8
  <2>2. /\ used["sends"] <= used'["sends"]
        /\ pc = "send" => m = used["sends"] + 1 /\ used'["sends"] = used["sends"] + 1
        /\ pc # "send" => m = 0
    BY <1>3, <1>4
  <2>3. QED
    BY <1>13, <1>1, <1>8, <1>12, <2>1, <2>2 DEF At

LEMMA DoesReserve ==
    ASSUME Typed, NEW c \in Caller, Reserve(c)
    PROVE  /\ Typed' /\ At(c, "reserve") /\ call[c].s \in Session
           /\ \/ Landing(c) /\ Slots' = Slots \ {c}
              \/ /\ Only(c) /\ Went(c, "start") /\ row[call[c].s] = "cold"
                 /\ IF Chat(call[c].s)
                    THEN /\ Slots' = Slots \cup {c}
                         /\ Cardinality({s \in Session : Chat(s) /\ Live(s)}) + Cardinality(Slots)
                            < MaxConcurrent
                    ELSE Slots' = Slots
           /\ UNCHANGED <<kind, row, transcript, box, lock, bridge, fails, used, adrift, crossed>>
<1> DEFINE s == call[c].s
           room == Chat(s) /\ Counted + pending >= MaxConcurrent
<1>1. /\ call[c] \in CallType /\ Shape(call[c]) /\ Calls /\ World /\ s \in Session
      /\ kind' = kind /\ call[c].pc = "reserve" /\ ~call[c].slot
  BY Standing DEF Reserve, At, rest, Shape
<1>2. World'
      /\ UNCHANGED <<kind, row, transcript, box, lock, bridge, fails, used, adrift, crossed>>
  BY <1>1 DEF World, Reserve, rest, world, history
<1>3. CASE row[s] # "cold"
  <2>1. Landed(c, row[s] # "absent") /\ InFlight(c)
    BY <1>1, <1>3 DEF Reserve, InFlight, FlightPCs
  <2>2. Calls' /\ Landing(c) /\ Slots' = Slots \ {c} /\ pending' = Cardinality(Slots')
    BY <1>1, <2>1, Lands DEF Typed
  <2>3. QED
    BY <1>1, <1>2, <2>2 DEF Typed, At
<1>4. CASE row[s] = "cold" /\ room
  <2>1. Landed(c, FALSE) /\ InFlight(c)
    BY <1>1, <1>4 DEF Reserve, InFlight, FlightPCs
  <2>2. Calls' /\ Landing(c) /\ Slots' = Slots \ {c} /\ pending' = Cardinality(Slots')
    BY <1>1, <2>1, Lands DEF Typed
  <2>3. QED
    BY <1>1, <1>2, <2>2 DEF Typed, At
<1>5. CASE row[s] = "cold" /\ ~room
  <2> DEFINE r == [call[c] EXCEPT !.pc = "start", !.slot = Chat(s)]
  <2>1. /\ call' = [call EXCEPT ![c].pc = "start", ![c].slot = Chat(s)]
        /\ pending' = IF Chat(s) THEN pending + 1 ELSE pending
    BY <1>5 DEF Reserve
  <2>2. Chat(s) \in BOOLEAN
    BY DEF Chat
  <2>3. call' = [call EXCEPT ![c] = r]
    BY <2>1, <1>1 DEF Calls, CallType
  <2>4. /\ r \in CallType /\ r.pc = "start" /\ r.then = call[c].then /\ r.s = s
        /\ r.msg = call[c].msg /\ r.slot = Chat(s)
    BY <1>1, <2>2 DEF CallType, PCs, FlightPCs
  <2> HIDE DEF r
  <2>5. call' \in [Caller -> CallType] /\ call'[c] = r /\ Only(c)
    BY <1>1, <2>3, <2>4 DEF Calls, Only
  <2>6. \A d \in Caller : Shape(call[d])'
    <3> SUFFICES ASSUME NEW d \in Caller PROVE Shape(call[d])'
      OBVIOUS
    <3>1. CASE d = c
      BY <1>1, <2>4, <2>5, <3>1 DEF Shape, Fits, OpenPCs, EndPCs, SendPCs, Chat
    <3>2. CASE d # c
      <4>1. call'[d] = call[d] /\ Shape(call[d])
        BY <1>1, <2>5, <3>2 DEF Calls, Only
      <4>2. QED
        BY <1>1, <4>1 DEF Shape, Fits
    <3>3. QED
      BY <3>1, <3>2
  <2>7. IF Chat(s) THEN Slots' = Slots \cup {c} ELSE Slots' = Slots
    BY <1>1, <2>4, <2>5 DEF Slots, Only
  <2>8. IsFiniteSet(Slots) /\ Cardinality(Slots) \in Nat /\ c \notin Slots
    BY <1>1, ChatAssumption, FS_Subset, FS_CardinalityType DEF Slots
  <2>9. pending' = Cardinality(Slots')
    <3>1. Cardinality(Slots \cup {c}) = Cardinality(Slots) + 1
      BY <2>8, FS_AddElement
    <3>2. QED
      BY <2>1, <2>7, <3>1 DEF Typed
  <2>10. Chat(s) => Cardinality({z \in Session : Chat(z) /\ Live(z)}) + Cardinality(Slots)
                    < MaxConcurrent
    <3>1. Counted \in Nat
      BY ChatAssumption, FS_Subset, FS_CardinalityType DEF Counted
    <3>2. QED
      BY <1>5, <2>8, <3>1, ChatAssumption DEF Typed, Counted
  <2>11. Went(c, "start")
    BY <2>4, <2>5 DEF Went
  <2>12. QED
    BY <1>1, <1>2, <1>5, <2>5, <2>6, <2>7, <2>9, <2>10, <2>11 DEF Typed, Calls, At
<1>6. QED
  BY <1>3, <1>4, <1>5

LEMMA DoesStartFails ==
    ASSUME Typed, NEW c \in Caller, StartFails(c)
    PROVE  /\ Typed' /\ At(c, "start") /\ call[c].s \in Session
           /\ Landing(c) /\ Slots' = Slots \ {c} /\ used'["sends"] = used["sends"]
           /\ \/ box' = box /\ adrift' = adrift
              \/ /\ BoxStarts(call[c].s, IF Chat(call[c].s) THEN transcript[call[c].s] ELSE <<>>)
                 /\ adrift' = adrift \cup {call[c].s}
           /\ UNCHANGED <<kind, row, transcript, lock, bridge, fails, crossed>>
<1> DEFINE s == call[c].s
           given == IF Chat(s) THEN transcript[s] ELSE <<>>
<1>1. /\ Calls /\ World /\ s \in Session /\ kind' = kind /\ call[c].pc = "start"
  BY Standing DEF StartFails, At
<1>2. Landed(c, FALSE) /\ InFlight(c)
  BY <1>1 DEF StartFails, InFlight, FlightPCs
<1>3. Calls' /\ Landing(c) /\ Slots' = Slots \ {c} /\ pending' = Cardinality(Slots')
  BY <1>1, <1>2, Lands DEF Typed
<1>4. given \in Seq(Nat)
  BY <1>1 DEF World
<1>5. \/ box' = box /\ adrift' = adrift
      \/ BoxStarts(s, given) /\ adrift' = adrift \cup {s}
  BY DEF StartFails
<1>6. box' \in Boxes
  <2>1. CASE box' = box
    BY <1>1, <2>1 DEF World
  <2>2. CASE BoxStarts(s, given)
    BY <1>1, <1>4, <2>2, Begun DEF World
  <2>3. QED
    BY <1>5, <2>1, <2>2
<1>7. used' \in Used /\ used'["sends"] <= Bound["sends"] /\ used'["sends"] = used["sends"]
  BY <1>1, Spent DEF World, StartFails
<1>8. World'
  BY <1>1, <1>6, <1>7 DEF World, StartFails
<1>9. /\ UNCHANGED <<kind, row, transcript, lock, bridge, fails, crossed>>
  BY DEF StartFails, rest, world, history
<1>10. QED
  BY <1>9, <1>1, <1>3, <1>5, <1>7, <1>8 DEF Typed, At

LEMMA DoesPersist ==
    ASSUME Typed, NEW c \in Caller, Persist(c)
    PROVE  /\ Typed' /\ At(c, "persist") /\ call[c].s \in Session
           /\ \/ /\ row[call[c].s] = "absent" /\ row' = row /\ adrift' = adrift \cup {call[c].s}
                 /\ Landing(c) /\ Slots' = Slots \ {c}
              \/ /\ row' = [row EXCEPT ![call[c].s] = "active"] /\ adrift' = adrift
                 /\ Only(c) /\ Went(c, "opened") /\ Slots' = Slots
           /\ Free(call[c].s, "status")
           /\ UNCHANGED <<kind, transcript, box, lock, bridge, fails, used, crossed>>
<1> DEFINE s == call[c].s
<1>1. /\ call[c] \in CallType /\ Shape(call[c]) /\ Calls /\ World /\ s \in Session
      /\ kind' = kind /\ call[c].pc = "persist"
  BY Standing DEF Persist, At
<1>2. World'
  BY <1>1 DEF World, Persist
<1>3. CASE row[s] = "absent"
  <2>1. Landed(c, FALSE) /\ InFlight(c)
    BY <1>1, <1>3 DEF Persist, InFlight, FlightPCs
  <2>2. Calls' /\ Landing(c) /\ Slots' = Slots \ {c} /\ pending' = Cardinality(Slots')
    BY <1>1, <2>1, Lands DEF Typed
  <2>3. QED
    BY <1>1, <1>2, <1>3, <2>2 DEF Typed, At, Persist
<1>4. CASE row[s] # "absent"
  <2>1. Goto(c, "opened")
    BY <1>4 DEF Persist
  <2>2. /\ Fits("opened", call[c].then) /\ "opened" \in PCs
        /\ call[c].slot <=> Reserves(s, "opened")
    BY <1>1 DEF Shape, Fits, Reserves, OpenPCs, EndPCs, SendPCs, PCs, FlightPCs
  <2>3. Calls' /\ Only(c) /\ Went(c, "opened") /\ call'[c].slot = call[c].slot
    BY <1>1, <2>1, <2>2, Goes
  <2>4. Slots' = Slots
    BY <2>3, SameSlots
  <2>5. QED
    BY <1>1, <1>2, <1>4, <2>3, <2>4 DEF Typed, At, Persist
<1>5. /\ Free(call[c].s, "status")
      /\ UNCHANGED <<kind, transcript, box, lock, bridge, fails, used, crossed>>
  BY DEF Persist, rest, world, history
<1>6. QED
  BY <1>5, <1>3, <1>4

LEMMA DoesPersistFails ==
    ASSUME Typed, NEW c \in Caller, PersistFails(c)
    PROVE  /\ Typed' /\ At(c, "persist") /\ call[c].s \in Session
           /\ Landing(c) /\ Slots' = Slots \ {c} /\ used'["sends"] = used["sends"]
           /\ Free(call[c].s, "status") /\ row[call[c].s] = "cold" /\ BoxEnds(call[c].s)
           /\ UNCHANGED <<kind, row, transcript, lock, fails, adrift, crossed>>
<1>1. /\ Calls /\ World /\ call[c].s \in Session /\ kind' = kind /\ call[c].pc = "persist"
  BY Standing DEF PersistFails, At, rest
<1>2. Landed(c, FALSE) /\ InFlight(c)
  BY <1>1 DEF PersistFails, InFlight, FlightPCs
<1>3. Calls' /\ Landing(c) /\ Slots' = Slots \ {c} /\ pending' = Cardinality(Slots')
  BY <1>1, <1>2, Lands DEF Typed
<1>4. box' \in Boxes /\ bridge' \in Bridges
  BY <1>1, Ended DEF World, PersistFails
<1>5. used' \in Used /\ used'["sends"] <= Bound["sends"] /\ used'["sends"] = used["sends"]
  BY <1>1, Spent DEF World, PersistFails
<1>6. World'
  BY <1>1, <1>4, <1>5 DEF World, PersistFails, rest
<1>7. /\ Free(call[c].s, "status") /\ row[call[c].s] = "cold" /\ BoxEnds(call[c].s)
      /\ UNCHANGED <<kind, row, transcript, lock, fails, adrift, crossed>>
  BY DEF PersistFails, rest, world, history
<1>8. QED
  BY <1>7, <1>1, <1>3, <1>5, <1>6 DEF Typed, At

LEMMA DoesOpened ==
    ASSUME Typed, NEW c \in Caller, Opened(c)
    PROVE  /\ Typed' /\ At(c, "opened") /\ call[c].s \in Session
           /\ Landing(c) /\ Slots' = Slots \ {c}
           /\ StartConsumer(call[c].s, FALSE)
           /\ UNCHANGED <<kind, row, transcript, box, lock, fails, used, adrift>>
<1>1. /\ Calls /\ World /\ call[c].s \in Session /\ kind' = kind /\ call[c].pc = "opened"
  BY Standing DEF Opened, At
<1>2. Landed(c, TRUE) /\ InFlight(c)
  BY <1>1 DEF Opened, InFlight, FlightPCs
<1>3. Calls' /\ Landing(c) /\ Slots' = Slots \ {c} /\ pending' = Cardinality(Slots')
  BY <1>1, <1>2, Lands DEF Typed
<1>4. bridge' \in Bridges
  BY <1>1, Started DEF World, Opened
<1>5. World'
  BY <1>1, <1>4 DEF World, Opened, world
<1>6. /\ StartConsumer(call[c].s, FALSE)
      /\ UNCHANGED <<kind, row, transcript, box, lock, fails, used, adrift>>
  BY DEF Opened, rest, world, history
<1>7. QED
  BY <1>6, <1>1, <1>3, <1>5 DEF Typed, At

LEMMA DoesRestartForSend ==
    ASSUME Typed, NEW c \in Caller, RestartForSend(c)
    PROVE  /\ Typed' /\ Only(c) /\ At(c, "restart") /\ call[c].s \in Session
           /\ Went(c, "relock") /\ used'["sends"] = used["sends"]
           /\ box' = box \/ (Live(call[c].s) /\ BoxStarts(call[c].s, <<>>))
           /\ Free(call[c].s, "status")
           /\ UNCHANGED <<kind, row, transcript, lock, bridge, fails, adrift, crossed>>
<1> DEFINE s == call[c].s
<1>1. /\ call[c] \in CallType /\ Shape(call[c]) /\ Calls /\ World /\ s \in Session
      /\ kind' = kind /\ call[c].pc = "restart" /\ ~call[c].slot
  BY Standing DEF RestartForSend, At, rest, Shape
<1>2. PICK ok \in BOOLEAN : call' = [call EXCEPT ![c].pc = "relock", ![c].ok = ok]
  <2>1. \/ call' = [call EXCEPT ![c].pc = "relock", ![c].ok = Live(s)]
        \/ call' = [call EXCEPT ![c].pc = "relock", ![c].ok = FALSE]
    BY DEF RestartForSend
  <2>2. Live(s) \in BOOLEAN
    BY DEF Live
  <2>3. QED
    BY <2>1, <2>2
<1> DEFINE r == [call[c] EXCEPT !.pc = "relock", !.ok = ok]
<1>3. call' = [call EXCEPT ![c] = r]
  BY <1>1, <1>2 DEF Calls, CallType
<1>4. /\ r \in CallType /\ r.pc = "relock" /\ r.then = call[c].then /\ r.s = s
      /\ r.msg = call[c].msg /\ r.slot = call[c].slot
  BY <1>1 DEF CallType, PCs
<1> HIDE DEF r
<1>5. call' \in [Caller -> CallType] /\ call'[c] = r /\ Only(c)
  BY <1>1, <1>3, <1>4 DEF Calls, Only
<1>6. \A d \in Caller : Shape(call[d])'
  <2> SUFFICES ASSUME NEW d \in Caller PROVE Shape(call[d])'
    OBVIOUS
  <2>1. CASE d = c
    BY <1>1, <1>4, <1>5, <2>1 DEF Shape, Fits, OpenPCs, EndPCs, SendPCs
  <2>2. CASE d # c
    <3>1. call'[d] = call[d] /\ Shape(call[d])
      BY <1>1, <1>5, <2>2 DEF Calls, Only
    <3>2. QED
      BY <1>1, <3>1 DEF Shape, Fits
  <2>3. QED
    BY <2>1, <2>2
<1>7. Slots' = Slots /\ pending' = pending
  BY <1>4, <1>5 DEF Slots, Only, RestartForSend
<1>8. box' = box \/ (Live(s) /\ BoxStarts(s, <<>>))
  BY DEF RestartForSend
<1>9. box' \in Boxes
  <2>1. <<>> \in Seq(Nat)
    OBVIOUS
  <2>2. CASE box' = box
    BY <1>1, <2>2 DEF World
  <2>3. CASE BoxStarts(s, <<>>)
    BY <1>1, <2>1, <2>3, Begun DEF World
  <2>4. QED
    BY <1>8, <2>2, <2>3
<1>10. used' \in Used /\ used'["sends"] <= Bound["sends"] /\ used'["sends"] = used["sends"]
  BY <1>1, Spent DEF World, RestartForSend
<1>11. World'
  BY <1>1, <1>9, <1>10 DEF World, RestartForSend, rest
<1>12. /\ Free(call[c].s, "status")
      /\ UNCHANGED <<kind, row, transcript, lock, bridge, fails, adrift, crossed>>
  BY DEF RestartForSend, rest, world, history
<1>13. QED
  BY <1>12, <1>1, <1>4, <1>5, <1>6, <1>7, <1>8, <1>10, <1>11 DEF Typed, Calls, At, Went

LEMMA Stepped ==
    ASSUME bridge \in Bridges, NEW t \in Thread, NEW over \in BOOLEAN,
           NEW p \in {"none", "open", "restart", "wait", "stream", "frame", "exit"},
           bridge' = [bridge EXCEPT ![t] = [pc |-> p, over |-> over]]
    PROVE  /\ bridge' \in Bridges /\ bridge'[t].pc = p /\ bridge'[t].over = over
           /\ \A u \in Thread \ {t} : bridge'[u] = bridge[u]
  BY DEF Bridges

\* What a step of a consumer leaves alone, and where it may take the consumer.
Turned(t) ==
    /\ bridge[t].pc # "none"
    /\ \A u \in Thread \ {t} : bridge'[u] = bridge[u]
    /\ bridge'[t].over => bridge[t].over /\ bridge'[t].pc \in {"stream", "frame"}
    /\ bridge'[t].pc = "none" => bridge[t].pc = "exit"
    /\ bridge'[t].pc = "restart" /\ t \in Session => ~Chat(t)
    /\ bridge'[t].pc = "exit" /\ t \in Session =>
        \/ bridge[t].over /\ Chat(t)
        \/ bridge[t].pc = "restart" /\ ~Live(t)

LEMMA DoesConsumer ==
    ASSUME Typed, NEW t \in Thread, Consumer(t)
    PROVE  /\ Typed' /\ Turned(t)
           /\ UNCHANGED <<rest, row, transcript, lock, pending, call, fails>>
           /\ used'["sends"] = used["sends"]
           /\ \/ box' = box
              \/ /\ t \in Session /\ Live(t) /\ Free(t, "status") /\ bridge[t].pc = "restart"
                 /\ BoxStarts(t, <<>>)
<1>1. /\ bridge \in Bridges /\ World /\ kind' = kind /\ bridge[t].over \in BOOLEAN
      /\ t \notin Caller => t \in Session
      /\ UNCHANGED <<rest, row, transcript, lock, pending, call, fails>>
  BY DEF Typed, World, Bridges, Thread, Consumer, OpenStream, Retry, RestartBridge, Frame,
         FrameStored, StreamEnds, StreamBreaks, ExitBridge, BridgeUnchanged, rest
<1>2. NoBridge = [pc |-> "none", over |-> FALSE]
  BY DEF NoBridge
<1>3. /\ bridge' \in Bridges /\ Turned(t)
      /\ used' \in Used /\ used'["sends"] <= Bound["sends"] /\ used'["sends"] = used["sends"]
      /\ \/ box' = box
         \/ /\ t \in Session /\ Live(t) /\ Free(t, "status") /\ bridge[t].pc = "restart"
            /\ BoxStarts(t, <<>>)
  <2>1. CASE OpenStream(t)
    <3>1. used' = used /\ box' = box /\ bridge[t].pc = "open"
      BY <2>1 DEF OpenStream
    <3>2. PICK p \in {"exit", "wait", "stream"} :
            /\ bridge' = [bridge EXCEPT ![t] = [pc |-> p, over |-> FALSE]]
            /\ p = "exit" => t \in Caller
      BY <2>1 DEF OpenStream, Step, Cancelled
    <3>3. QED
      BY <1>1, <3>1, <3>2, Stepped, ChatAssumption DEF World, Turned
  <2>2. CASE Retry(t)
    <3>1. used' = used /\ box' = box /\ bridge[t].pc = "wait"
      BY <2>2 DEF Retry
    <3>2. PICK p \in {"exit", "open", "restart"} :
            /\ bridge' = [bridge EXCEPT ![t] = [pc |-> p, over |-> FALSE]]
            /\ p = "exit" => t \in Caller
            /\ p = "restart" => ~Chat(t)
      BY <2>2 DEF Retry, Step, Cancelled
    <3>3. QED
      BY <1>1, <3>1, <3>2, Stepped, ChatAssumption DEF World, Turned
  <2>3. CASE RestartBridge(t)
    <3>1. /\ used' = used /\ bridge[t].pc = "restart"
          /\ \/ box' = box
             \/ t \notin Caller /\ Live(t) /\ Free(SessionOf(t), "status") /\ BoxStarts(t, <<>>)
      BY <2>3 DEF RestartBridge, Cancelled
    <3>2. PICK p \in {"exit", "open"} :
            /\ bridge' = [bridge EXCEPT ![t] = [pc |-> p, over |-> FALSE]]
            /\ p = "exit" => t \in Caller \/ ~Live(t)
      BY <2>3 DEF RestartBridge, Step, Cancelled
    <3>3. bridge' \in Bridges /\ Turned(t)
      BY <1>1, <3>1, <3>2, Stepped, ChatAssumption DEF Turned
    <3>4. t \notin Caller => SessionOf(t) = t
      BY <1>1 DEF SessionOf
    <3>5. QED
      BY <1>1, <3>1, <3>3, <3>4 DEF World
  <2>4. CASE Frame(t)
    <3>1. /\ used' = used /\ box' = box /\ bridge[t].pc = "stream"
          /\ bridge' = [bridge EXCEPT ![t] = [pc |-> "frame", over |-> FALSE]]
      BY <2>4 DEF Frame, Step
    <3>2. QED
      BY <1>1, <3>1, Stepped DEF World, Turned
  <2>5. CASE FrameStored(t)
    <3>1. /\ used' = used /\ box' = box /\ bridge[t].pc = "frame"
          /\ bridge' = [bridge EXCEPT ![t] = [pc |-> "stream", over |-> bridge[t].over]]
      BY <2>5 DEF FrameStored, Step
    <3>2. QED
      BY <1>1, <3>1, Stepped DEF World, Turned
  <2>6. CASE StreamEnds(t)
    <3>1. /\ used' = used /\ box' = box /\ bridge[t].pc = "stream"
          /\ t \notin Caller => bridge[t].over
      BY <2>6 DEF StreamEnds, Cancelled
    <3>2. PICK p \in {"exit", "wait"} :
            /\ bridge' = [bridge EXCEPT ![t] = [pc |-> p, over |-> FALSE]]
            /\ p = "exit" => t \in Caller \/ Chat(t)
      BY <2>6 DEF StreamEnds, Step, Cancelled
    <3>3. QED
      BY <1>1, <3>1, <3>2, Stepped, ChatAssumption DEF World, Turned
  <2>7. CASE StreamBreaks(t)
    <3>1. /\ box' = box /\ bridge[t].pc = "stream" /\ Spend("faults")
          /\ bridge' = [bridge EXCEPT ![t] = [pc |-> "wait", over |-> FALSE]]
      BY <2>7 DEF StreamBreaks, Step
    <3>2. bridge' \in Bridges /\ Turned(t)
      BY <1>1, <3>1, Stepped DEF Turned
    <3>3. QED
      BY <1>1, <3>1, <3>2, Spent DEF World
  <2>8. CASE ExitBridge(t)
    <3>1. /\ used' = used /\ box' = box /\ bridge[t].pc = "exit"
          /\ bridge' = [bridge EXCEPT ![t] = [pc |-> "none", over |-> FALSE]]
      BY <1>2, <2>8 DEF ExitBridge
    <3>2. QED
      BY <1>1, <3>1, Stepped DEF World, Turned
  <2>9. QED
    BY <2>1, <2>2, <2>3, <2>4, <2>5, <2>6, <2>7, <2>8 DEF Consumer
<1>4. box' \in Boxes
  <2>1. CASE box' = box
    BY <1>1, <2>1 DEF World
  <2>2. CASE t \in Session /\ BoxStarts(t, <<>>)
    <3>1. <<>> \in Seq(Nat)
      OBVIOUS
    <3>2. QED
      BY <1>1, <2>2, <3>1, Begun DEF World
  <2>3. QED
    BY <1>3, <2>1, <2>2
<1>5. World'
  BY <1>1, <1>3, <1>4 DEF World, rest
<1>6. Calls' /\ Slots' = Slots /\ pending' = pending
  BY <1>1 DEF Typed, Calls, Shape, Fits, Slots, rest
<1>7. QED
  BY <1>1, <1>3, <1>5, <1>6 DEF Typed

LEMMA DoesMarkWarmIdle ==
    ASSUME Typed, NEW s \in Session, MarkWarmIdle(s)
    PROVE  /\ Typed' /\ used'["sends"] = used["sends"] /\ kind' = kind
           /\ row[s] = "active" /\ row' = [row EXCEPT ![s] = "warm"]
           /\ UNCHANGED <<kind, transcript, box, lock, bridge, call, adrift, crossed>>
<1>1. World /\ kind' = kind
  BY DEF Typed, MarkWarmIdle, rest
<1>2. used' \in Used /\ used'["sends"] <= Bound["sends"] /\ used'["sends"] = used["sends"]
  BY <1>1, Spent DEF World, MarkWarmIdle
<1>3. World'
  BY <1>1, <1>2 DEF World, MarkWarmIdle, rest
<1>4. Calls' /\ Slots' = Slots /\ pending' = pending
  BY <1>1 DEF Typed, Calls, Shape, Fits, Slots, MarkWarmIdle
<1>5. /\ row[s] = "active" /\ row' = [row EXCEPT ![s] = "warm"]
      /\ UNCHANGED <<kind, transcript, box, lock, bridge, call, adrift, crossed>>
  BY DEF MarkWarmIdle, rest, world, history
<1>6. QED
  BY <1>5, <1>1, <1>2, <1>3, <1>4 DEF Typed

LEMMA DoesWorkerExits ==
    ASSUME Typed, NEW s \in Session, WorkerExits(s)
    PROVE  /\ Typed' /\ used'["sends"] = used["sends"] /\ kind' = kind
           /\ BoxEnds(s)
           /\ UNCHANGED <<kind, row, transcript, lock, call, adrift, crossed>>
<1>1. World /\ kind' = kind
  BY DEF Typed, WorkerExits, rest
<1>2. used' \in Used /\ used'["sends"] <= Bound["sends"] /\ used'["sends"] = used["sends"]
  BY <1>1, Spent DEF World, WorkerExits
<1>3. box' \in Boxes /\ bridge' \in Bridges
  BY <1>1, Ended DEF World, WorkerExits
<1>4. World'
  BY <1>1, <1>2, <1>3 DEF World, WorkerExits, rest
<1>5. Calls' /\ Slots' = Slots /\ pending' = pending
  BY <1>1 DEF Typed, Calls, Shape, Fits, Slots, WorkerExits
<1>6. /\ BoxEnds(s)
      /\ UNCHANGED <<kind, row, transcript, lock, call, adrift, crossed>>
  BY DEF WorkerExits, rest, world, history
<1>7. QED
  BY <1>6, <1>1, <1>2, <1>4, <1>5 DEF Typed

LEMMA DoesRestart ==
    ASSUME Typed, Restart
    PROVE  /\ Typed' /\ used'["sends"] = used["sends"] /\ kind' = kind
           /\ \A c \in Caller : call'[c] = Idle
           /\ \A s \in Session, k \in {"status", "hub", "transcript"} : lock'[s][k] = "free"
           /\ \A s \in Session :
                IF Live(s) THEN /\ ~bridge'[s].over
                                /\ \/ bridge'[s].pc = "open"
                                   \/ bridge'[s].pc = "restart" /\ ~Chat(s)
                ELSE bridge'[s] = NoBridge
           /\ \A c \in Caller : bridge'[c] = NoBridge
           /\ adrift' = adrift \cup {s \in Session : box[s].up /\ ~Live(s)}
           /\ UNCHANGED <<kind, row, transcript, box, crossed>>
<1>1. World /\ kind' = kind
  BY DEF Typed, Restart
<1>2. used' \in Used /\ used'["sends"] <= Bound["sends"] /\ used'["sends"] = used["sends"]
  BY <1>1, Spent DEF World, Restart
<1>3. /\ \A c \in Caller : call'[c] = Idle
      /\ call' \in [Caller -> CallType] /\ Shape(Idle)
  BY IdleFits, ChatAssumption DEF Restart
<1>4. Calls'
  <2>1. \A c \in Caller : Shape(call[c])'
    BY <1>1, <1>3 DEF Shape, Fits
  <2>2. QED
    BY <1>3, <2>1 DEF Calls
<1>5. Slots' = {}
  BY <1>3 DEF Slots, Idle
<1>6. pending' = Cardinality(Slots')
  BY <1>5, FS_EmptySet DEF Restart
<1>7. /\ lock' \in Locks
      /\ \A s \in Session, k \in {"status", "hub", "transcript"} : lock'[s][k] = "free"
  BY <1>1 DEF World, Locks, Restart
<1>8. /\ \A s \in Session :
                IF Live(s) THEN /\ ~bridge'[s].over
                                /\ \/ bridge'[s].pc = "open"
                                   \/ bridge'[s].pc = "restart" /\ ~Chat(s)
                ELSE bridge'[s] = NoBridge
      /\ \A c \in Caller : bridge'[c] = NoBridge
  <2>1. Session \subseteq Thread /\ Caller \subseteq Thread
    BY DEF Thread
  <2>2. QED
    BY <2>1, ChatAssumption DEF Restart
<1>9. bridge' \in Bridges
  BY DEF Restart, Bridges, NoBridge
<1>10. fails' \in [Session -> 0..MaxSendFailures - 1]
  BY ChatAssumption DEF Restart
<1>11. World'
  BY <1>1, <1>2, <1>7, <1>9, <1>10 DEF World, Restart
<1>12. /\ adrift' = adrift \cup {s \in Session : box[s].up /\ ~Live(s)}
      /\ UNCHANGED <<kind, row, transcript, box, crossed>>
  BY DEF Restart, rest, world, history
<1>13. QED
  BY <1>12, <1>1, <1>2, <1>3, <1>4, <1>6, <1>7, <1>8, <1>11 DEF Typed

LEMMA TypedInit == Init => Typed
<1> SUFFICES ASSUME Init PROVE Typed
  OBVIOUS
<1>1. /\ call \in [Caller -> CallType] /\ Shape(Idle)
      /\ \A c \in Caller : call[c] = Idle
  BY IdleFits, ChatAssumption DEF Init
<1>2. Calls
  BY <1>1 DEF Calls
<1>3. pending = Cardinality(Slots)
  <2>1. Slots = {}
    BY <1>1 DEF Slots, Idle
  <2>2. QED
    BY <2>1, FS_EmptySet DEF Init
<1>4. box \in Boxes /\ bridge \in Bridges /\ lock \in Locks
  BY DEF Init, Boxes, Bridges, Locks, Down, NoBridge
<1>5. used \in Used /\ used["sends"] <= Bound["sends"]
  BY ChatAssumption DEF Init, Used
<1>6. /\ fails \in [Session -> 0..MaxSendFailures - 1]
      /\ transcript \in [Session -> Seq(Nat)]
      /\ row \in [Session -> {"absent", "cold", "active", "warm"}] /\ kind \in Kinds
  BY ChatAssumption DEF Init
<1>7. QED
  BY <1>2, <1>3, <1>4, <1>5, <1>6 DEF Typed, World

-----------------------------------------------------------------------------
(* What every step of a call leaves alone, but for those that are named.    *)

\* A step of a call.
Moves(c) == Begin(c) \/ Opens(c) \/ Bridge(c) \/ Ends(c) \/ Subscribes(c) \/ Sends(c)

\* The other calls stay where they are, or return from the open they share.
OthersKept(c) ==
    \A d \in Caller \ {c} :
        call'[d] = call[d] \/ (At(d, "joinOpen") /\ Back(d, {"arm", "reopened"}))
StatusKept(c) ==
    /\ call[c].pc # "cold" /\ call'[c].pc # "cold"
    /\ \A s \in Session : lock'[s]["status"] = lock[s]["status"]
HubKept(c) ==
    /\ \A s \in Session : lock'[s]["hub"] = lock[s]["hub"]
    /\ Subscribed(call[c]) => Subscribed(call'[c]) /\ call'[c].s = call[c].s
TranscriptKept(c) ==
    /\ \A s \in Session : lock'[s]["transcript"] \in {lock[s]["transcript"], "free"}
    /\ call[c].pc \in ArmedPCs =>
        \/ call'[c].pc \in ArmedPCs /\ call'[c].s = call[c].s
        \/ Chat(call[c].s)
        \/ lock'[call[c].s]["transcript"] # c
StarterKept(c) ==
    call'[c].pc \in {"restart", "relock"} =>
        ~Chat(call'[c].s) \/ (call[c].pc \in {"restart", "relock"} /\ call'[c].s = call[c].s)
FlightKept(c) == InFlight(c)' => InFlight(c) /\ call'[c].s = call[c].s
MessageKept(c) ==
    /\ call'[c].msg \in {call[c].msg, 0}
    /\ ForSend(call'[c]) => ForSend(call[c]) /\ call'[c].msg = call[c].msg
    /\ Unposted(call'[c]) => Unposted(call[c]) /\ call'[c].msg = call[c].msg
    /\ At(c, "append")' =>
        (Unposted(call[c]) \/ At(c, "append")) /\ call'[c].msg = call[c].msg

ClosesKept(c) == Closes(call'[c]) => Closes(call[c]) /\ call'[c].s = call[c].s
AttendsKept(c) == Attends(call[c]) => Attends(call'[c]) /\ call'[c].s = call[c].s

\* What a step of one of the three kinds keeps.
LEMMA BackKeeps ==
    ASSUME NEW c \in Caller, NEW P, Back(c, P), call[c].pc # "unhub",
           P \subseteq {"arm", "reopened", "reopen", "endfailed", "delstop", "unhub"}
    PROVE  /\ Subscribed(call[c]) => Subscribed(call'[c]) /\ call'[c].s = call[c].s
           /\ MessageKept(c)
<1>1. CASE Len(call[c].then) = 0
  BY <1>1 DEF Back, Subscribed, MessageKept, ForSend, Unposted, SendPCs, At
<1>2. CASE Len(call[c].then) = 1
  <2>1. /\ Len(call'[c].then) = 0 /\ call[c].then[1] \in P
        /\ call'[c].pc = call[c].then[1]
        /\ call'[c].s = call[c].s /\ call'[c].msg = call[c].msg
    BY <1>2 DEF Back
  <2>2. QED
    BY <1>2, <2>1 DEF Subscribed, MessageKept, ForSend, Unposted, SendPCs, At
<1>3. QED
  BY <1>1, <1>2 DEF Back

LEMMA WentKeeps ==
    ASSUME NEW c \in Caller, NEW p, Went(c, p), call[c].pc # "unhub"
    PROVE  Subscribed(call[c]) => Subscribed(call'[c]) /\ call'[c].s = call[c].s
  BY DEF Went, Subscribed

LEMMA PushedKeeps ==
    ASSUME NEW c \in Caller, NEW p, NEW t, Pushed(c, p, t), call[c].pc # "unhub"
    PROVE  Subscribed(call[c]) => Subscribed(call'[c]) /\ call'[c].s = call[c].s
<1>1. CASE Len(call[c].then) = 0
  BY <1>1 DEF Pushed, Subscribed
<1>2. CASE Len(call[c].then) = 1
  BY <1>2 DEF Pushed, Subscribed
<1>3. QED
  BY <1>1, <1>2 DEF Pushed

LEMMA TakenOrLeft ==
    ASSUME Typed, NEW s \in Session, NEW c \in Caller,
           NEW k \in {"status", "hub", "transcript"}, Take(c, s, k) \/ Leave(s, k)
    PROVE  /\ \A z \in Session, j \in {"status", "hub", "transcript"} \ {k} :
                lock'[z][j] = lock[z][j]
           /\ Leave(s, k) => /\ lock'[s][k] = "free"
                             /\ \A z \in Session : lock'[z][k] \in {lock[z][k], "free"}
<1>1. lock \in Locks
  BY DEF Typed, World
<1>2. CASE Take(c, s, k) /\ ~Leave(s, k)
  BY <1>1, <1>2, Taken
<1>3. CASE Leave(s, k)
  BY <1>1, <1>3, Left
<1>4. QED
  BY <1>2, <1>3

LEMMA TranscriptLeft ==
    ASSUME Typed, NEW c \in Caller, call[c].s \in Session, LeaveTranscript(c)
    PROVE  /\ \A z \in Session : /\ lock'[z]["status"] = lock[z]["status"]
                                 /\ lock'[z]["hub"] = lock[z]["hub"]
                                 /\ lock'[z]["transcript"] \in {lock[z]["transcript"], "free"}
           /\ lock'[call[c].s]["transcript"] # c
<1>1. lock \in Locks
  BY DEF Typed, World
<1>2. QED
  BY <1>1, LeftTranscript, ChatAssumption

LEMMA OthersStay ==
    ASSUME Typed, NEW c \in Caller, Moves(c)
    PROVE  Typed' /\ kind' = kind /\ OthersKept(c)
<1>1. CASE Begin(c)
  BY <1>1, DoesBegin, Standing DEF At, OthersKept, Only, Joins
<1>2. CASE Open(c)
  BY <1>2, DoesOpen DEF Back, Went, At, OthersKept, Only, Joins
<1>3. CASE Rewarm(c)
  BY <1>3, DoesRewarm DEF Back, Went, At, OthersKept, Only, Joins
<1>4. CASE Reserve(c)
  BY <1>4, DoesReserve DEF Landing, Back, Went, At, OthersKept, Only, Joins
<1>5. CASE Start(c)
  BY <1>5, DoesStart DEF Went, At, OthersKept, Only, Joins
<1>6. CASE StartFails(c)
  BY <1>6, DoesStartFails DEF Landing, Back, At, OthersKept, Only, Joins
<1>7. CASE Persist(c)
  BY <1>7, DoesPersist DEF Landing, Back, Went, At, OthersKept, Only, Joins
<1>8. CASE PersistFails(c)
  BY <1>8, DoesPersistFails DEF Landing, Back, At, OthersKept, Only, Joins
<1>9. CASE Opened(c)
  BY <1>9, DoesOpened DEF Landing, Back, At, OthersKept, Only, Joins
<1>10. CASE Bridge(c)
  BY <1>10, DoesBridge DEF Back, At, OthersKept, Only, Joins
<1>11. CASE End(c)
  BY <1>11, DoesEnd DEF Back, Pushed, At, OthersKept, Only, Joins
<1>12. CASE Join(c)
  BY <1>12, DoesJoin DEF At, OthersKept, Only, Joins
<1>13. CASE Kill(c)
  BY <1>13, DoesKill DEF Went, At, OthersKept, Only, Joins
<1>14. CASE Cold(c)
  BY <1>14, DoesCold DEF Back, Went, At, OthersKept, Only, Joins
<1>15. CASE Quieten(c)
  BY <1>15, DoesQuieten DEF Back, At, OthersKept, Only, Joins
<1>16. CASE Delete(c)
  BY <1>16, DoesDelete DEF Back, Went, Pushed, At, OthersKept, Only, Joins
<1>17. CASE DeleteStop(c)
  BY <1>17, DoesDeleteStop DEF Pushed, At, OthersKept, Only, Joins
<1>18. CASE DeleteRow(c)
  BY <1>18, DoesDeleteRow DEF Back, Went, At, OthersKept, Only, Joins
<1>19. CASE Drop(c)
  BY <1>19, DoesDrop DEF Back, At, OthersKept, Only, Joins
<1>20. CASE Subscribe(c)
  BY <1>20, DoesSubscribe DEF Pushed, At, OthersKept, Only, Joins
<1>21. CASE Attach(c)
  BY <1>21, DoesAttach DEF Back, Went, At, OthersKept, Only, Joins
<1>22. CASE Reread(c)
  BY <1>22, DoesReread DEF Back, Went, Pushed, At, OthersKept, Only, Joins
<1>23. CASE Promote(c)
  BY <1>23, DoesPromote DEF Back, At, OthersKept, Only, Joins
<1>24. CASE Unhub(c)
  BY <1>24, DoesUnhub DEF Back, At, OthersKept, Only, Joins
<1>25. CASE Send(c)
  BY <1>25, DoesSend DEF Back, Went, Pushed, At, OthersKept, Only, Joins
<1>26. CASE Arm(c)
  BY <1>26, DoesArm DEF Back, Went, At, OthersKept, Only, Joins
<1>27. CASE Post(c)
  BY <1>27, DoesPost DEF Went, At, OthersKept, Only, Joins
<1>28. CASE PostUnreached(c)
  BY <1>28, DoesPostUnreached DEF Went, At, OthersKept, Only, Joins
<1>29. CASE PostUnknown(c)
  BY <1>29, DoesPostUnknown DEF Went, Pushed, At, OthersKept, Only, Joins
<1>30. CASE Reopen(c)
  BY <1>30, DoesReopen DEF Went, Pushed, At, OthersKept, Only, Joins
<1>31. CASE RestartForSend(c)
  BY <1>31, DoesRestartForSend DEF Went, At, OthersKept, Only, Joins
<1>32. CASE Relock(c)
  BY <1>32, DoesRelock DEF Went, At, OthersKept, Only, Joins
<1>33. CASE Failed(c)
  BY <1>33, DoesFailed DEF Back, Pushed, At, OthersKept, Only, Joins
<1>34. CASE EndFailed(c)
  BY <1>34, DoesEndFailed DEF Back, At, OthersKept, Only, Joins
<1>35. CASE AppendRow(c)
  BY <1>35, DoesAppendRow DEF Back, Went, At, OthersKept, Only, Joins
<1>36. CASE Publish(c)
  BY <1>36, DoesPublish DEF Back, At, OthersKept, Only, Joins
<1>37. QED
  BY <1>1, <1>2, <1>3, <1>4, <1>5, <1>6, <1>7, <1>8, <1>9, <1>10, <1>11, <1>12, <1>13, <1>14,
     <1>15, <1>16, <1>17, <1>18, <1>19, <1>20, <1>21, <1>22, <1>23, <1>24, <1>25, <1>26, <1>27,
     <1>28, <1>29, <1>30, <1>31, <1>32, <1>33, <1>34, <1>35, <1>36 DEF Moves, Opens, Ends,
     Subscribes, Sends

LEMMA StatusSteps ==
    ASSUME Typed, NEW c \in Caller, Moves(c)
    PROVE  Kill(c) \/ Cold(c) \/ StatusKept(c)
<1>1. CASE Begin(c)
  BY <1>1, DoesBegin, Standing DEF At, StatusKept
<1>2. CASE Open(c)
  BY <1>2, DoesOpen DEF Back, Went, At, StatusKept
<1>3. CASE Rewarm(c)
  BY <1>3, DoesRewarm DEF Back, Went, At, StatusKept
<1>4. CASE Reserve(c)
  BY <1>4, DoesReserve DEF Landing, Back, Went, At, StatusKept
<1>5. CASE Start(c)
  BY <1>5, DoesStart DEF Went, At, StatusKept
<1>6. CASE StartFails(c)
  BY <1>6, DoesStartFails DEF Landing, Back, At, StatusKept
<1>7. CASE Persist(c)
  BY <1>7, DoesPersist DEF Landing, Back, Went, At, StatusKept
<1>8. CASE PersistFails(c)
  BY <1>8, DoesPersistFails DEF Landing, Back, At, StatusKept
<1>9. CASE Opened(c)
  BY <1>9, DoesOpened DEF Landing, Back, At, StatusKept
<1>10. CASE Bridge(c)
  BY <1>10, DoesBridge DEF Back, At, StatusKept
<1>11. CASE End(c)
  BY <1>11, DoesEnd DEF Back, Pushed, At, StatusKept
<1>12. CASE Join(c)
  BY <1>12, DoesJoin DEF At, StatusKept
<1>13. CASE Kill(c)
  BY <1>13
<1>14. CASE Cold(c)
  BY <1>14
<1>15. CASE Quieten(c)
  BY <1>15, DoesQuieten DEF Back, At, StatusKept
<1>16. CASE Delete(c)
  BY <1>16, DoesDelete DEF Back, Went, Pushed, At, StatusKept
<1>17. CASE DeleteStop(c)
  BY <1>17, DoesDeleteStop DEF Pushed, At, StatusKept
<1>18. CASE DeleteRow(c)
  BY <1>18, DoesDeleteRow DEF Back, Went, At, StatusKept
<1>19. CASE Drop(c)
  BY <1>19, DoesDrop DEF Back, At, StatusKept
<1>20. CASE Subscribe(c)
  BY <1>20, DoesSubscribe, TakenOrLeft DEF Pushed, At, StatusKept
<1>21. CASE Attach(c)
  BY <1>21, DoesAttach DEF Back, Went, At, StatusKept
<1>22. CASE Reread(c)
  BY <1>22, DoesReread DEF Back, Went, Pushed, At, StatusKept
<1>23. CASE Promote(c)
  BY <1>23, DoesPromote DEF Back, At, StatusKept
<1>24. CASE Unhub(c)
  BY <1>24, DoesUnhub, TakenOrLeft DEF Back, At, StatusKept
<1>25. CASE Send(c)
  BY <1>25, DoesSend DEF Back, Went, Pushed, At, StatusKept
<1>26. CASE Arm(c)
  BY <1>26, DoesArm, TakenOrLeft DEF Back, Went, At, StatusKept
<1>27. CASE Post(c)
  BY <1>27, DoesPost DEF Went, At, StatusKept
<1>28. CASE PostUnreached(c)
  BY <1>28, DoesPostUnreached DEF Went, At, StatusKept
<1>29. CASE PostUnknown(c)
  BY <1>29, DoesPostUnknown, TakenOrLeft, ChatAssumption DEF Went, Pushed, At, StatusKept
<1>30. CASE Reopen(c)
  BY <1>30, DoesReopen DEF Went, Pushed, At, StatusKept
<1>31. CASE RestartForSend(c)
  BY <1>31, DoesRestartForSend DEF Went, At, StatusKept
<1>32. CASE Relock(c)
  BY <1>32, DoesRelock, TakenOrLeft DEF Went, At, StatusKept
<1>33. CASE Failed(c)
  BY <1>33, DoesFailed, TranscriptLeft DEF Back, Pushed, At, StatusKept
<1>34. CASE EndFailed(c)
  BY <1>34, DoesEndFailed, TranscriptLeft DEF Back, At, StatusKept
<1>35. CASE AppendRow(c)
  BY <1>35, DoesAppendRow, TranscriptLeft DEF Back, Went, At, StatusKept
<1>36. CASE Publish(c)
  BY <1>36, DoesPublish, TranscriptLeft DEF Back, At, StatusKept
<1>37. QED
  BY <1>1, <1>2, <1>3, <1>4, <1>5, <1>6, <1>7, <1>8, <1>9, <1>10, <1>11, <1>12, <1>13, <1>14,
     <1>15, <1>16, <1>17, <1>18, <1>19, <1>20, <1>21, <1>22, <1>23, <1>24, <1>25, <1>26, <1>27,
     <1>28, <1>29, <1>30, <1>31, <1>32, <1>33, <1>34, <1>35, <1>36 DEF Moves, Opens, Ends,
     Subscribes, Sends

LEMMA HubSteps ==
    ASSUME Typed, NEW c \in Caller, Moves(c)
    PROVE  Subscribe(c) \/ Unhub(c) \/ HubKept(c)
<1>1. CASE Begin(c)
  BY <1>1, DoesBegin, Standing DEF Subscribed, At, HubKept
<1>2. CASE Open(c)
  BY <1>2, DoesOpen, BackKeeps, WentKeeps DEF At, HubKept
<1>3. CASE Rewarm(c)
  BY <1>3, DoesRewarm, BackKeeps, WentKeeps DEF At, HubKept
<1>4. CASE Reserve(c)
  BY <1>4, DoesReserve, BackKeeps, WentKeeps DEF Landing, At, HubKept
<1>5. CASE Start(c)
  BY <1>5, DoesStart, WentKeeps DEF At, HubKept
<1>6. CASE StartFails(c)
  BY <1>6, DoesStartFails, BackKeeps DEF Landing, At, HubKept
<1>7. CASE Persist(c)
  BY <1>7, DoesPersist, BackKeeps, WentKeeps DEF Landing, At, HubKept
<1>8. CASE PersistFails(c)
  BY <1>8, DoesPersistFails, BackKeeps DEF Landing, At, HubKept
<1>9. CASE Opened(c)
  BY <1>9, DoesOpened, BackKeeps DEF Landing, At, HubKept
<1>10. CASE Bridge(c)
  <2>1. CASE Back(c, {"arm", "reopened", "unhub"})
    BY <1>10, <2>1, DoesBridge, BackKeeps DEF At, HubKept
  <2>2. CASE ~Back(c, {"arm", "reopened", "unhub"})
    <3>1. /\ lock' = lock /\ Len(call'[c].then) = 1 /\ call'[c].then[1] = "unhub"
          /\ call'[c].s = call[c].s
      BY <1>10, <2>2, DoesBridge
    <3>2. QED
      BY <3>1 DEF HubKept, Subscribed
  <2>3. QED
    BY <2>1, <2>2
<1>11. CASE End(c)
  BY <1>11, DoesEnd, BackKeeps, PushedKeeps DEF At, HubKept
<1>12. CASE Join(c)
  BY <1>12, DoesJoin DEF Subscribed, At, HubKept
<1>13. CASE Kill(c)
  BY <1>13, DoesKill, TakenOrLeft, WentKeeps DEF At, HubKept
<1>14. CASE Cold(c)
  BY <1>14, DoesCold, TakenOrLeft, BackKeeps, WentKeeps DEF At, HubKept
<1>15. CASE Quieten(c)
  BY <1>15, DoesQuieten, BackKeeps DEF At, HubKept
<1>16. CASE Delete(c)
  BY <1>16, DoesDelete, BackKeeps, WentKeeps, PushedKeeps DEF At, HubKept
<1>17. CASE DeleteStop(c)
  BY <1>17, DoesDeleteStop, PushedKeeps DEF At, HubKept
<1>18. CASE DeleteRow(c)
  BY <1>18, DoesDeleteRow, BackKeeps, WentKeeps DEF At, HubKept
<1>19. CASE Drop(c)
  BY <1>19, DoesDrop, BackKeeps DEF At, HubKept
<1>20. CASE Subscribe(c)
  BY <1>20
<1>21. CASE Attach(c)
  BY <1>21, DoesAttach, BackKeeps, WentKeeps DEF At, HubKept
<1>22. CASE Reread(c)
  BY <1>22, DoesReread, BackKeeps, WentKeeps, PushedKeeps DEF At, HubKept
<1>23. CASE Promote(c)
  BY <1>23, DoesPromote, BackKeeps DEF At, HubKept
<1>24. CASE Unhub(c)
  BY <1>24
<1>25. CASE Send(c)
  BY <1>25, DoesSend, BackKeeps, WentKeeps, PushedKeeps DEF At, HubKept
<1>26. CASE Arm(c)
  BY <1>26, DoesArm, TakenOrLeft, BackKeeps, WentKeeps DEF At, HubKept
<1>27. CASE Post(c)
  BY <1>27, DoesPost, WentKeeps DEF At, HubKept
<1>28. CASE PostUnreached(c)
  BY <1>28, DoesPostUnreached, WentKeeps DEF At, HubKept
<1>29. CASE PostUnknown(c)
  BY <1>29, DoesPostUnknown, TakenOrLeft, ChatAssumption, WentKeeps, PushedKeeps DEF At, HubKept
<1>30. CASE Reopen(c)
  BY <1>30, DoesReopen, WentKeeps, PushedKeeps DEF At, HubKept
<1>31. CASE RestartForSend(c)
  BY <1>31, DoesRestartForSend, WentKeeps DEF At, HubKept
<1>32. CASE Relock(c)
  BY <1>32, DoesRelock, TakenOrLeft, WentKeeps DEF At, HubKept
<1>33. CASE Failed(c)
  BY <1>33, DoesFailed, TranscriptLeft, BackKeeps, PushedKeeps DEF At, HubKept
<1>34. CASE EndFailed(c)
  BY <1>34, DoesEndFailed, TranscriptLeft, BackKeeps DEF At, HubKept
<1>35. CASE AppendRow(c)
  BY <1>35, DoesAppendRow, TranscriptLeft, BackKeeps, WentKeeps DEF At, HubKept
<1>36. CASE Publish(c)
  BY <1>36, DoesPublish, TranscriptLeft, BackKeeps DEF At, HubKept
<1>37. QED
  BY <1>1, <1>2, <1>3, <1>4, <1>5, <1>6, <1>7, <1>8, <1>9, <1>10, <1>11, <1>12, <1>13, <1>14,
     <1>15, <1>16, <1>17, <1>18, <1>19, <1>20, <1>21, <1>22, <1>23, <1>24, <1>25, <1>26, <1>27,
     <1>28, <1>29, <1>30, <1>31, <1>32, <1>33, <1>34, <1>35, <1>36 DEF Moves, Opens, Ends,
     Subscribes, Sends

LEMMA TranscriptSteps ==
    ASSUME Typed, NEW c \in Caller, Moves(c)
    PROVE  Arm(c) \/ Relock(c) \/ TranscriptKept(c)
<1>1. CASE Begin(c)
  BY <1>1, DoesBegin, Standing DEF At, TranscriptKept, ArmedPCs
<1>2. CASE Open(c)
  BY <1>2, DoesOpen DEF Back, Went, At, TranscriptKept, ArmedPCs
<1>3. CASE Rewarm(c)
  BY <1>3, DoesRewarm DEF Back, Went, At, TranscriptKept, ArmedPCs
<1>4. CASE Reserve(c)
  BY <1>4, DoesReserve DEF Landing, Back, Went, At, TranscriptKept, ArmedPCs
<1>5. CASE Start(c)
  BY <1>5, DoesStart DEF Went, At, TranscriptKept, ArmedPCs
<1>6. CASE StartFails(c)
  BY <1>6, DoesStartFails DEF Landing, Back, At, TranscriptKept, ArmedPCs
<1>7. CASE Persist(c)
  BY <1>7, DoesPersist DEF Landing, Back, Went, At, TranscriptKept, ArmedPCs
<1>8. CASE PersistFails(c)
  BY <1>8, DoesPersistFails DEF Landing, Back, At, TranscriptKept, ArmedPCs
<1>9. CASE Opened(c)
  BY <1>9, DoesOpened DEF Landing, Back, At, TranscriptKept, ArmedPCs
<1>10. CASE Bridge(c)
  BY <1>10, DoesBridge DEF Back, At, TranscriptKept, ArmedPCs
<1>11. CASE End(c)
  BY <1>11, DoesEnd DEF Back, Pushed, At, TranscriptKept, ArmedPCs
<1>12. CASE Join(c)
  BY <1>12, DoesJoin DEF At, TranscriptKept, ArmedPCs
<1>13. CASE Kill(c)
  BY <1>13, DoesKill, TakenOrLeft DEF Went, At, TranscriptKept, ArmedPCs
<1>14. CASE Cold(c)
  BY <1>14, DoesCold, TakenOrLeft DEF Back, Went, At, TranscriptKept, ArmedPCs
<1>15. CASE Quieten(c)
  BY <1>15, DoesQuieten DEF Back, At, TranscriptKept, ArmedPCs
<1>16. CASE Delete(c)
  BY <1>16, DoesDelete DEF Back, Went, Pushed, At, TranscriptKept, ArmedPCs
<1>17. CASE DeleteStop(c)
  BY <1>17, DoesDeleteStop DEF Pushed, At, TranscriptKept, ArmedPCs
<1>18. CASE DeleteRow(c)
  BY <1>18, DoesDeleteRow DEF Back, Went, At, TranscriptKept, ArmedPCs
<1>19. CASE Drop(c)
  BY <1>19, DoesDrop DEF Back, At, TranscriptKept, ArmedPCs
<1>20. CASE Subscribe(c)
  BY <1>20, DoesSubscribe, TakenOrLeft DEF Pushed, At, TranscriptKept, ArmedPCs
<1>21. CASE Attach(c)
  BY <1>21, DoesAttach DEF Back, Went, At, TranscriptKept, ArmedPCs
<1>22. CASE Reread(c)
  BY <1>22, DoesReread DEF Back, Went, Pushed, At, TranscriptKept, ArmedPCs
<1>23. CASE Promote(c)
  BY <1>23, DoesPromote DEF Back, At, TranscriptKept, ArmedPCs
<1>24. CASE Unhub(c)
  BY <1>24, DoesUnhub, TakenOrLeft DEF Back, At, TranscriptKept, ArmedPCs
<1>25. CASE Send(c)
  BY <1>25, DoesSend DEF Back, Went, Pushed, At, TranscriptKept, ArmedPCs
<1>26. CASE Arm(c)
  BY <1>26
<1>27. CASE Post(c)
  BY <1>27, DoesPost DEF Went, At, TranscriptKept, ArmedPCs
<1>28. CASE PostUnreached(c)
  BY <1>28, DoesPostUnreached DEF Went, At, TranscriptKept, ArmedPCs
<1>29. CASE PostUnknown(c)
  BY <1>29, DoesPostUnknown, TakenOrLeft, ChatAssumption DEF Went, Pushed, At, TranscriptKept,
     ArmedPCs
<1>30. CASE Reopen(c)
  BY <1>30, DoesReopen DEF Went, Pushed, At, TranscriptKept, ArmedPCs
<1>31. CASE RestartForSend(c)
  BY <1>31, DoesRestartForSend DEF Went, At, TranscriptKept, ArmedPCs
<1>32. CASE Relock(c)
  BY <1>32
<1>33. CASE Failed(c)
  BY <1>33, DoesFailed, TranscriptLeft DEF Back, Pushed, At, TranscriptKept, ArmedPCs
<1>34. CASE EndFailed(c)
  BY <1>34, DoesEndFailed, TranscriptLeft DEF Back, At, TranscriptKept, ArmedPCs
<1>35. CASE AppendRow(c)
  BY <1>35, DoesAppendRow, TranscriptLeft DEF Back, Went, At, TranscriptKept, ArmedPCs
<1>36. CASE Publish(c)
  BY <1>36, DoesPublish, TranscriptLeft DEF Back, At, TranscriptKept, ArmedPCs
<1>37. QED
  BY <1>1, <1>2, <1>3, <1>4, <1>5, <1>6, <1>7, <1>8, <1>9, <1>10, <1>11, <1>12, <1>13, <1>14,
     <1>15, <1>16, <1>17, <1>18, <1>19, <1>20, <1>21, <1>22, <1>23, <1>24, <1>25, <1>26, <1>27,
     <1>28, <1>29, <1>30, <1>31, <1>32, <1>33, <1>34, <1>35, <1>36 DEF Moves, Opens, Ends,
     Subscribes, Sends

LEMMA StarterSteps ==
    ASSUME Typed, NEW c \in Caller, Moves(c)
    PROVE  StarterKept(c)
<1>1. CASE Begin(c)
  BY <1>1, DoesBegin, Standing DEF At, StarterKept
<1>2. CASE Open(c)
  BY <1>2, DoesOpen DEF Back, Went, At, StarterKept
<1>3. CASE Rewarm(c)
  BY <1>3, DoesRewarm DEF Back, Went, At, StarterKept
<1>4. CASE Reserve(c)
  BY <1>4, DoesReserve DEF Landing, Back, Went, At, StarterKept
<1>5. CASE Start(c)
  BY <1>5, DoesStart DEF Went, At, StarterKept
<1>6. CASE StartFails(c)
  BY <1>6, DoesStartFails DEF Landing, Back, At, StarterKept
<1>7. CASE Persist(c)
  BY <1>7, DoesPersist DEF Landing, Back, Went, At, StarterKept
<1>8. CASE PersistFails(c)
  BY <1>8, DoesPersistFails DEF Landing, Back, At, StarterKept
<1>9. CASE Opened(c)
  BY <1>9, DoesOpened DEF Landing, Back, At, StarterKept
<1>10. CASE Bridge(c)
  BY <1>10, DoesBridge DEF Back, At, StarterKept
<1>11. CASE End(c)
  BY <1>11, DoesEnd DEF Back, Pushed, At, StarterKept
<1>12. CASE Join(c)
  BY <1>12, DoesJoin DEF At, StarterKept
<1>13. CASE Kill(c)
  BY <1>13, DoesKill DEF Went, At, StarterKept
<1>14. CASE Cold(c)
  BY <1>14, DoesCold DEF Back, Went, At, StarterKept
<1>15. CASE Quieten(c)
  BY <1>15, DoesQuieten DEF Back, At, StarterKept
<1>16. CASE Delete(c)
  BY <1>16, DoesDelete DEF Back, Went, Pushed, At, StarterKept
<1>17. CASE DeleteStop(c)
  BY <1>17, DoesDeleteStop DEF Pushed, At, StarterKept
<1>18. CASE DeleteRow(c)
  BY <1>18, DoesDeleteRow DEF Back, Went, At, StarterKept
<1>19. CASE Drop(c)
  BY <1>19, DoesDrop DEF Back, At, StarterKept
<1>20. CASE Subscribe(c)
  BY <1>20, DoesSubscribe DEF Pushed, At, StarterKept
<1>21. CASE Attach(c)
  BY <1>21, DoesAttach DEF Back, Went, At, StarterKept
<1>22. CASE Reread(c)
  BY <1>22, DoesReread DEF Back, Went, Pushed, At, StarterKept
<1>23. CASE Promote(c)
  BY <1>23, DoesPromote DEF Back, At, StarterKept
<1>24. CASE Unhub(c)
  BY <1>24, DoesUnhub DEF Back, At, StarterKept
<1>25. CASE Send(c)
  BY <1>25, DoesSend DEF Back, Went, Pushed, At, StarterKept
<1>26. CASE Arm(c)
  BY <1>26, DoesArm DEF Back, Went, At, StarterKept
<1>27. CASE Post(c)
  BY <1>27, DoesPost DEF Went, At, StarterKept
<1>28. CASE PostUnreached(c)
  BY <1>28, DoesPostUnreached DEF Went, At, StarterKept
<1>29. CASE PostUnknown(c)
  BY <1>29, DoesPostUnknown DEF Went, Pushed, At, StarterKept
<1>30. CASE Reopen(c)
  BY <1>30, DoesReopen DEF Went, Pushed, At, StarterKept
<1>31. CASE RestartForSend(c)
  BY <1>31, DoesRestartForSend DEF Went, At, StarterKept
<1>32. CASE Relock(c)
  BY <1>32, DoesRelock DEF Went, At, StarterKept
<1>33. CASE Failed(c)
  BY <1>33, DoesFailed DEF Back, Pushed, At, StarterKept
<1>34. CASE EndFailed(c)
  BY <1>34, DoesEndFailed DEF Back, At, StarterKept
<1>35. CASE AppendRow(c)
  BY <1>35, DoesAppendRow DEF Back, Went, At, StarterKept
<1>36. CASE Publish(c)
  BY <1>36, DoesPublish DEF Back, At, StarterKept
<1>37. QED
  BY <1>1, <1>2, <1>3, <1>4, <1>5, <1>6, <1>7, <1>8, <1>9, <1>10, <1>11, <1>12, <1>13, <1>14,
     <1>15, <1>16, <1>17, <1>18, <1>19, <1>20, <1>21, <1>22, <1>23, <1>24, <1>25, <1>26, <1>27,
     <1>28, <1>29, <1>30, <1>31, <1>32, <1>33, <1>34, <1>35, <1>36 DEF Moves, Opens, Ends,
     Subscribes, Sends

LEMMA FlightSteps ==
    ASSUME Typed, NEW c \in Caller, Moves(c)
    PROVE  Open(c) \/ FlightKept(c)
<1>1. CASE Begin(c)
  BY <1>1, DoesBegin, Standing DEF At, FlightKept, InFlight, FlightPCs
<1>2. CASE Open(c)
  BY <1>2
<1>3. CASE Rewarm(c)
  BY <1>3, DoesRewarm DEF Back, Went, At, FlightKept, InFlight, FlightPCs
<1>4. CASE Reserve(c)
  BY <1>4, DoesReserve DEF Landing, Back, Went, At, FlightKept, InFlight, FlightPCs
<1>5. CASE Start(c)
  BY <1>5, DoesStart DEF Went, At, FlightKept, InFlight, FlightPCs
<1>6. CASE StartFails(c)
  BY <1>6, DoesStartFails DEF Landing, Back, At, FlightKept, InFlight, FlightPCs
<1>7. CASE Persist(c)
  BY <1>7, DoesPersist DEF Landing, Back, Went, At, FlightKept, InFlight, FlightPCs
<1>8. CASE PersistFails(c)
  BY <1>8, DoesPersistFails DEF Landing, Back, At, FlightKept, InFlight, FlightPCs
<1>9. CASE Opened(c)
  BY <1>9, DoesOpened DEF Landing, Back, At, FlightKept, InFlight, FlightPCs
<1>10. CASE Bridge(c)
  BY <1>10, DoesBridge DEF Back, At, FlightKept, InFlight, FlightPCs
<1>11. CASE End(c)
  BY <1>11, DoesEnd DEF Back, Pushed, At, FlightKept, InFlight, FlightPCs
<1>12. CASE Join(c)
  BY <1>12, DoesJoin DEF At, FlightKept, InFlight, FlightPCs
<1>13. CASE Kill(c)
  BY <1>13, DoesKill DEF Went, At, FlightKept, InFlight, FlightPCs
<1>14. CASE Cold(c)
  BY <1>14, DoesCold DEF Back, Went, At, FlightKept, InFlight, FlightPCs
<1>15. CASE Quieten(c)
  BY <1>15, DoesQuieten DEF Back, At, FlightKept, InFlight, FlightPCs
<1>16. CASE Delete(c)
  BY <1>16, DoesDelete DEF Back, Went, Pushed, At, FlightKept, InFlight, FlightPCs
<1>17. CASE DeleteStop(c)
  BY <1>17, DoesDeleteStop DEF Pushed, At, FlightKept, InFlight, FlightPCs
<1>18. CASE DeleteRow(c)
  BY <1>18, DoesDeleteRow DEF Back, Went, At, FlightKept, InFlight, FlightPCs
<1>19. CASE Drop(c)
  BY <1>19, DoesDrop DEF Back, At, FlightKept, InFlight, FlightPCs
<1>20. CASE Subscribe(c)
  BY <1>20, DoesSubscribe DEF Pushed, At, FlightKept, InFlight, FlightPCs
<1>21. CASE Attach(c)
  BY <1>21, DoesAttach DEF Back, Went, At, FlightKept, InFlight, FlightPCs
<1>22. CASE Reread(c)
  BY <1>22, DoesReread DEF Back, Went, Pushed, At, FlightKept, InFlight, FlightPCs
<1>23. CASE Promote(c)
  BY <1>23, DoesPromote DEF Back, At, FlightKept, InFlight, FlightPCs
<1>24. CASE Unhub(c)
  BY <1>24, DoesUnhub DEF Back, At, FlightKept, InFlight, FlightPCs
<1>25. CASE Send(c)
  BY <1>25, DoesSend DEF Back, Went, Pushed, At, FlightKept, InFlight, FlightPCs
<1>26. CASE Arm(c)
  BY <1>26, DoesArm DEF Back, Went, At, FlightKept, InFlight, FlightPCs
<1>27. CASE Post(c)
  BY <1>27, DoesPost DEF Went, At, FlightKept, InFlight, FlightPCs
<1>28. CASE PostUnreached(c)
  BY <1>28, DoesPostUnreached DEF Went, At, FlightKept, InFlight, FlightPCs
<1>29. CASE PostUnknown(c)
  BY <1>29, DoesPostUnknown DEF Went, Pushed, At, FlightKept, InFlight, FlightPCs
<1>30. CASE Reopen(c)
  BY <1>30, DoesReopen DEF Went, Pushed, At, FlightKept, InFlight, FlightPCs
<1>31. CASE RestartForSend(c)
  BY <1>31, DoesRestartForSend DEF Went, At, FlightKept, InFlight, FlightPCs
<1>32. CASE Relock(c)
  BY <1>32, DoesRelock DEF Went, At, FlightKept, InFlight, FlightPCs
<1>33. CASE Failed(c)
  BY <1>33, DoesFailed DEF Back, Pushed, At, FlightKept, InFlight, FlightPCs
<1>34. CASE EndFailed(c)
  BY <1>34, DoesEndFailed DEF Back, At, FlightKept, InFlight, FlightPCs
<1>35. CASE AppendRow(c)
  BY <1>35, DoesAppendRow DEF Back, Went, At, FlightKept, InFlight, FlightPCs
<1>36. CASE Publish(c)
  BY <1>36, DoesPublish DEF Back, At, FlightKept, InFlight, FlightPCs
<1>37. QED
  BY <1>1, <1>2, <1>3, <1>4, <1>5, <1>6, <1>7, <1>8, <1>9, <1>10, <1>11, <1>12, <1>13, <1>14,
     <1>15, <1>16, <1>17, <1>18, <1>19, <1>20, <1>21, <1>22, <1>23, <1>24, <1>25, <1>26, <1>27,
     <1>28, <1>29, <1>30, <1>31, <1>32, <1>33, <1>34, <1>35, <1>36 DEF Moves, Opens, Ends,
     Subscribes, Sends

LEMMA MessageSteps ==
    ASSUME Typed, NEW c \in Caller, Moves(c)
    PROVE  Begin(c) \/ MessageKept(c)
<1>1. CASE Begin(c)
  BY <1>1
<1>2. CASE Open(c)
  BY <1>2, DoesOpen, BackKeeps DEF Went, At, MessageKept, ForSend, Unposted, SendPCs
<1>3. CASE Rewarm(c)
  BY <1>3, DoesRewarm, BackKeeps DEF Went, At, MessageKept, ForSend, Unposted, SendPCs
<1>4. CASE Reserve(c)
  BY <1>4, DoesReserve, BackKeeps DEF Landing, Went, At, MessageKept, ForSend, Unposted, SendPCs
<1>5. CASE Start(c)
  BY <1>5, DoesStart DEF Went, At, MessageKept, ForSend, Unposted, SendPCs
<1>6. CASE StartFails(c)
  BY <1>6, DoesStartFails, BackKeeps DEF Landing, At, MessageKept, ForSend, Unposted, SendPCs
<1>7. CASE Persist(c)
  BY <1>7, DoesPersist, BackKeeps DEF Landing, Went, At, MessageKept, ForSend, Unposted, SendPCs
<1>8. CASE PersistFails(c)
  BY <1>8, DoesPersistFails, BackKeeps DEF Landing, At, MessageKept, ForSend, Unposted, SendPCs
<1>9. CASE Opened(c)
  BY <1>9, DoesOpened, BackKeeps DEF Landing, At, MessageKept, ForSend, Unposted, SendPCs
<1>10. CASE Bridge(c)
  <2>1. CASE Back(c, {"arm", "reopened", "unhub"})
    BY <1>10, <2>1, DoesBridge, BackKeeps DEF At
  <2>2. CASE ~Back(c, {"arm", "reopened", "unhub"})
    <3>1. /\ call'[c].pc = "promote" /\ Len(call'[c].then) = 1 /\ call'[c].then[1] = "unhub"
          /\ call'[c].msg = call[c].msg
      BY <1>10, <2>2, DoesBridge
    <3>2. QED
      BY <3>1 DEF MessageKept, ForSend, Unposted, SendPCs, At
  <2>3. QED
    BY <2>1, <2>2
<1>11. CASE End(c)
  BY <1>11, DoesEnd, BackKeeps DEF Pushed, At, MessageKept, ForSend, Unposted, SendPCs
<1>12. CASE Join(c)
  BY <1>12, DoesJoin DEF At, MessageKept, ForSend, Unposted, SendPCs
<1>13. CASE Kill(c)
  BY <1>13, DoesKill DEF Went, At, MessageKept, ForSend, Unposted, SendPCs
<1>14. CASE Cold(c)
  BY <1>14, DoesCold, BackKeeps DEF Went, At, MessageKept, ForSend, Unposted, SendPCs
<1>15. CASE Quieten(c)
  BY <1>15, DoesQuieten, BackKeeps DEF At, MessageKept, ForSend, Unposted, SendPCs
<1>16. CASE Delete(c)
  BY <1>16, DoesDelete, BackKeeps DEF Went, Pushed, At, MessageKept, ForSend, Unposted, SendPCs
<1>17. CASE DeleteStop(c)
  BY <1>17, DoesDeleteStop DEF Pushed, At, MessageKept, ForSend, Unposted, SendPCs
<1>18. CASE DeleteRow(c)
  BY <1>18, DoesDeleteRow, BackKeeps DEF Went, At, MessageKept, ForSend, Unposted, SendPCs
<1>19. CASE Drop(c)
  BY <1>19, DoesDrop, BackKeeps DEF At, MessageKept, ForSend, Unposted, SendPCs
<1>20. CASE Subscribe(c)
  BY <1>20, DoesSubscribe DEF Pushed, At, MessageKept, ForSend, Unposted, SendPCs
<1>21. CASE Attach(c)
  BY <1>21, DoesAttach, BackKeeps DEF Went, At, MessageKept, ForSend, Unposted, SendPCs
<1>22. CASE Reread(c)
  BY <1>22, DoesReread, BackKeeps DEF Went, Pushed, At, MessageKept, ForSend, Unposted, SendPCs
<1>23. CASE Promote(c)
  BY <1>23, DoesPromote, BackKeeps DEF At, MessageKept, ForSend, Unposted, SendPCs
<1>24. CASE Unhub(c)
  BY <1>24, DoesUnhub DEF Back, At, MessageKept, ForSend, Unposted, SendPCs
<1>25. CASE Send(c)
  BY <1>25, DoesSend, BackKeeps DEF Went, Pushed, At, MessageKept, ForSend, Unposted, SendPCs
<1>26. CASE Arm(c)
  BY <1>26, DoesArm, BackKeeps DEF Went, At, MessageKept, ForSend, Unposted, SendPCs
<1>27. CASE Post(c)
  BY <1>27, DoesPost DEF Went, At, MessageKept, ForSend, Unposted, SendPCs
<1>28. CASE PostUnreached(c)
  BY <1>28, DoesPostUnreached DEF Went, At, MessageKept, ForSend, Unposted, SendPCs
<1>29. CASE PostUnknown(c)
  BY <1>29, DoesPostUnknown DEF Went, Pushed, At, MessageKept, ForSend, Unposted, SendPCs
<1>30. CASE Reopen(c)
  BY <1>30, DoesReopen DEF Went, Pushed, At, MessageKept, ForSend, Unposted, SendPCs
<1>31. CASE RestartForSend(c)
  BY <1>31, DoesRestartForSend DEF Went, At, MessageKept, ForSend, Unposted, SendPCs
<1>32. CASE Relock(c)
  BY <1>32, DoesRelock DEF Went, At, MessageKept, ForSend, Unposted, SendPCs
<1>33. CASE Failed(c)
  BY <1>33, DoesFailed, BackKeeps DEF Pushed, At, MessageKept, ForSend, Unposted, SendPCs
<1>34. CASE EndFailed(c)
  BY <1>34, DoesEndFailed, BackKeeps DEF At, MessageKept, ForSend, Unposted, SendPCs
<1>35. CASE AppendRow(c)
  BY <1>35, DoesAppendRow, BackKeeps DEF Went, At, MessageKept, ForSend, Unposted, SendPCs
<1>36. CASE Publish(c)
  BY <1>36, DoesPublish, BackKeeps DEF At, MessageKept, ForSend, Unposted, SendPCs
<1>37. QED
  BY <1>1, <1>2, <1>3, <1>4, <1>5, <1>6, <1>7, <1>8, <1>9, <1>10, <1>11, <1>12, <1>13, <1>14,
     <1>15, <1>16, <1>17, <1>18, <1>19, <1>20, <1>21, <1>22, <1>23, <1>24, <1>25, <1>26, <1>27,
     <1>28, <1>29, <1>30, <1>31, <1>32, <1>33, <1>34, <1>35, <1>36 DEF Moves, Opens, Ends,
     Subscribes, Sends

LEMMA ClosingSteps ==
    ASSUME Typed, NEW c \in Caller, Moves(c)
    PROVE  End(c) \/ ClosesKept(c)
<1>1. CASE Begin(c)
  BY <1>1, DoesBegin, Standing DEF At, ClosesKept, Closes
<1>2. CASE Open(c)
  BY <1>2, DoesOpen DEF Back, Went, At, ClosesKept, Closes
<1>3. CASE Rewarm(c)
  BY <1>3, DoesRewarm DEF Back, Went, At, ClosesKept, Closes
<1>4. CASE Reserve(c)
  BY <1>4, DoesReserve DEF Landing, Back, Went, At, ClosesKept, Closes
<1>5. CASE Start(c)
  BY <1>5, DoesStart DEF Went, At, ClosesKept, Closes
<1>6. CASE StartFails(c)
  BY <1>6, DoesStartFails DEF Landing, Back, At, ClosesKept, Closes
<1>7. CASE Persist(c)
  BY <1>7, DoesPersist DEF Landing, Back, Went, At, ClosesKept, Closes
<1>8. CASE PersistFails(c)
  BY <1>8, DoesPersistFails DEF Landing, Back, At, ClosesKept, Closes
<1>9. CASE Opened(c)
  BY <1>9, DoesOpened DEF Landing, Back, At, ClosesKept, Closes
<1>10. CASE Bridge(c)
  BY <1>10, DoesBridge DEF Back, At, ClosesKept, Closes
<1>11. CASE End(c)
  BY <1>11
<1>12. CASE Join(c)
  BY <1>12, DoesJoin DEF At, ClosesKept, Closes
<1>13. CASE Kill(c)
  BY <1>13, DoesKill DEF Went, At, ClosesKept, Closes
<1>14. CASE Cold(c)
  BY <1>14, DoesCold DEF Back, Went, At, ClosesKept, Closes
<1>15. CASE Quieten(c)
  BY <1>15, DoesQuieten DEF Back, At, ClosesKept, Closes
<1>16. CASE Delete(c)
  BY <1>16, DoesDelete DEF Back, Went, Pushed, At, ClosesKept, Closes
<1>17. CASE DeleteStop(c)
  BY <1>17, DoesDeleteStop DEF Pushed, At, ClosesKept, Closes
<1>18. CASE DeleteRow(c)
  BY <1>18, DoesDeleteRow DEF Back, Went, At, ClosesKept, Closes
<1>19. CASE Drop(c)
  BY <1>19, DoesDrop DEF Back, At, ClosesKept, Closes
<1>20. CASE Subscribe(c)
  BY <1>20, DoesSubscribe DEF Pushed, At, ClosesKept, Closes
<1>21. CASE Attach(c)
  BY <1>21, DoesAttach DEF Back, Went, At, ClosesKept, Closes
<1>22. CASE Reread(c)
  BY <1>22, DoesReread DEF Back, Went, Pushed, At, ClosesKept, Closes
<1>23. CASE Promote(c)
  BY <1>23, DoesPromote DEF Back, At, ClosesKept, Closes
<1>24. CASE Unhub(c)
  BY <1>24, DoesUnhub DEF Back, At, ClosesKept, Closes
<1>25. CASE Send(c)
  BY <1>25, DoesSend DEF Back, Went, Pushed, At, ClosesKept, Closes
<1>26. CASE Arm(c)
  BY <1>26, DoesArm DEF Back, Went, At, ClosesKept, Closes
<1>27. CASE Post(c)
  BY <1>27, DoesPost DEF Went, At, ClosesKept, Closes
<1>28. CASE PostUnreached(c)
  BY <1>28, DoesPostUnreached DEF Went, At, ClosesKept, Closes
<1>29. CASE PostUnknown(c)
  BY <1>29, DoesPostUnknown DEF Went, Pushed, At, ClosesKept, Closes
<1>30. CASE Reopen(c)
  BY <1>30, DoesReopen DEF Went, Pushed, At, ClosesKept, Closes
<1>31. CASE RestartForSend(c)
  BY <1>31, DoesRestartForSend DEF Went, At, ClosesKept, Closes
<1>32. CASE Relock(c)
  BY <1>32, DoesRelock DEF Went, At, ClosesKept, Closes
<1>33. CASE Failed(c)
  BY <1>33, DoesFailed DEF Back, Pushed, At, ClosesKept, Closes
<1>34. CASE EndFailed(c)
  BY <1>34, DoesEndFailed DEF Back, At, ClosesKept, Closes
<1>35. CASE AppendRow(c)
  BY <1>35, DoesAppendRow DEF Back, Went, At, ClosesKept, Closes
<1>36. CASE Publish(c)
  BY <1>36, DoesPublish DEF Back, At, ClosesKept, Closes
<1>37. QED
  BY <1>1, <1>2, <1>3, <1>4, <1>5, <1>6, <1>7, <1>8, <1>9, <1>10, <1>11, <1>12, <1>13, <1>14,
     <1>15, <1>16, <1>17, <1>18, <1>19, <1>20, <1>21, <1>22, <1>23, <1>24, <1>25, <1>26, <1>27,
     <1>28, <1>29, <1>30, <1>31, <1>32, <1>33, <1>34, <1>35, <1>36 DEF Moves, Opens, Ends,
     Subscribes, Sends

LEMMA AttendSteps ==
    ASSUME Typed, NEW c \in Caller, Moves(c)
    PROVE  Opened(c) \/ Cold(c) \/ DeleteRow(c) \/ AttendsKept(c)
<1>1. CASE Begin(c)
  BY <1>1, DoesBegin, Standing DEF At, AttendsKept, Attends, Closes
<1>2. CASE Open(c)
  BY <1>2, DoesOpen DEF Back, Went, At, AttendsKept, Attends, Closes
<1>3. CASE Rewarm(c)
  BY <1>3, DoesRewarm DEF Back, Went, At, AttendsKept, Attends, Closes
<1>4. CASE Reserve(c)
  BY <1>4, DoesReserve DEF Landing, Back, Went, At, AttendsKept, Attends, Closes
<1>5. CASE Start(c)
  BY <1>5, DoesStart DEF Went, At, AttendsKept, Attends, Closes
<1>6. CASE StartFails(c)
  BY <1>6, DoesStartFails DEF Landing, Back, At, AttendsKept, Attends, Closes
<1>7. CASE Persist(c)
  BY <1>7, DoesPersist DEF Landing, Back, Went, At, AttendsKept, Attends, Closes
<1>8. CASE PersistFails(c)
  BY <1>8, DoesPersistFails DEF Landing, Back, At, AttendsKept, Attends, Closes
<1>9. CASE Opened(c)
  BY <1>9
<1>10. CASE Bridge(c)
  BY <1>10, DoesBridge DEF Back, At, AttendsKept, Attends, Closes
<1>11. CASE End(c)
  BY <1>11, DoesEnd DEF Back, Pushed, At, AttendsKept, Attends, Closes
<1>12. CASE Join(c)
  BY <1>12, DoesJoin DEF At, AttendsKept, Attends, Closes
<1>13. CASE Kill(c)
  BY <1>13, DoesKill DEF Went, At, AttendsKept, Attends, Closes
<1>14. CASE Cold(c)
  BY <1>14
<1>15. CASE Quieten(c)
  BY <1>15, DoesQuieten DEF Back, At, AttendsKept, Attends, Closes
<1>16. CASE Delete(c)
  BY <1>16, DoesDelete DEF Back, Went, Pushed, At, AttendsKept, Attends, Closes
<1>17. CASE DeleteStop(c)
  BY <1>17, DoesDeleteStop DEF Pushed, At, AttendsKept, Attends, Closes
<1>18. CASE DeleteRow(c)
  BY <1>18
<1>19. CASE Drop(c)
  BY <1>19, DoesDrop DEF Back, At, AttendsKept, Attends, Closes
<1>20. CASE Subscribe(c)
  BY <1>20, DoesSubscribe DEF Pushed, At, AttendsKept, Attends, Closes
<1>21. CASE Attach(c)
  BY <1>21, DoesAttach DEF Back, Went, At, AttendsKept, Attends, Closes
<1>22. CASE Reread(c)
  BY <1>22, DoesReread DEF Back, Went, Pushed, At, AttendsKept, Attends, Closes
<1>23. CASE Promote(c)
  BY <1>23, DoesPromote DEF Back, At, AttendsKept, Attends, Closes
<1>24. CASE Unhub(c)
  BY <1>24, DoesUnhub DEF Back, At, AttendsKept, Attends, Closes
<1>25. CASE Send(c)
  BY <1>25, DoesSend DEF Back, Went, Pushed, At, AttendsKept, Attends, Closes
<1>26. CASE Arm(c)
  BY <1>26, DoesArm DEF Back, Went, At, AttendsKept, Attends, Closes
<1>27. CASE Post(c)
  BY <1>27, DoesPost DEF Went, At, AttendsKept, Attends, Closes
<1>28. CASE PostUnreached(c)
  BY <1>28, DoesPostUnreached DEF Went, At, AttendsKept, Attends, Closes
<1>29. CASE PostUnknown(c)
  BY <1>29, DoesPostUnknown DEF Went, Pushed, At, AttendsKept, Attends, Closes
<1>30. CASE Reopen(c)
  BY <1>30, DoesReopen DEF Went, Pushed, At, AttendsKept, Attends, Closes
<1>31. CASE RestartForSend(c)
  BY <1>31, DoesRestartForSend DEF Went, At, AttendsKept, Attends, Closes
<1>32. CASE Relock(c)
  BY <1>32, DoesRelock DEF Went, At, AttendsKept, Attends, Closes
<1>33. CASE Failed(c)
  BY <1>33, DoesFailed DEF Back, Pushed, At, AttendsKept, Attends, Closes
<1>34. CASE EndFailed(c)
  BY <1>34, DoesEndFailed DEF Back, At, AttendsKept, Attends, Closes
<1>35. CASE AppendRow(c)
  BY <1>35, DoesAppendRow DEF Back, Went, At, AttendsKept, Attends, Closes
<1>36. CASE Publish(c)
  BY <1>36, DoesPublish DEF Back, At, AttendsKept, Attends, Closes
<1>37. QED
  BY <1>1, <1>2, <1>3, <1>4, <1>5, <1>6, <1>7, <1>8, <1>9, <1>10, <1>11, <1>12, <1>13, <1>14,
     <1>15, <1>16, <1>17, <1>18, <1>19, <1>20, <1>21, <1>22, <1>23, <1>24, <1>25, <1>26, <1>27,
     <1>28, <1>29, <1>30, <1>31, <1>32, <1>33, <1>34, <1>35, <1>36 DEF Moves, Opens, Ends,
     Subscribes, Sends

\* Which steps of a call touch the rest of the state.
LEMMA TouchSteps ==
    ASSUME NEW c \in Caller, Moves(c)
    PROVE  /\ \/ Bridge(c) \/ Opened(c) \/ End(c) \/ DeleteStop(c) \/ Kill(c) \/ PersistFails(c)
              \/ UNCHANGED <<bridge, crossed>>
           /\ \/ Rewarm(c) \/ Promote(c) \/ Persist(c) \/ Cold(c) \/ DeleteRow(c)
              \/ row' = row
           /\ \/ Start(c) \/ StartFails(c) \/ PersistFails(c) \/ Kill(c)
              \/ Post(c) \/ PostUnreached(c) \/ RestartForSend(c)
              \/ box' = box
           /\ AppendRow(c) \/ DeleteRow(c) \/ transcript' = transcript
           /\ StartFails(c) \/ Persist(c) \/ Kill(c) \/ DeleteRow(c) \/ adrift' = adrift
           /\ StartFails(c) \/ PersistFails(c) \/ Kill(c) \/ PostUnreached(c) \/ RestartForSend(c)
              \/ Begin(c) \/ used' = used
           /\ At(c, "join") => Join(c)
           /\ InFlight(c) => \/ Reserve(c) \/ Start(c) \/ StartFails(c)
                             \/ Persist(c) \/ PersistFails(c) \/ Opened(c)
<1>1. CASE Begin(c)
  BY <1>1 DEF Begin, rest, world, history, At, InFlight, FlightPCs
<1>2. CASE Open(c)
  BY <1>2 DEF Open, rest, world, history, At, InFlight, FlightPCs
<1>3. CASE Rewarm(c)
  BY <1>3 DEF Rewarm, rest, world, history, At, InFlight, FlightPCs
<1>4. CASE Reserve(c)
  BY <1>4 DEF Reserve, rest, world, history, At, InFlight, FlightPCs
<1>5. CASE Start(c)
  BY <1>5 DEF Start, rest, world, history, At, InFlight, FlightPCs
<1>6. CASE StartFails(c)
  BY <1>6 DEF StartFails, rest, world, history, At, InFlight, FlightPCs
<1>7. CASE Persist(c)
  BY <1>7 DEF Persist, rest, world, history, At, InFlight, FlightPCs
<1>8. CASE PersistFails(c)
  BY <1>8 DEF PersistFails, rest, world, history, At, InFlight, FlightPCs
<1>9. CASE Opened(c)
  BY <1>9 DEF Opened, rest, world, history, At, InFlight, FlightPCs
<1>10. CASE Bridge(c)
  BY <1>10 DEF Bridge, rest, world, history, At, InFlight, FlightPCs
<1>11. CASE End(c)
  BY <1>11 DEF End, rest, world, history, At, InFlight, FlightPCs
<1>12. CASE Join(c)
  BY <1>12 DEF Join, rest, world, history, At, InFlight, FlightPCs
<1>13. CASE Kill(c)
  BY <1>13 DEF Kill, rest, world, history, At, InFlight, FlightPCs
<1>14. CASE Cold(c)
  BY <1>14 DEF Cold, rest, world, history, At, InFlight, FlightPCs
<1>15. CASE Quieten(c)
  BY <1>15 DEF Quieten, rest, world, history, At, InFlight, FlightPCs
<1>16. CASE Delete(c)
  BY <1>16 DEF Delete, rest, world, history, At, InFlight, FlightPCs
<1>17. CASE DeleteStop(c)
  BY <1>17 DEF DeleteStop, rest, world, history, At, InFlight, FlightPCs
<1>18. CASE DeleteRow(c)
  BY <1>18 DEF DeleteRow, rest, world, history, At, InFlight, FlightPCs
<1>19. CASE Drop(c)
  BY <1>19 DEF Drop, rest, world, history, At, InFlight, FlightPCs
<1>20. CASE Subscribe(c)
  BY <1>20 DEF Subscribe, rest, world, history, At, InFlight, FlightPCs
<1>21. CASE Attach(c)
  BY <1>21 DEF Attach, rest, world, history, At, InFlight, FlightPCs
<1>22. CASE Reread(c)
  BY <1>22 DEF Reread, rest, world, history, At, InFlight, FlightPCs
<1>23. CASE Promote(c)
  BY <1>23 DEF Promote, rest, world, history, At, InFlight, FlightPCs
<1>24. CASE Unhub(c)
  BY <1>24 DEF Unhub, rest, world, history, At, InFlight, FlightPCs
<1>25. CASE Send(c)
  BY <1>25 DEF Send, rest, world, history, At, InFlight, FlightPCs
<1>26. CASE Arm(c)
  BY <1>26 DEF Arm, rest, world, history, At, InFlight, FlightPCs
<1>27. CASE Post(c)
  BY <1>27 DEF Post, rest, world, history, At, InFlight, FlightPCs
<1>28. CASE PostUnreached(c)
  BY <1>28 DEF PostUnreached, rest, world, history, At, InFlight, FlightPCs
<1>29. CASE PostUnknown(c)
  BY <1>29 DEF PostUnknown, rest, world, history, At, InFlight, FlightPCs
<1>30. CASE Reopen(c)
  BY <1>30 DEF Reopen, rest, world, history, At, InFlight, FlightPCs
<1>31. CASE RestartForSend(c)
  BY <1>31 DEF RestartForSend, rest, world, history, At, InFlight, FlightPCs
<1>32. CASE Relock(c)
  BY <1>32 DEF Relock, rest, world, history, At, InFlight, FlightPCs
<1>33. CASE Failed(c)
  BY <1>33 DEF Failed, rest, world, history, At, InFlight, FlightPCs
<1>34. CASE EndFailed(c)
  BY <1>34 DEF EndFailed, rest, world, history, At, InFlight, FlightPCs
<1>35. CASE AppendRow(c)
  BY <1>35 DEF AppendRow, rest, world, history, At, InFlight, FlightPCs
<1>36. CASE Publish(c)
  BY <1>36 DEF Publish, rest, world, history, At, InFlight, FlightPCs
<1>37. QED
  BY <1>1, <1>2, <1>3, <1>4, <1>5, <1>6, <1>7, <1>8, <1>9, <1>10, <1>11, <1>12, <1>13, <1>14,
     <1>15, <1>16, <1>17, <1>18, <1>19, <1>20, <1>21, <1>22, <1>23, <1>24, <1>25, <1>26, <1>27,
     <1>28, <1>29, <1>30, <1>31, <1>32, <1>33, <1>34, <1>35, <1>36 DEF Moves, Opens, Ends,
     Subscribes, Sends

-----------------------------------------------------------------------------
(* Every step is one of a call, of a consumer, or from outside.             *)

LEMMA NextCases ==
    ASSUME Next
    PROVE  \/ \E c \in Caller : Moves(c)
           \/ \E t \in Thread : Consumer(t)
           \/ \E s \in Session : MarkWarmIdle(s)
           \/ \E s \in Session : WorkerExits(s)
           \/ Restart
  BY DEF Next, Moves

LEMMA TypedStep == ASSUME Typed, Next PROVE Typed' /\ kind' = kind
<1>1. CASE \E c \in Caller : Moves(c)
  BY <1>1, OthersStay
<1>2. CASE \E t \in Thread : Consumer(t)
  BY <1>2, DoesConsumer DEF rest
<1>3. CASE \E s \in Session : MarkWarmIdle(s)
  BY <1>3, DoesMarkWarmIdle
<1>4. CASE \E s \in Session : WorkerExits(s)
  BY <1>4, DoesWorkerExits
<1>5. CASE Restart
  BY <1>5, DoesRestart
<1>6. QED
  BY <1>1, <1>2, <1>3, <1>4, <1>5, NextCases

\* Where a mutex stays when a call's step is none of its own.
LEMMA StatusHeldKept ==
    ASSUME Typed, StatusHeld, NEW c \in Caller, OthersKept(c), StatusKept(c)
    PROVE  StatusHeld'
<1>1. \A d \in Caller \ {c} : \/ call'[d] = call[d]
                              \/ call[d].pc # "cold" /\ call'[d].pc # "cold"
  BY DEF OthersKept, Back, At
<1>2. \A d \in Caller : At(d, "cold") => call[d].s \in Session
  BY Standing DEF At
<1>3. \A d \in Caller : At(d, "cold")' => d # c /\ call'[d] = call[d] /\ At(d, "cold")
  BY <1>1 DEF StatusKept, At
<1>4. \A s \in Session, d \in Caller : lock'[s]["status"] = d =>
        d # c /\ At(d, "cold") /\ call[d].s = s /\ call'[d] = call[d]
  BY <1>1 DEF StatusKept, StatusHeld, At
<1>5. QED
  BY <1>2, <1>3, <1>4 DEF StatusHeld, StatusKept, At

LEMMA StatusHeldStep == ASSUME Typed, StatusHeld, Next PROVE StatusHeld'
<1>1. ASSUME NEW c \in Caller, Kill(c) PROVE StatusHeld'
  <2> DEFINE s == call[c].s
  <2>1. /\ s \in Session /\ At(c, "kill") /\ Only(c) /\ Went(c, "cold") /\ Free(s, "status")
        /\ Take(c, s, "status")
    BY <1>1, DoesKill
  <2>2. \A z \in Session : lock'[z]["status"] = IF z = s THEN c ELSE lock[z]["status"]
    BY <2>1, Taken DEF Typed, World
  <2>3. \A d \in Caller : lock[s]["status"] # d
    BY <2>1, ChatAssumption DEF Free
  <2>4. \A d \in Caller : At(d, "cold") => call[d].s # s
    BY <2>3 DEF StatusHeld
  <2>5. \A d \in Caller : call[d].pc # "idle" => call[d].s \in Session
    BY Standing
  <2>6. QED
    BY <2>1, <2>2, <2>3, <2>4, <2>5 DEF StatusHeld, Only, Went, At
<1>2. ASSUME NEW c \in Caller, Cold(c) PROVE StatusHeld'
  <2> DEFINE s == call[c].s
  <2>1. /\ s \in Session /\ At(c, "cold") /\ Only(c) /\ Leave(s, "status")
        /\ call'[c].pc # "cold"
    BY <1>2, DoesCold DEF Back, Went
  <2>2. \A z \in Session : lock'[z]["status"] = IF z = s THEN "free" ELSE lock[z]["status"]
    BY <2>1, Left DEF Typed, World
  <2>3. \A d \in Caller : d # "free"
    BY ChatAssumption
  <2>4. \A d \in Caller : call[d].pc # "idle" => call[d].s \in Session
    BY Standing
  <2>5. QED
    BY <2>1, <2>2, <2>3, <2>4 DEF StatusHeld, Only, At
<1>3. CASE \E c \in Caller : Moves(c)
  BY <1>1, <1>2, <1>3, OthersStay, StatusSteps, StatusHeldKept
<1>4. CASE \E t \in Thread : Consumer(t)
  BY <1>4, DoesConsumer DEF StatusHeld, At, rest
<1>5. CASE \E s \in Session : MarkWarmIdle(s)
  BY <1>5, DoesMarkWarmIdle DEF StatusHeld, At
<1>6. CASE \E s \in Session : WorkerExits(s)
  BY <1>6, DoesWorkerExits DEF StatusHeld, At
<1>7. CASE Restart
  BY <1>7, DoesRestart, ChatAssumption DEF StatusHeld, At, Idle
<1>8. QED
  BY <1>3, <1>4, <1>5, <1>6, <1>7, NextCases

LEMMA HubHeldStep == ASSUME Typed, HubHeld, Next PROVE HubHeld'
<1>1. ASSUME NEW c \in Caller, OthersKept(c) 
      PROVE  \A d \in Caller \ {c} : Subscribed(call[d]) => call'[d] = call[d]
  BY <1>1 DEF OthersKept, Back, At, Subscribed
<1>2. ASSUME NEW c \in Caller, OthersKept(c), HubKept(c) PROVE HubHeld'
  BY <1>1, <1>2 DEF HubHeld, HubKept
<1>3. ASSUME NEW c \in Caller, Subscribe(c) PROVE HubHeld'
  <2> DEFINE s == call[c].s
  <2>1. /\ s \in Session /\ OthersKept(c) /\ Pushed(c, "attach", "unhub") /\ Free(s, "hub")
        /\ Take(c, s, "hub")
    BY <1>3, DoesSubscribe DEF OthersKept, Only
  <2>2. \A z \in Session : lock'[z]["hub"] = IF z = s THEN c ELSE lock[z]["hub"]
    BY <2>1, Taken DEF Typed, World
  <2>3. Subscribed(call'[c]) /\ call'[c].s = s /\ ~Subscribed(call[c])
    BY <1>3, <2>1, DoesSubscribe DEF Subscribed, Pushed, Due, At
  <2>4. QED
    BY <1>1, <2>1, <2>2, <2>3 DEF HubHeld
<1>4. ASSUME NEW c \in Caller, Unhub(c) PROVE HubHeld'
  <2> DEFINE s == call[c].s
  <2>1. /\ s \in Session /\ OthersKept(c) /\ Leave(s, "hub") /\ At(c, "unhub")
    BY <1>4, DoesUnhub DEF OthersKept, Only
  <2>2. \A z \in Session : lock'[z]["hub"] = IF z = s THEN "free" ELSE lock[z]["hub"]
    BY <2>1, Left DEF Typed, World
  <2>3. \A z \in Session : lock'[z]["hub"] # c
    BY <2>2, ChatAssumption DEF HubHeld
  <2>4. QED
    BY <1>1, <2>1, <2>2, <2>3, ChatAssumption DEF HubHeld
<1>5. CASE \E c \in Caller : Moves(c)
  BY <1>2, <1>3, <1>4, <1>5, OthersStay, HubSteps
<1>6. CASE \E t \in Thread : Consumer(t)
  BY <1>6, DoesConsumer DEF HubHeld, rest
<1>7. CASE \E s \in Session : MarkWarmIdle(s)
  BY <1>7, DoesMarkWarmIdle DEF HubHeld
<1>8. CASE \E s \in Session : WorkerExits(s)
  BY <1>8, DoesWorkerExits DEF HubHeld
<1>9. CASE Restart
  BY <1>9, DoesRestart, ChatAssumption DEF HubHeld
<1>10. QED
  BY <1>5, <1>6, <1>7, <1>8, <1>9, NextCases

LEMMA TranscriptHeldStep ==
    ASSUME Typed, TranscriptHeld, Starters, Next
    PROVE  TranscriptHeld'
<1>1. ASSUME NEW c \in Caller, OthersKept(c)
      PROVE  \A d \in Caller \ {c} : call[d].pc \in ArmedPCs => call'[d] = call[d]
  BY <1>1 DEF OthersKept, Back, At, ArmedPCs
<1>2. ASSUME NEW c \in Caller, OthersKept(c), TranscriptKept(c), kind' = kind
      PROVE  TranscriptHeld'
  <2>1. \A s \in Session, d \in Caller : lock'[s]["transcript"] = d => lock[s]["transcript"] = d
    BY <1>2, ChatAssumption DEF TranscriptKept
  <2>2. QED
    BY <1>1, <1>2, <2>1 DEF TranscriptHeld, TranscriptKept, Chat
<1>3. ASSUME NEW c \in Caller, NEW s \in Session, s = call[c].s, OthersKept(c), kind' = kind,
             Free(s, "transcript"), Take(c, s, "transcript"), ~Chat(s),
             call[c].pc \notin ArmedPCs, call'[c].pc \in ArmedPCs, call'[c].s = s
      PROVE  TranscriptHeld'
  <2>1. \A z \in Session :
           lock'[z]["transcript"] = IF z = s THEN c ELSE lock[z]["transcript"]
    BY <1>3, Taken DEF Typed, World
  <2>2. QED
    BY <1>1, <1>3, <2>1 DEF TranscriptHeld, Chat
<1>4. ASSUME NEW c \in Caller, Arm(c) PROVE TranscriptHeld'
  <2>1. /\ At(c, "arm") /\ OthersKept(c) /\ kind' = kind /\ call[c].s \in Session
        /\ \/ lock' = lock
           \/ /\ Went(c, "post") /\ ~Chat(call[c].s) /\ Free(call[c].s, "transcript")
              /\ Take(c, call[c].s, "transcript")
    BY <1>4, DoesArm DEF OthersKept, Only
  <2>2. CASE lock' = lock
    BY <1>2, <2>1, <2>2 DEF TranscriptKept, At, ArmedPCs
  <2>3. QED
    BY <1>3, <2>1, <2>2 DEF Went, At, ArmedPCs
<1>5. ASSUME NEW c \in Caller, Relock(c) PROVE TranscriptHeld'
  <2>1. /\ At(c, "relock") /\ OthersKept(c) /\ kind' = kind /\ call[c].s \in Session
        /\ Went(c, "repost") \/ Went(c, "failed") \/ Went(c, "unreached")
        /\ Free(call[c].s, "transcript") /\ Take(c, call[c].s, "transcript")
    BY <1>5, DoesRelock DEF OthersKept, Only
  <2>2. ~Chat(call[c].s)
    BY <2>1 DEF Starters, At
  <2>3. QED
    BY <1>3, <2>1, <2>2 DEF Went, At, ArmedPCs
<1>6. CASE \E c \in Caller : Moves(c)
  BY <1>2, <1>4, <1>5, <1>6, OthersStay, TranscriptSteps
<1>7. CASE \E t \in Thread : Consumer(t)
  BY <1>7, DoesConsumer DEF TranscriptHeld, Chat, rest
<1>8. CASE \E s \in Session : MarkWarmIdle(s)
  BY <1>8, DoesMarkWarmIdle DEF TranscriptHeld, Chat
<1>9. CASE \E s \in Session : WorkerExits(s)
  BY <1>9, DoesWorkerExits DEF TranscriptHeld, Chat
<1>10. CASE Restart
  BY <1>10, DoesRestart, ChatAssumption DEF TranscriptHeld
<1>11. QED
  BY <1>6, <1>7, <1>8, <1>9, <1>10, NextCases

LEMMA StartersStep == ASSUME Typed, Starters, Next PROVE Starters'
<1>1. ASSUME NEW c \in Caller, Moves(c) PROVE Starters'
  <2>1. OthersKept(c) /\ kind' = kind /\ StarterKept(c)
    BY <1>1, OthersStay, StarterSteps
  <2>2. QED
    BY <2>1 DEF Starters, StarterKept, OthersKept, Back, At, Chat
<1>2. CASE \E t \in Thread : Consumer(t)
  BY <1>2, DoesConsumer DEF Starters, Chat, rest
<1>3. CASE \E s \in Session : MarkWarmIdle(s)
  BY <1>3, DoesMarkWarmIdle DEF Starters, Chat
<1>4. CASE \E s \in Session : WorkerExits(s)
  BY <1>4, DoesWorkerExits DEF Starters, Chat
<1>5. CASE Restart
  BY <1>5, DoesRestart DEF Starters, Idle
<1>6. QED
  BY <1>1, <1>2, <1>3, <1>4, <1>5, NextCases

\* What a step of a call does to the consumers, those of the sessions and those
\* that are waited for.
Elsewhere(c) ==
    /\ \A t \in Thread : bridge'[t].pc = bridge[t].pc
    /\ \A t \in Thread : bridge'[t].over =>
         bridge[t].over \/ bridge[t].pc \in {"stream", "frame"}

LEMMA ConsumerSteps ==
    ASSUME Typed, NEW c \in Caller, Moves(c)
    PROVE  \/ Elsewhere(c)
           \/ \E again \in BOOLEAN : /\ StartConsumer(call[c].s, again) /\ call[c].s \in Session
                                     /\ ~At(c, "join")
           \/ /\ End(c) \/ DeleteStop(c)
              /\ call[c].s \in Session /\ ~At(c, "join")
              /\ At(c, "join")'
              /\ bridge' = [bridge EXCEPT ![call[c].s] = NoBridge, ![c] = bridge[call[c].s]]
<1>1. CASE Bridge(c) \/ Opened(c)
  BY <1>1, DoesBridge, DoesOpened DEF At
<1>2. CASE End(c)
  BY <1>2, DoesEnd DEF At, Pushed, Elsewhere
<1>3. CASE DeleteStop(c)
  BY <1>3, DoesDeleteStop DEF At, Pushed
<1>4. CASE Kill(c) \/ PersistFails(c)
  <2>1. \/ bridge' = bridge
        \/ call[c].s \in Session /\ BoxEnds(call[c].s)
    BY <1>4, DoesKill, DoesPersistFails
  <2>2. QED
    BY <2>1, Ended DEF Elsewhere, Typed, World
<1>5. CASE bridge' = bridge
  BY <1>5 DEF Elsewhere
<1>6. QED
  BY <1>1, <1>2, <1>3, <1>4, <1>5, TouchSteps

LEMMA ConsumersStep == ASSUME Typed, Consumers, Next PROVE Consumers'
<1> USE DEF Consumers
<1>1. Session \subseteq Thread /\ Caller \subseteq Thread /\ \A c \in Caller : c \notin Session
  BY ChatAssumption DEF Thread
<1>2. ASSUME NEW c \in Caller, Moves(c) PROVE Consumers'
  <2>1. OthersKept(c) /\ kind' = kind
    BY <1>2, OthersStay
  <2>2. \A d \in Caller \ {c} : At(d, "join") => At(d, "join")'
    BY <2>1 DEF OthersKept, At
  <2>3. At(c, "join") => bridge[c].pc = "none" /\ bridge' = bridge
    BY <1>2, TouchSteps, DoesJoin
  <2>4. \A d \in Caller : bridge[d].pc # "none" => d # c /\ At(d, "join")'
    BY <2>2, <2>3
  <2>5. CASE Elsewhere(c)
    BY <1>1, <2>1, <2>4, <2>5 DEF Elsewhere, Chat
  <2>6. ASSUME NEW again \in BOOLEAN, StartConsumer(call[c].s, again), call[c].s \in Session
        PROVE  Consumers'
    <3> DEFINE s == call[c].s
    <3>1. /\ \A t \in Thread \ {s} : bridge'[t] = bridge[t]
          /\ bridge[s].pc # "none" => bridge'[s] = bridge[s]
          /\ bridge[s].pc = "none" =>
               /\ bridge'[s].over = bridge[s].over
               /\ bridge'[s].pc = "open" \/ (~Chat(s) /\ bridge'[s].pc = "restart")
      BY <2>6, Started DEF Typed, World
    <3>2. QED
      BY <1>1, <2>1, <2>4, <2>6, <3>1 DEF Chat
  <2>7. ASSUME call[c].s \in Session, At(c, "join")',
               bridge' = [bridge EXCEPT ![call[c].s] = NoBridge, ![c] = bridge[call[c].s]]
        PROVE  Consumers'
    <3> DEFINE s == call[c].s
    <3>1. /\ bridge'[s] = NoBridge /\ bridge'[c] = bridge[s]
          /\ \A t \in Thread \ {c, s} : bridge'[t] = bridge[t]
      BY <2>7, Stopped DEF Typed, World
    <3>2. NoBridge.pc = "none" /\ ~NoBridge.over
      BY DEF NoBridge
    <3>3. QED
      BY <1>1, <2>1, <2>4, <2>7, <3>1, <3>2 DEF Chat
  <2>8. QED
    BY <1>2, <2>5, <2>6, <2>7, ConsumerSteps
<1>3. ASSUME NEW t \in Thread, Consumer(t) PROVE Consumers'
  <2>1. Turned(t) /\ call' = call /\ kind' = kind
    BY <1>3, DoesConsumer DEF rest
  <2>2. QED
    BY <1>1, <2>1 DEF Turned, At, Chat
<1>4. CASE \E s \in Session : MarkWarmIdle(s)
  BY <1>4, DoesMarkWarmIdle DEF At, Chat
<1>5. ASSUME NEW s \in Session, WorkerExits(s) PROVE Consumers'
  <2>1. BoxEnds(s) /\ call' = call /\ kind' = kind
    BY <1>5, DoesWorkerExits
  <2>2. \A t \in Thread :
            /\ bridge'[t].pc = bridge[t].pc
            /\ \/ bridge'[t].over = bridge[t].over
               \/ bridge'[t].over /\ SessionOf(t) = s /\ bridge[t].pc \in {"stream", "frame"}
    BY <2>1, Ended DEF Typed, World
  <2>3. QED
    BY <1>1, <2>1, <2>2 DEF At, Chat
<1>6. CASE Restart
  <2>1. NoBridge.pc = "none" /\ ~NoBridge.over
    BY DEF NoBridge
  <2>2. QED
    BY <1>1, <1>6, <2>1, DoesRestart DEF Thread, Chat
<1>7. QED
  BY <1>2, <1>3, <1>4, <1>5, <1>6, NextCases

LEMMA MutexesStep == ASSUME Typed, Mutexes, Next PROVE Mutexes'
  BY StatusHeldStep, HubHeldStep, TranscriptHeldStep, StartersStep, ConsumersStep DEF Mutexes

-----------------------------------------------------------------------------
(* One open at a time.                                                      *)

\* Which rows become live.
LEMMA RowSteps ==
    ASSUME Typed, NEW c \in Caller, Moves(c), ~Persist(c), NEW s \in Session
    PROVE  Live(s)' => Live(s)
<1>1. row \in [Session -> {"absent", "cold", "active", "warm"}]
  BY DEF Typed, World
<1>2. CASE Rewarm(c) \/ Promote(c)
  <2>1. call[c].s \in Session
        /\ row' = [row EXCEPT ![call[c].s] = IF @ = "warm" THEN "active" ELSE @]
    BY <1>2, DoesRewarm, DoesPromote
  <2>2. QED
    BY <1>1, <2>1 DEF Live
<1>3. CASE Cold(c) \/ DeleteRow(c)
  <2>1. /\ call[c].s \in Session
        /\ \/ row' = [row EXCEPT ![call[c].s] = IF @ = "absent" THEN @ ELSE "cold"]
           \/ row' = [row EXCEPT ![call[c].s] = "absent"]
    BY <1>3, DoesCold, DoesDeleteRow
  <2>2. QED
    BY <1>1, <2>1 DEF Live
<1>4. CASE row' = row
  BY <1>4 DEF Live
<1>5. QED
  BY <1>2, <1>3, <1>4, TouchSteps

LEMMA FlightsStep == ASSUME Typed, Flights, Next PROVE Flights'
<1>1. ASSUME NEW c \in Caller, Moves(c) PROVE Flights'
  <2>1. OthersKept(c)
    BY <1>1, OthersStay
  <2>2. \A d \in Caller \ {c} : InFlight(d)' => call'[d] = call[d] /\ InFlight(d)
    BY <2>1 DEF OthersKept, Back, InFlight, FlightPCs
  <2>3. \A b, d \in Caller : InFlight(b)' /\ InFlight(d)' /\ call'[b].s = call'[d].s => b = d
    <3>1. CASE FlightKept(c)
      BY <2>2, <3>1 DEF FlightKept, Flights
    <3>2. CASE Open(c)
      <4>1. InFlight(c)' => /\ call'[c].s = call[c].s
                            /\ \A d \in Caller : call[d].s = call[c].s => ~InFlight(d)
        BY <3>2, DoesOpen DEF Went, Back, InFlight, FlightPCs
      <4>2. QED
        BY <2>2, <4>1 DEF Flights
    <3>3. QED
      BY <1>1, <3>1, <3>2, FlightSteps
  <2>4. ASSUME NEW d \in Caller, call'[d].pc \in {"start", "persist"}
        PROVE  call'[d].s = call[d].s /\ InFlight(d) /\ ~Live(call[d].s) /\ call[d].s \in Session
    <3>1. CASE d # c
      <4>1. call'[d] = call[d] /\ InFlight(d) /\ call[d].pc # "idle"
        BY <2>2, <2>4, <3>1 DEF InFlight, FlightPCs
      <4>2. QED
        BY <2>4, <4>1, Standing DEF Flights
    <3>2. CASE d = c
      <4>1. InFlight(c) /\ call'[c].s = call[c].s
        <5>1. CASE Open(c)
          BY <2>4, <3>2, <5>1, DoesOpen DEF Went, Back
        <5>2. QED
          BY <1>1, <2>4, <3>2, <5>1, FlightSteps DEF FlightKept, InFlight, FlightPCs
      <4>2. CASE Reserve(c)
        BY <2>4, <3>2, <4>1, <4>2, DoesReserve DEF Landing, Back, Live
      <4>3. CASE Start(c)
        BY <3>2, <4>1, <4>3, DoesStart DEF Flights, At
      <4>4. CASE StartFails(c) \/ Persist(c) \/ PersistFails(c) \/ Opened(c)
        BY <2>4, <3>2, <4>4, DoesStartFails, DoesPersist, DoesPersistFails, DoesOpened
        DEF Landing, Back, Went
      <4>5. QED
        BY <1>1, <4>1, <4>2, <4>3, <4>4, TouchSteps
    <3>3. QED
      BY <3>1, <3>2
  <2>5. ASSUME NEW d \in Caller, call'[d].pc \in {"start", "persist"}
        PROVE  ~Live(call[d].s)'
    <3>1. call'[d].s = call[d].s /\ InFlight(d) /\ ~Live(call[d].s) /\ call[d].s \in Session
      BY <2>4, <2>5
    <3>2. CASE ~Persist(c)
      BY <1>1, <3>1, <3>2, RowSteps DEF Live
    <3>3. CASE Persist(c)
      <4>1. d # c /\ InFlight(c)
        BY <2>5, <3>3, DoesPersist DEF Landing, Back, Went, At, InFlight, FlightPCs
      <4>2. call[d].s # call[c].s
        BY <3>1, <4>1 DEF Flights
      <4>3. row'[call[d].s] = row[call[d].s]
        BY <3>1, <3>3, <4>2, DoesPersist DEF Typed, World
      <4>4. QED
        BY <3>1, <4>3 DEF Live
    <3>4. QED
      BY <3>2, <3>3
  <2>6. QED
    BY <2>3, <2>5 DEF Flights, Live
<1>2. ASSUME call' = call, \A s \in Session : Live(s)' => Live(s) PROVE Flights'
  <2>1. \A c \in Caller : call[c].pc \in {"start", "persist"} => call[c].s \in Session
    BY Standing
  <2>2. QED
    BY <1>2, <2>1 DEF Flights, InFlight, Live
<1>3. CASE \E t \in Thread : Consumer(t)
  BY <1>2, <1>3, DoesConsumer DEF rest, Live
<1>4. ASSUME NEW s \in Session, MarkWarmIdle(s) PROVE Flights'
  <2>1. row[s] = "active" /\ row' = [row EXCEPT ![s] = "warm"] /\ call' = call
    BY <1>4, DoesMarkWarmIdle
  <2>2. QED
    BY <1>2, <2>1 DEF Live, Typed, World
<1>5. CASE \E s \in Session : WorkerExits(s)
  BY <1>2, <1>5, DoesWorkerExits DEF Live
<1>6. CASE Restart
  BY <1>6, DoesRestart DEF Flights, InFlight, FlightPCs, Idle
<1>7. QED
  BY <1>1, <1>3, <1>4, <1>5, <1>6, NextCases

-----------------------------------------------------------------------------
(* No message is given or written twice.                                    *)

LEMMA EmptyOnce == ToSet(<<>>) = {} /\ IsInjective(<<>>)
  BY DEF ToSet, IsInjective

LEMMA AppendOnce ==
    ASSUME NEW st \in Seq(Nat), NEW m \in Nat
    PROVE  /\ ToSet(Append(st, m)) \subseteq ToSet(st) \cup {m}
           /\ m \notin ToSet(st) /\ IsInjective(st) => IsInjective(Append(st, m))
<1> DEFINE longer == Append(st, m)
<1>1. /\ Len(st) \in Nat /\ DOMAIN st = 1..Len(st) /\ DOMAIN longer = 1..Len(st) + 1
      /\ \A i \in 1..Len(st) : longer[i] = st[i]
      /\ longer[Len(st) + 1] = m
  OBVIOUS
<1>2. \A i \in DOMAIN longer : i = Len(st) + 1 \/ i \in DOMAIN st
  BY <1>1
<1> HIDE DEF longer
<1>3. ToSet(longer) \subseteq ToSet(st) \cup {m}
  BY <1>1, <1>2 DEF ToSet
<1>4. ASSUME m \notin ToSet(st), IsInjective(st) PROVE IsInjective(longer)
  <2>1. \A i \in DOMAIN st : st[i] # m
    BY <1>4 DEF ToSet
  <2>2. \A i, j \in DOMAIN st : st[i] = st[j] => i = j
    BY <1>4 DEF IsInjective
  <2>3. \A i, j \in DOMAIN longer : longer[i] = longer[j] => i = j
    BY <1>1, <1>2, <2>1, <2>2
  <2>4. QED
    BY <2>3 DEF IsInjective
<1>5. QED
  BY <1>3, <1>4 DEF longer

LEMMA OtherMessages ==
    ASSUME NEW c \in Caller, OthersKept(c)
    PROVE  \A d \in Caller \ {c} : MessageKept(d)
<1> SUFFICES ASSUME NEW d \in Caller \ {c} PROVE MessageKept(d)
  OBVIOUS
<1>1. CASE call'[d] = call[d]
  BY <1>1 DEF MessageKept, ForSend, Unposted, At
<1>2. CASE At(d, "joinOpen") /\ Back(d, {"arm", "reopened"})
  BY <1>2, BackKeeps DEF At
<1>3. QED
  BY <1>1, <1>2 DEF OthersKept

\* G and W are what the step gives to a container and writes to a transcript.
LEMMA FreshKept ==
    ASSUME Typed, Fresh, used'["sends"] = used["sends"], \A d \in Caller : MessageKept(d),
           NEW G, NEW W, G \cup W \subseteq 1..used["sends"],
           \A s \in Session : /\ ToSet(box'[s].given) \subseteq
                                   ToSet(box[s].given) \cup ToSet(transcript[s]) \cup G
                              /\ ToSet(transcript'[s]) \subseteq ToSet(transcript[s]) \cup W,
           \A d \in Caller : /\ Unposted(call'[d]) => call'[d].msg \notin G \cup W
                             /\ At(d, "append")' => call'[d].msg \notin W,
           GivenOnce'
    PROVE  Fresh'
<1>1. used'.sends = used.sends /\ used.sends \in Nat
  BY DEF Typed, World, Used
<1>2. ASSUME NEW d \in Caller
      PROVE  /\ ForSend(call'[d]) => call'[d].msg \in 1..used.sends
             /\ call'[d].msg <= used.sends
  BY <1>1 DEF MessageKept, Fresh
<1>3. ASSUME NEW d \in Caller, NEW s \in Session
      PROVE  /\ Unposted(call'[d]) => call'[d].msg \notin ToSet(box'[s].given)
             /\ Unposted(call'[d]) \/ At(d, "append")'
                  => call'[d].msg \notin ToSet(transcript'[s])
  BY DEF MessageKept, Fresh
<1>4. ASSUME NEW b \in Caller, NEW d \in Caller, call'[b].msg = call'[d].msg, call'[b].msg # 0
      PROVE  b = d
  BY <1>4 DEF MessageKept, Fresh
<1>5. ASSUME NEW s \in Session
      PROVE  ToSet(box'[s].given) \cup ToSet(transcript'[s]) \subseteq 1..used.sends
  BY <1>1 DEF Fresh
<1>6. QED
  BY <1>1, <1>2, <1>3, <1>4, <1>5 DEF Fresh, ForSend, Unposted

\* A step that neither gives a message nor writes one.
LEMMA FreshStays ==
    ASSUME Typed, Fresh, used'["sends"] = used["sends"], \A d \in Caller : MessageKept(d),
           \A s \in Session : /\ box'[s].given \in {box[s].given, transcript[s], <<>>}
                              /\ transcript'[s] \in {transcript[s], <<>>}
    PROVE  Fresh'
<1>1. GivenOnce'
  BY EmptyOnce DEF Fresh, GivenOnce
<1> DEFINE N == {}
<1>2. \A s \in Session : /\ ToSet(box'[s].given) \subseteq
                              ToSet(box[s].given) \cup ToSet(transcript[s]) \cup N
                         /\ ToSet(transcript'[s]) \subseteq ToSet(transcript[s]) \cup N
  BY EmptyOnce
<1>3. /\ N \cup N \subseteq 1..used["sends"]
      /\ \A d \in Caller : /\ Unposted(call'[d]) => call'[d].msg \notin N \cup N
                           /\ At(d, "append")' => call'[d].msg \notin N
  OBVIOUS
<1> HIDE DEF N
<1>4. QED
  BY <1>1, <1>2, <1>3, FreshKept

\* What the step of a call may give and write without a new message.
LEMMA GivenSteps ==
    ASSUME Typed, NEW c \in Caller, Moves(c),
           ~Begin(c), ~Post(c), ~PostUnreached(c), ~AppendRow(c)
    PROVE  /\ used'["sends"] = used["sends"]
           /\ \A s \in Session : /\ box'[s].given \in {box[s].given, transcript[s], <<>>}
                                 /\ transcript'[s] \in {transcript[s], <<>>}
<1>1. World
  BY DEF Typed
<1>2. used'["sends"] = used["sends"]
  BY <1>1, TouchSteps, DoesStartFails, DoesPersistFails, DoesKill, DoesRestartForSend,
     Spent DEF World
<1>3. \A s \in Session : transcript'[s] \in {transcript[s], <<>>}
  <2>1. CASE DeleteRow(c)
    <3>1. transcript' = [transcript EXCEPT ![call[c].s] = <<>>]
      BY <2>1, DoesDeleteRow
    <3>2. QED
      BY <1>1, <3>1 DEF World
  <2>2. QED
    BY <2>1, TouchSteps
<1>4. \A s \in Session : box'[s].given \in {box[s].given, transcript[s], <<>>}
  <2>1. ASSUME NEW s \in Session, NEW given \in {transcript[s], <<>>}, BoxStarts(s, given)
        PROVE  \A z \in Session : box'[z].given \in {box[z].given, transcript[z], <<>>}
    <3>1. <<>> \in Seq(Nat) /\ transcript[s] \in Seq(Nat)
      BY <1>1 DEF World
    <3>2. given \in Seq(Nat)
      BY <2>1, <3>1
    <3>3. QED
      BY <1>1, <2>1, <3>2, Begun DEF World
  <2>2. CASE Start(c) \/ StartFails(c) \/ RestartForSend(c)
    <3>1. /\ call[c].s \in Session
          /\ \/ box' = box
             \/ BoxStarts(call[c].s, <<>>)
             \/ BoxStarts(call[c].s, IF Chat(call[c].s) THEN transcript[call[c].s] ELSE <<>>)
      BY <2>2, DoesStart, DoesStartFails, DoesRestartForSend
    <3>2. QED
      BY <2>1, <3>1
  <2>3. CASE PersistFails(c) \/ Kill(c)
    <3>1. call[c].s \in Session /\ (box' = box \/ BoxEnds(call[c].s))
      BY <2>3, DoesKill, DoesPersistFails
    <3>2. QED
      BY <1>1, <3>1, Ended DEF World
  <2>4. QED
    BY <2>2, <2>3, TouchSteps
<1>5. QED
  BY <1>2, <1>3, <1>4

LEMMA FreshGiven ==
    ASSUME Typed, Fresh, NEW c \in Caller, call[c].s \in Session, OthersKept(c), MessageKept(c),
           used'["sends"] = used["sends"], Give(c), transcript' = transcript,
           Unposted(call[c]), ForSend(call[c]), ~Unposted(call'[c]), call'[c].msg = call[c].msg
    PROVE  Fresh'
<1> DEFINE s == call[c].s
           m == call[c].msg
<1>1. /\ box \in Boxes /\ m \in 1..used["sends"] /\ m \in Nat /\ used["sends"] \in Nat
      /\ m \notin ToSet(box[s].given)
  BY DEF Typed, World, Used, Fresh
<1>2. /\ box[s].given \in Seq(Nat) /\ box'[s].given = Append(box[s].given, m)
      /\ \A z \in Session \ {s} : box'[z] = box[z]
  BY <1>1, Handed
<1>3. GivenOnce'
  <2>1. \A z \in Session : IsInjective(box[z].given) /\ IsInjective(transcript[z])
    BY DEF Fresh, GivenOnce
  <2>2. IsInjective(box'[s].given)
    BY <1>1, <1>2, <2>1, AppendOnce
  <2>3. QED
    BY <1>2, <2>1, <2>2 DEF GivenOnce
<1> DEFINE G == {m}
           N == {}
<1>4. \A z \in Session : /\ ToSet(box'[z].given) \subseteq
                              ToSet(box[z].given) \cup ToSet(transcript[z]) \cup G
                         /\ ToSet(transcript'[z]) \subseteq ToSet(transcript[z]) \cup N
  BY <1>1, <1>2, AppendOnce
<1>5. \A d \in Caller : MessageKept(d)
  BY OtherMessages
<1>6. \A d \in Caller \ {c} : call[d].msg # m
  BY <1>1 DEF Fresh
<1>7. \A d \in Caller : Unposted(call'[d]) => call'[d].msg # m
  BY <1>5, <1>6 DEF MessageKept
<1>8. /\ G \cup N \subseteq 1..used["sends"]
      /\ \A d \in Caller : /\ Unposted(call'[d]) => call'[d].msg \notin G \cup N
                           /\ At(d, "append")' => call'[d].msg \notin N
  BY <1>1, <1>7
<1> HIDE DEF m, G, N
<1>9. QED
  BY <1>3, <1>4, <1>5, <1>8, FreshKept

LEMMA FreshWritten ==
    ASSUME Typed, Fresh, NEW c \in Caller, AppendRow(c)
    PROVE  Fresh'
<1> DEFINE s == call[c].s
           m == call[c].msg
<1>1. /\ At(c, "append") /\ s \in Session /\ OthersKept(c) /\ MessageKept(c)
      /\ used' = used /\ box' = box
      /\ Back(c, {}) \/ Went(c, "publish")
      /\ \/ transcript' = transcript
         \/ transcript' = [transcript EXCEPT ![s] = Append(@, m)]
      /\ Due(c, {})
  <2>1. Moves(c)
    BY DEF Moves, Sends
  <2>2. MessageKept(c)
    BY <2>1, MessageSteps DEF AppendRow, Begin, At
  <2>3. QED
    BY <2>2, DoesAppendRow DEF OthersKept, Only
<1>2. \A d \in Caller : MessageKept(d)
  BY <1>1, OtherMessages
<1>3. CASE transcript' = transcript
  BY <1>1, <1>2, <1>3, FreshStays
<1>4. CASE transcript' = [transcript EXCEPT ![s] = Append(@, m)]
  <2>1. /\ m \in 1..used["sends"] /\ m \in Nat /\ m \notin ToSet(transcript[s])
        /\ used["sends"] \in Nat /\ transcript[s] \in Seq(Nat)
    BY <1>1 DEF Typed, World, Used, Fresh, ForSend, SendPCs, At
  <2>2. /\ transcript'[s] = Append(transcript[s], m)
        /\ \A z \in Session \ {s} : transcript'[z] = transcript[z]
    BY <1>1, <1>4 DEF Typed, World
  <2>3. GivenOnce'
    <3>1. \A z \in Session : IsInjective(box[z].given) /\ IsInjective(transcript[z])
      BY DEF Fresh, GivenOnce
    <3>2. IsInjective(Append(transcript[s], m))
      BY <1>1, <2>1, <3>1, AppendOnce
    <3>3. QED
      BY <1>1, <2>2, <3>1, <3>2 DEF GivenOnce
  <2> DEFINE W == {m}
             N == {}
  <2>4. \A z \in Session : /\ ToSet(box'[z].given) \subseteq
                                ToSet(box[z].given) \cup ToSet(transcript[z]) \cup N
                           /\ ToSet(transcript'[z]) \subseteq ToSet(transcript[z]) \cup W
    BY <1>1, <2>1, <2>2, AppendOnce
  <2>5. \A d \in Caller \ {c} : call[d].msg # m
    BY <2>1 DEF Fresh
  <2>6. ~Unposted(call'[c]) /\ ~At(c, "append")'
    BY <1>1 DEF Back, Went, Due, Unposted, At
  <2>7. \A d \in Caller : Unposted(call'[d]) \/ At(d, "append")' => call'[d].msg # m
    BY <1>2, <2>5, <2>6 DEF MessageKept
  <2>8. /\ N \cup W \subseteq 1..used["sends"]
        /\ \A d \in Caller : /\ Unposted(call'[d]) => call'[d].msg \notin N \cup W
                             /\ At(d, "append")' => call'[d].msg \notin W
    BY <2>1, <2>7
  <2> HIDE DEF m, N, W
  <2>9. QED
    BY <1>1, <1>2, <2>3, <2>4, <2>8, FreshKept
<1>5. QED
  BY <1>1, <1>3, <1>4

LEMMA FreshBegun ==
    ASSUME Typed, Fresh, NEW c \in Caller, Begin(c)
    PROVE  Fresh'
<1>1. /\ Typed' /\ call'[c].pc \in {"open", "end", "delete", "subscribe", "send"}
      /\ Len(call'[c].then) = 0 /\ used["sends"] <= used'["sends"]
      /\ IF call'[c].pc = "send" THEN /\ call'[c].msg = used["sends"] + 1
                                     /\ used'["sends"] = used["sends"] + 1
         ELSE call'[c].msg = 0
      /\ \A d \in Caller \ {c} : call'[d] = call[d]
      /\ box' = box /\ transcript' = transcript
  BY DoesBegin DEF Only
<1>2. used["sends"] \in Nat /\ used'["sends"] \in Nat
  BY <1>1 DEF Typed, World, Used
<1>3. \A d \in Caller : call[d].msg \in Nat
  BY Standing
<1>4. /\ ForSend(call'[c]) => call'[c].msg = used["sends"] + 1
      /\ Unposted(call'[c]) \/ At(c, "append")' => call'[c].msg = used["sends"] + 1
  BY <1>1 DEF ForSend, Unposted, SendPCs, At
<1>5. \A d \in Caller : /\ ForSend(call'[d]) => call'[d].msg \in 1..used'["sends"]
                        /\ call'[d].msg <= used'["sends"]
  <2> SUFFICES ASSUME NEW d \in Caller
               PROVE  /\ ForSend(call'[d]) => call'[d].msg \in 1..used'["sends"]
                      /\ call'[d].msg <= used'["sends"]
    OBVIOUS
  <2>1. CASE d = c
    BY <1>1, <1>2, <1>4, <2>1 DEF ForSend, SendPCs
  <2>2. CASE d # c
    <3>1. /\ ForSend(call[d]) => call[d].msg \in 1..used["sends"]
          /\ call[d].msg <= used["sends"] /\ call'[d] = call[d]
      BY <1>1, <2>2 DEF Fresh
    <3>2. QED
      BY <1>1, <1>2, <1>3, <3>1
  <2>3. QED
    BY <2>1, <2>2
<1>6. \A s \in Session : /\ used["sends"] + 1 \notin ToSet(box[s].given)
                         /\ used["sends"] + 1 \notin ToSet(transcript[s])
  BY <1>2 DEF Fresh
<1>7. ASSUME NEW d \in Caller, NEW s \in Session
      PROVE  /\ Unposted(call'[d]) => call'[d].msg \notin ToSet(box[s].given)
             /\ Unposted(call'[d]) \/ At(d, "append")' => call'[d].msg \notin ToSet(transcript[s])
  BY <1>1, <1>4, <1>6 DEF Fresh, At
<1>8. \A b, d \in Caller : call'[b].msg = call'[d].msg /\ call'[b].msg # 0 => b = d
  <2>1. \A d \in Caller : call[d].msg # used["sends"] + 1
    BY <1>2, <1>3 DEF Fresh
  <2>2. QED
    BY <1>1, <2>1 DEF Fresh
<1>9. \A s \in Session : ToSet(box[s].given) \cup ToSet(transcript[s]) \subseteq 1..used'["sends"]
  BY <1>1, <1>2 DEF Fresh
<1>10. QED
  BY <1>1, <1>5, <1>7, <1>8, <1>9 DEF Fresh, GivenOnce, ForSend, Unposted

LEMMA FreshStep == ASSUME Typed, Fresh, Next PROVE Fresh'
<1>1. ASSUME NEW c \in Caller, Moves(c) PROVE Fresh'
  <2>1. CASE Begin(c)
    BY <2>1, FreshBegun
  <2>2. CASE AppendRow(c)
    BY <2>2, FreshWritten
  <2>3. OthersKept(c) /\ (~Begin(c) => MessageKept(c))
    BY <1>1, OthersStay, MessageSteps
  <2>4. ~Begin(c) => \A d \in Caller : MessageKept(d)
    BY <2>3, OtherMessages
  <2>5. CASE Post(c) \/ PostUnreached(c)
    <3>1. /\ call[c].s \in Session /\ call[c].pc \in {"post", "repost"} /\ Due(c, {})
          /\ Went(c, "append") \/ Went(c, "unreached")
          /\ transcript' = transcript /\ (box' = box \/ Give(c)) /\ ~Begin(c)
      BY <2>5, DoesPost, DoesPostUnreached DEF At, Begin
    <3>2. used'["sends"] = used["sends"]
      BY <2>5, DoesPost, DoesPostUnreached, Spent DEF Typed, World
    <3>3. /\ Unposted(call[c]) /\ ForSend(call[c]) /\ ~Unposted(call'[c])
          /\ call'[c].msg = call[c].msg
      BY <3>1 DEF Unposted, ForSend, SendPCs, Went, Due
    <3>4. CASE Give(c)
      BY <2>3, <3>1, <3>2, <3>3, <3>4, FreshGiven
    <3>5. CASE box' = box
      BY <2>4, <3>1, <3>2, <3>5, FreshStays
    <3>6. QED
      BY <3>1, <3>4, <3>5
  <2>6. CASE ~(Begin(c) \/ AppendRow(c) \/ Post(c) \/ PostUnreached(c))
    BY <1>1, <2>4, <2>6, GivenSteps, FreshStays
  <2>7. QED
    BY <2>1, <2>2, <2>5, <2>6
<1>2. ASSUME call' = call PROVE \A d \in Caller : MessageKept(d)
  BY <1>2 DEF MessageKept, ForSend, Unposted, At
<1>3. ASSUME NEW t \in Thread, Consumer(t) PROVE Fresh'
  <2>1. /\ call' = call /\ transcript' = transcript /\ used'["sends"] = used["sends"]
        /\ box' = box \/ (t \in Session /\ BoxStarts(t, <<>>))
    BY <1>3, DoesConsumer
  <2>2. \A s \in Session : box'[s].given \in {box[s].given, transcript[s], <<>>}
    <3>1. <<>> \in Seq(Nat)
      OBVIOUS
    <3>2. CASE t \in Session /\ BoxStarts(t, <<>>)
      BY <3>1, <3>2, Begun DEF Typed, World
    <3>3. QED
      BY <2>1, <3>2
  <2>3. QED
    BY <1>2, <2>1, <2>2, FreshStays
<1>4. CASE \E s \in Session : MarkWarmIdle(s)
  BY <1>2, <1>4, DoesMarkWarmIdle, FreshStays
<1>5. ASSUME NEW s \in Session, WorkerExits(s) PROVE Fresh'
  <2>1. \A z \in Session : box'[z].given \in {box[z].given, transcript[z], <<>>}
    BY <1>5, DoesWorkerExits, Ended DEF Typed, World
  <2>2. QED
    BY <1>2, <1>5, <2>1, DoesWorkerExits, FreshStays
<1>6. CASE Restart
  <2>1. \A d \in Caller : call'[d] = Idle
    BY <1>6, DoesRestart
  <2>2. Idle.msg = 0 /\ Idle.pc = "idle" /\ Len(Idle.then) = 0
    BY DEF Idle
  <2>3. \A d \in Caller : MessageKept(d)
    BY <2>1, <2>2 DEF MessageKept, ForSend, Unposted, SendPCs, At
  <2>4. QED
    BY <1>6, <2>3, DoesRestart, FreshStays
<1>7. QED
  BY <1>1, <1>3, <1>4, <1>5, <1>6, NextCases

-----------------------------------------------------------------------------
(* The containers have rows, and the rows have room.                        *)

\* A row is closed by its EndSession and its deletion only.
LEMMA RowKept ==
    ASSUME Typed, NEW c \in Caller, Moves(c), NEW s \in Session, Live(s), ~Live(s)'
    PROVE  (Cold(c) \/ DeleteRow(c)) /\ call[c].s = s
<1>1. row \in [Session -> {"absent", "cold", "active", "warm"}]
  BY DEF Typed, World
<1>2. CASE Rewarm(c) \/ Promote(c)
  <2>1. call[c].s \in Session
        /\ row' = [row EXCEPT ![call[c].s] = IF @ = "warm" THEN "active" ELSE @]
    BY <1>2, DoesRewarm, DoesPromote
  <2>2. QED
    BY <1>1, <2>1 DEF Live
<1>3. CASE Persist(c)
  <2>1. /\ call[c].s \in Session
        /\ row' = row \/ row' = [row EXCEPT ![call[c].s] = "active"]
    BY <1>3, DoesPersist
  <2>2. QED
    BY <1>1, <2>1 DEF Live
<1>4. CASE Cold(c) \/ DeleteRow(c)
  <2>1. /\ call[c].s \in Session
        /\ \/ row' = [row EXCEPT ![call[c].s] = IF @ = "absent" THEN @ ELSE "cold"]
           \/ row' = [row EXCEPT ![call[c].s] = "absent"]
    BY <1>4, DoesCold, DoesDeleteRow
  <2>2. QED
    BY <1>1, <1>4, <2>1 DEF Live
<1>5. CASE row' = row
  BY <1>5 DEF Live
<1>6. QED
  BY <1>2, <1>3, <1>4, <1>5, TouchSteps

\* Which containers come up.
LEMMA BoxSteps ==
    ASSUME Typed, NEW c \in Caller, Moves(c), NEW s \in Session, box'[s].up, ~box[s].up
    PROVE  (Start(c) \/ StartFails(c) \/ RestartForSend(c)) /\ call[c].s = s
<1>1. box \in Boxes /\ bridge \in Bridges /\ call[c].msg \in Nat
      /\ transcript \in [Session -> Seq(Nat)]
  BY Standing DEF Typed, World
<1>2. CASE Start(c) \/ StartFails(c) \/ RestartForSend(c)
  <2>1. /\ call[c].s \in Session
        /\ \/ box' = box
           \/ BoxStarts(call[c].s, <<>>)
           \/ BoxStarts(call[c].s, IF Chat(call[c].s) THEN transcript[call[c].s] ELSE <<>>)
    BY <1>2, DoesStart, DoesStartFails, DoesRestartForSend
  <2>2. <<>> \in Seq(Nat) /\ (call[c].s \in Session => transcript[call[c].s] \in Seq(Nat))
    BY <1>1
  <2>3. QED
    BY <1>1, <1>2, <2>1, <2>2, Begun
<1>3. CASE PersistFails(c) \/ Kill(c)
  <2>1. call[c].s \in Session /\ (box' = box \/ BoxEnds(call[c].s))
    BY <1>3, DoesKill, DoesPersistFails
  <2>2. QED
    BY <1>1, <2>1, Ended
<1>4. CASE Post(c) \/ PostUnreached(c)
  <2>1. call[c].s \in Session /\ (box' = box \/ Give(c))
    BY <1>4, DoesPost, DoesPostUnreached
  <2>2. QED
    BY <1>1, <2>1, Handed
<1>5. QED
  BY <1>2, <1>3, <1>4, TouchSteps

LEMMA TrackedCall ==
    ASSUME Typed, StatusHeld, Tracked, NEW c \in Caller, Moves(c),
           NEW s \in Session \ adrift', box'[s].up
    PROVE  Opening(s)' \/ (Live(s)' /\ ~Closing(s)')
<1>1. OthersKept(c) /\ s \notin adrift
  BY OthersStay, TouchSteps, DoesStartFails, DoesPersist, DoesKill, DoesDeleteRow
<1>2. ASSUME ~(Kill(c) /\ call[c].s = s), ~Closing(s) PROVE ~Closing(s)'
  <2>1. \A d \in Caller \ {c} : At(d, "cold")' => call'[d] = call[d] /\ At(d, "cold")
    BY <1>1 DEF OthersKept, Back, At
  <2>2. CASE Kill(c)
    <3>1. call'[c].s # s
      BY <1>2, <2>2, DoesKill DEF Went
    <3>2. QED
      BY <1>2, <2>1, <3>1 DEF Closing, At
  <2>3. CASE ~Kill(c)
    <3>1. ~At(c, "cold")'
      BY <2>3, StatusSteps, DoesCold DEF StatusKept, Back, Went, At
    <3>2. QED
      BY <1>2, <2>1, <3>1 DEF Closing, At
  <2>4. QED
    BY <2>2, <2>3
<1>3. ~(Kill(c) /\ call[c].s = s) /\ ~(PersistFails(c) /\ call[c].s = s)
  <2>1. ASSUME BoxEnds(s) PROVE FALSE
    BY <2>1, Ended DEF Typed, World
  <2>2. QED
    BY <2>1, DoesKill, DoesPersistFails
<1>4. ASSUME Free(s, "status") PROVE ~Closing(s)
  BY <1>4, ChatAssumption DEF StatusHeld, Closing, Free
<1>5. CASE ~box[s].up
  <2>1. call[c].s = s /\ (Start(c) \/ StartFails(c) \/ RestartForSend(c))
    BY <1>5, BoxSteps
  <2>2. CASE Start(c)
    BY <2>1, <2>2, DoesStart DEF Opening, Went, At
  <2>3. CASE StartFails(c)
    BY <1>5, <2>1, <2>3, DoesStartFails
  <2>4. CASE RestartForSend(c)
    <3>1. Live(s) /\ Free(s, "status") /\ Live(s)'
      BY <1>5, <2>1, <2>4, DoesRestartForSend DEF Live
    <3>2. ~Kill(c)
      BY <2>4, DoesKill, DoesRestartForSend DEF At
    <3>3. QED
      BY <1>2, <1>4, <3>1, <3>2
  <2>5. QED
    BY <2>1, <2>2, <2>3, <2>4
<1>6. CASE box[s].up /\ Opening(s)
  <2>1. PICK d \in Caller : call[d].s = s /\ At(d, "persist")
    BY <1>6 DEF Opening
  <2>2. CASE d # c
    <3>1. call'[d] = call[d]
      BY <1>1, <2>1, <2>2 DEF OthersKept, At
    <3>2. QED
      BY <2>1, <3>1 DEF Opening, At
  <2>3. CASE d = c
    <3>1. Persist(c)
      BY <1>3, <2>1, <2>3, TouchSteps, DoesReserve, DoesStart, DoesStartFails, DoesOpened
      DEF At, InFlight, FlightPCs
    <3>2. /\ Free(s, "status")
          /\ \/ s \in adrift'
             \/ row' = [row EXCEPT ![s] = "active"]
      BY <2>1, <2>3, <3>1, DoesPersist
    <3>3. Live(s)'
      BY <3>2 DEF Live, Typed, World
    <3>4. QED
      BY <1>2, <1>3, <1>4, <3>2, <3>3
  <2>4. QED
    BY <2>2, <2>3
<1>7. CASE Live(s) /\ ~Closing(s)
  <2>1. ASSUME ~Live(s)' PROVE FALSE
    <3>1. (Cold(c) \/ DeleteRow(c)) /\ call[c].s = s
      BY <1>7, <2>1, RowKept
    <3>2. ~Cold(c)
      BY <1>7, <3>1, DoesCold DEF Closing
    <3>3. QED
      BY <1>7, <3>1, <3>2, DoesDeleteRow
  <2>2. QED
    BY <1>2, <1>3, <1>7, <2>1
<1>8. QED
  BY <1>1, <1>5, <1>6, <1>7 DEF Tracked

LEMMA TrackedStep == ASSUME Typed, StatusHeld, Tracked, Next PROVE Tracked'
<1>1. CASE \E c \in Caller : Moves(c)
  BY <1>1, TrackedCall DEF Tracked, Live
<1>2. ASSUME NEW t \in Thread, Consumer(t) PROVE Tracked'
  <2>1. /\ call' = call /\ row' = row /\ adrift' = adrift
        /\ \/ box' = box
           \/ t \in Session /\ Live(t) /\ Free(t, "status") /\ BoxStarts(t, <<>>)
    BY <1>2, DoesConsumer DEF rest, history
  <2>2. CASE box' = box
    BY <2>1, <2>2 DEF Tracked, Opening, Closing, Live, At
  <2>3. CASE t \in Session /\ Live(t) /\ Free(t, "status") /\ BoxStarts(t, <<>>)
    <3>1. <<>> \in Seq(Nat)
      OBVIOUS
    <3>2. \A z \in Session \ {t} : box'[z] = box[z]
      BY <2>3, <3>1, Begun DEF Typed, World
    <3>3. ~Closing(t)
      BY <2>3, ChatAssumption DEF StatusHeld, Closing, Free
    <3>4. QED
      BY <2>1, <2>3, <3>2, <3>3 DEF Tracked, Opening, Closing, Live, At
  <2>4. QED
    BY <2>1, <2>2, <2>3
<1>3. ASSUME NEW s \in Session, MarkWarmIdle(s) PROVE Tracked'
  <2>1. \A z \in Session : Live(z)' <=> Live(z)
    BY <1>3, DoesMarkWarmIdle DEF Live, Typed, World
  <2>2. QED
    BY <1>3, <2>1, DoesMarkWarmIdle DEF Tracked, Opening, Closing, At, Live
<1>4. ASSUME NEW s \in Session, WorkerExits(s) PROVE Tracked'
  <2>1. \A z \in Session : box'[z].up => box[z].up
    BY <1>4, DoesWorkerExits, Ended DEF Typed, World
  <2>2. QED
    BY <1>4, <2>1, DoesWorkerExits DEF Tracked, Opening, Closing, At, Live
<1>5. CASE Restart
  <2>1. \A c \in Caller : ~At(c, "cold")'
    BY <1>5, DoesRestart DEF At, Idle
  <2>2. QED
    BY <1>5, <2>1, DoesRestart DEF Tracked, Closing, At, Live
<1>6. QED
  BY <1>1, <1>2, <1>3, <1>4, <1>5, NextCases

\* The reservations, and the sessions they are for.
LEMMA SlotSteps ==
    ASSUME Typed, NEW c \in Caller, Moves(c), ~Reserve(c)
    PROVE  \A d \in Slots' : d \in Slots /\ call'[d].s = call[d].s
<1>1. /\ OthersKept(c) /\ Typed' /\ kind' = kind
      /\ \A d \in Slots' : InFlight(d)'
  <2>1. OthersKept(c) /\ Typed' /\ kind' = kind
    BY OthersStay
  <2>2. \A d \in Caller : Shape(call[d])'
    BY <2>1 DEF Typed, Calls
  <2>3. QED
    BY <2>1, <2>2 DEF Slots, Shape, InFlight, FlightPCs
<1>2. \A d \in Slots' \ {c} : d \in Slots /\ call'[d].s = call[d].s
  BY <1>1 DEF OthersKept, Back, InFlight, FlightPCs, Slots
<1>3. CASE InFlight(c)
  <2>1. \/ Landing(c) /\ Slots' = Slots \ {c}
        \/ Slots' = Slots /\ call'[c].s = call[c].s
    BY <1>3, TouchSteps, DoesStart, DoesStartFails, DoesPersist, DoesPersistFails, DoesOpened
    DEF Went
  <2>2. QED
    BY <1>2, <2>1
<1>4. CASE ~InFlight(c)
  <2>1. c \notin Slots'
    <3>1. CASE Open(c)
      <4>1. Slots' = Slots /\ ~call[c].slot
        BY <3>1, DoesOpen, Standing DEF At, Shape
      <4>2. QED
        BY <4>1 DEF Slots
    <3>2. CASE ~Open(c)
      BY <1>1, <1>4, <3>2, FlightSteps DEF FlightKept
    <3>3. QED
      BY <3>1, <3>2
  <2>2. QED
    BY <1>2, <2>1
<1>5. QED
  BY <1>3, <1>4

LEMMA SessionsOf ==
    ASSUME NEW S \in SUBSET Caller
    PROVE  /\ IsFiniteSet({call[c].s : c \in S})
           /\ Cardinality({call[c].s : c \in S}) <= Cardinality(S)
<1> DEFINE T == {call[c].s : c \in S}
           f == [c \in S |-> call[c].s]
<1>1. IsFiniteSet(S)
  BY ChatAssumption, FS_Subset
<1>2. f \in Surjection(S, T)
  BY DEF Surjection
<1> HIDE DEF f, T
<1>3. IsFiniteSet(T) /\ Cardinality(T) <= Cardinality(S)
  BY <1>1, <1>2, FS_Surjection
<1>4. QED
  BY <1>3 DEF T

LEMMA OccupiedFinite ==
    ASSUME Typed
    PROVE  Occupied \subseteq Session /\ IsFiniteSet(Occupied) /\ Cardinality(Occupied) \in Nat
<1>1. \A c \in Slots : call[c].s \in Session
  BY Standing DEF Slots, Shape
<1>2. Occupied \subseteq Session
  BY <1>1 DEF Occupied
<1>3. QED
  BY <1>2, ChatAssumption, FS_Subset, FS_CardinalityType

LEMMA RoomKept ==
    ASSUME Typed, Typed', Room, Occupied' \subseteq Occupied
    PROVE  Room'
<1>1. Cardinality(Occupied') <= Cardinality(Occupied)
  BY OccupiedFinite, FS_Subset
<1>2. Cardinality(Occupied') \in Nat /\ Cardinality(Occupied) \in Nat /\ MaxConcurrent \in Nat
  BY OccupiedFinite, FS_Subset, FS_CardinalityType, ChatAssumption
<1>3. QED
  BY <1>1, <1>2 DEF Room

LEMMA RoomStep == ASSUME Typed, Room, Next PROVE Room'
<1>1. Typed' /\ kind' = kind
  BY TypedStep
<1>2. ASSUME NEW c \in Caller, Moves(c), ~Reserve(c) PROVE Room'
  <2>1. \A d \in Slots' : d \in Slots /\ call'[d].s = call[d].s
    BY <1>2, SlotSteps
  <2>2. ASSUME NEW s \in Session, Chat(s), Live(s)' PROVE s \in Occupied
    <3>1. CASE Live(s)
      BY <2>2, <3>1 DEF Occupied
    <3>2. CASE ~Live(s)
      <4>1. Persist(c)
        BY <1>2, <2>2, <3>2, RowSteps
      <4>2. call[c].s = s /\ At(c, "persist")
        BY <2>2, <3>2, <4>1, DoesPersist DEF Live, Typed, World
      <4>3. c \in Slots
        BY <2>2, <4>2, Standing DEF Shape, Chat, Slots, At
      <4>4. QED
        BY <4>2, <4>3 DEF Occupied
    <3>3. QED
      BY <3>1, <3>2
  <2>3. Occupied' \subseteq Occupied
    BY <1>1, <2>1, <2>2 DEF Occupied, Chat
  <2>4. QED
    BY <1>1, <2>3, RoomKept
<1>3. ASSUME NEW c \in Caller, Reserve(c) PROVE Room'
  <2> DEFINE s == call[c].s
             A == {z \in Session : Chat(z) /\ Live(z)}
  <2>1. row' = row /\ \A z \in Session : (Chat(z) /\ Live(z))' <=> Chat(z) /\ Live(z)
    BY <1>1, <1>3, DoesReserve DEF Chat, Live
  <2>2. CASE Landing(c) /\ Slots' = Slots \ {c}
    <3>1. \A d \in Slots' : call'[d].s = call[d].s
      <4>1. \A d \in Slots : d # c => ~Joins(d, c)
        BY Standing DEF Slots, Shape, Joins, At
      <4>2. QED
        BY <2>2, <4>1 DEF Landing, Slots
    <3>2. Occupied' \subseteq Occupied
      BY <2>1, <2>2, <3>1 DEF Occupied
    <3>3. QED
      BY <1>1, <3>2, RoomKept
  <2>3. CASE Only(c) /\ Went(c, "start") /\ Slots' = Slots
    <3>1. Occupied' \subseteq Occupied
      BY <2>1, <2>3 DEF Occupied, Only, Went, Slots
    <3>2. QED
      BY <1>1, <3>1, RoomKept
  <2>4. CASE /\ Only(c) /\ Went(c, "start") /\ Slots' = Slots \cup {c}
             /\ Cardinality(A) + Cardinality(Slots) < MaxConcurrent
    <3> DEFINE R == Slots \cup {c}
               B == {call[d].s : d \in R}
    <3>1. R \in SUBSET Caller /\ IsFiniteSet(Slots)
      BY ChatAssumption, FS_Subset DEF Slots
    <3>2. Occupied' = A \cup B
      BY <2>1, <2>4 DEF Occupied, Only, Went, Slots
    <3> HIDE DEF A
    <3>3. IsFiniteSet(A) /\ Cardinality(A) \in Nat
      BY ChatAssumption, FS_Subset, FS_CardinalityType DEF A
    <3>4. Cardinality(R) <= Cardinality(Slots) + 1 /\ Cardinality(R) \in Nat
          /\ Cardinality(Slots) \in Nat
      <4>1. Cardinality(Slots) \in Nat
        BY <3>1, FS_CardinalityType
      <4>2. Cardinality(R) = IF c \in Slots THEN Cardinality(Slots) ELSE Cardinality(Slots) + 1
        BY <3>1, FS_AddElement
      <4>3. QED
        BY <4>1, <4>2
    <3> HIDE DEF R
    <3>5. IsFiniteSet(B) /\ Cardinality(B) <= Cardinality(R)
      BY <3>1, SessionsOf
    <3> HIDE DEF B
    <3>6. Cardinality(B) \in Nat /\ Cardinality(A \cap B) \in Nat
      BY <3>3, <3>5, FS_CardinalityType, FS_Intersection
    <3>7. Cardinality(A \cup B) = Cardinality(A) + Cardinality(B) - Cardinality(A \cap B)
      BY <3>3, <3>5, FS_Union
    <3>8. Cardinality(A \cup B) <= MaxConcurrent
      BY <2>4, <3>3, <3>4, <3>5, <3>6, <3>7, ChatAssumption
    <3>9. QED
      BY <3>2, <3>8 DEF Room
  <2>5. QED
    BY <1>3, <2>2, <2>3, <2>4, DoesReserve
<1>4. ASSUME call' = call, \A s \in Session : Live(s)' => Live(s) PROVE Room'
  <2>1. Occupied' \subseteq Occupied
    BY <1>1, <1>4 DEF Occupied, Slots, Chat
  <2>2. QED
    BY <1>1, <2>1, RoomKept
<1>5. CASE \E t \in Thread : Consumer(t)
  BY <1>4, <1>5, DoesConsumer DEF Live
<1>6. ASSUME NEW s \in Session, MarkWarmIdle(s) PROVE Room'
  <2>1. row[s] = "active" /\ row' = [row EXCEPT ![s] = "warm"] /\ call' = call
    BY <1>6, DoesMarkWarmIdle
  <2>2. QED
    BY <1>4, <2>1 DEF Live, Typed, World
<1>7. CASE \E s \in Session : WorkerExits(s)
  BY <1>4, <1>7, DoesWorkerExits DEF Live
<1>8. CASE Restart
  <2>1. Slots' = {} /\ row' = row
    BY <1>8, DoesRestart DEF Slots, Idle
  <2>2. Occupied' \subseteq Occupied
    BY <1>1, <2>1 DEF Occupied, Chat, Live
  <2>3. QED
    BY <1>1, <2>2, RoomKept
<1>9. QED
  BY <1>2, <1>3, <1>5, <1>6, <1>7, <1>8, NextCases

-----------------------------------------------------------------------------
(* The sessions that have no consumer.                                      *)

\* What EndSession has to write yet, as the code reads it.
LEMMA EndingCloses ==
    ASSUME Typed, NEW c \in Caller
    PROVE  Ending(c) <=> Closes(call[c])
<1>1. CASE At(c, "join")
  <2>1. call[c].then \in Seq(PCs) /\ call[c].then # <<>>
    BY <1>1, Standing DEF Shape, Fits, At
  <2>2. Head(call[c].then) = call[c].then[1]
    BY <2>1, PopFacts
  <2>3. QED
    BY <1>1, <2>2 DEF Ending, Closes, At
<1>2. CASE ~At(c, "join")
  BY <1>2 DEF Ending, Closes, At
<1>3. QED
  BY <1>1, <1>2

LEMMA LinkedStays ==
    ASSUME NEW s \in Session, Linked(s), kind' = kind, Live(s)' <=> Live(s),
           bridge'[s].pc = bridge[s].pc,
           Chat(s) /\ box'[s].up => box[s].up /\ (bridge'[s].over => bridge[s].over),
           Closers(s)' \subseteq Closers(s),
           Attended(s) => Attended(s)'
    PROVE  Linked(s)'
  BY DEF Linked, Chat

LEMMA Unlinked ==
    ASSUME NEW s \in Session, ~Live(s)', bridge'[s].pc = "none", ~bridge'[s].over
    PROVE  Linked(s)'
  BY DEF Linked

\* The calls on a session that another call's step leaves as they are.
LEMMA OtherClosers ==
    ASSUME Typed, NEW c \in Caller, Moves(c), NEW s \in Session
    PROVE  /\ Closers(s)' \subseteq Closers(s) \cup {c}
           /\ call[c].s # s \/ ClosesKept(c) => Closers(s)' \subseteq Closers(s)
           /\ call[c].s # s \/ AttendsKept(c) => (Attended(s) => Attended(s)')
<1>1. OthersKept(c)
  BY OthersStay
<1>2. \A d \in Caller \ {c} : /\ Closes(call'[d]) => call'[d] = call[d]
                              /\ Attends(call[d]) => call'[d] = call[d]
  BY <1>1 DEF OthersKept, Back, At, Closes, Attends
<1>3. Closes(call'[c]) => call'[c].s = call[c].s
  <2>1. CASE End(c)
    BY <2>1, DoesEnd DEF Pushed, Back, Closes
  <2>2. QED
    BY <2>1, ClosingSteps DEF ClosesKept
<1>4. QED
  BY <1>2, <1>3 DEF Closers, Attended, ClosesKept, AttendsKept

\* A step on another session.
LEMMA AsideSteps ==
    ASSUME Typed, NEW c \in Caller, Moves(c), NEW s \in Session, call[c].s # s
    PROVE  /\ row'[s] = row[s] /\ box'[s].up = box[s].up
           /\ bridge'[s].pc = bridge[s].pc /\ bridge'[s].over = bridge[s].over
<1>1. /\ box \in Boxes /\ bridge \in Bridges /\ call[c].msg \in Nat
      /\ row \in [Session -> {"absent", "cold", "active", "warm"}]
      /\ transcript \in [Session -> Seq(Nat)]
  BY Standing DEF Typed, World
<1>2. s \in Thread /\ s # c /\ SessionOf(s) = s
  BY ChatAssumption DEF Thread, SessionOf
<1>3. row'[s] = row[s]
  <2>1. CASE Rewarm(c) \/ Promote(c)
    BY <1>1, <2>1, DoesRewarm, DoesPromote
  <2>2. CASE Persist(c) \/ Cold(c) \/ DeleteRow(c)
    BY <1>1, <2>2, DoesPersist, DoesCold, DoesDeleteRow
  <2>3. QED
    BY <2>1, <2>2, TouchSteps
<1>4. box'[s].up = box[s].up
  <2>1. CASE BoxEnds(call[c].s) /\ call[c].s \in Session
    BY <1>1, <2>1, Ended
  <2>2. ASSUME NEW given \in Seq(Nat), BoxStarts(call[c].s, given), call[c].s \in Session
        PROVE  box'[s].up = box[s].up
    BY <1>1, <2>2, Begun
  <2>3. CASE Start(c) \/ StartFails(c) \/ RestartForSend(c)
    <3>1. <<>> \in Seq(Nat)
      OBVIOUS
    <3>2. /\ call[c].s \in Session
          /\ \/ box' = box
             \/ BoxStarts(call[c].s, <<>>)
             \/ BoxStarts(call[c].s, transcript[call[c].s])
      BY <2>3, DoesStart, DoesStartFails, DoesRestartForSend
    <3>3. QED
      BY <1>1, <2>2, <3>1, <3>2
  <2>4. CASE Kill(c) \/ PersistFails(c)
    BY <2>1, <2>4, DoesKill, DoesPersistFails
  <2>5. CASE Post(c) \/ PostUnreached(c)
    <3>1. call[c].s \in Session /\ (box' = box \/ Give(c))
      BY <2>5, DoesPost, DoesPostUnreached
    <3>2. CASE Give(c)
      BY <1>1, <3>1, <3>2, Handed
    <3>3. QED
      BY <3>1, <3>2
  <2>6. QED
    BY <2>3, <2>4, <2>5, TouchSteps
<1>5. bridge'[s].pc = bridge[s].pc /\ bridge'[s].over = bridge[s].over
  <2>1. CASE Bridge(c) \/ Opened(c)
    <3>1. call[c].s \in Session
          /\ (StartConsumer(call[c].s, TRUE) \/ StartConsumer(call[c].s, FALSE))
      BY <2>1, DoesBridge, DoesOpened
    <3>2. QED
      BY <1>1, <1>2, <3>1, Started
  <2>2. CASE End(c) \/ DeleteStop(c)
    <3>1. /\ call[c].s \in Session
          /\ \/ bridge' = bridge
             \/ bridge' = [bridge EXCEPT ![call[c].s] = NoBridge, ![c] = bridge[call[c].s]]
      BY <2>2, DoesEnd, DoesDeleteStop
    <3>2. CASE bridge' = bridge
      BY <3>2
    <3>3. CASE bridge' = [bridge EXCEPT ![call[c].s] = NoBridge, ![c] = bridge[call[c].s]]
      BY <1>1, <1>2, <3>1, <3>3, Stopped
    <3>4. QED
      BY <3>1, <3>2, <3>3
  <2>3. CASE Kill(c) \/ PersistFails(c)
    <3>1. call[c].s \in Session /\ (bridge' = bridge \/ BoxEnds(call[c].s))
      BY <2>3, DoesKill, DoesPersistFails
    <3>2. CASE BoxEnds(call[c].s)
      BY <1>1, <1>2, <3>1, <3>2, Ended
    <3>3. QED
      BY <3>1, <3>2
  <2>4. QED
    BY <2>1, <2>2, <2>3, TouchSteps
<1>6. QED
  BY <1>3, <1>4, <1>5

\* The history of a session only grows.
LEMMA HistoryGrows ==
    ASSUME Typed, NEW c \in Caller, Moves(c)
    PROVE  adrift \subseteq adrift' /\ crossed \subseteq crossed'
<1>1. adrift \subseteq adrift'
  BY TouchSteps, DoesStartFails, DoesPersist, DoesKill, DoesDeleteRow
<1>2. CASE Bridge(c) \/ Opened(c)
  <2>1. call[c].s \in Session
        /\ (StartConsumer(call[c].s, TRUE) \/ StartConsumer(call[c].s, FALSE))
    BY <1>2, DoesBridge, DoesOpened
  <2>2. QED
    BY <1>1, <2>1, Started DEF Typed, World
<1>3. CASE End(c) \/ DeleteStop(c) \/ Kill(c) \/ PersistFails(c)
  BY <1>1, <1>3, DoesEnd, DoesDeleteStop, DoesKill, DoesPersistFails
<1>4. QED
  BY <1>1, <1>2, <1>3, TouchSteps

\* A call registers a consumer: of an open row that nobody closes, unless the session
\* is crossed.
LEMMA LinkedByStart ==
    ASSUME Typed, Consumers, NEW c \in Caller, Bridge(c) \/ Opened(c),
           NEW s \in Session \ crossed', call[c].s = s, Linked(s)
    PROVE  Linked(s)'
<1>1. /\ Moves(c) /\ kind' = kind /\ row' = row /\ box' = box
      /\ StartConsumer(s, TRUE) \/ StartConsumer(s, FALSE)
  BY DoesBridge, DoesOpened DEF Moves, Opens
<1>2. Closers(s)' \subseteq Closers(s)
  <2>1. ClosesKept(c)
    BY <1>1, ClosingSteps, DoesBridge, DoesOpened, DoesEnd DEF At
  <2>2. QED
    BY <1>1, <2>1, OtherClosers
<1>3. CASE bridge[s].pc # "none"
  <2>1. bridge'[s] = bridge[s]
    BY <1>1, <1>3, Started DEF Typed, World
  <2>2. QED
    BY <1>1, <1>2, <1>3, <2>1 DEF Linked, Live, Chat
<1>4. CASE bridge[s].pc = "none"
  <2>1. /\ bridge'[s].over = bridge[s].over
        /\ bridge'[s].pc = "open" \/ (bridge'[s].pc = "restart" /\ ~Chat(s))
        /\ Live(s) /\ \A d \in Caller : call[d].s = s => ~Ending(d)
    BY <1>1, <1>4, Started DEF Typed, World
  <2>2. Closers(s) = {}
    BY <2>1, EndingCloses DEF Closers
  <2>3. ~bridge[s].over
    BY <1>4 DEF Consumers, Thread
  <2>4. QED
    BY <1>1, <1>2, <2>1, <2>2, <2>3 DEF Linked, Live, Chat
<1>5. QED
  BY <1>3, <1>4

\* A call takes the consumer away: it is about to close the row, or to delete it.
LEMMA LinkedByStop ==
    ASSUME Typed, NEW c \in Caller, End(c) \/ DeleteStop(c),
           NEW s \in Session, call[c].s = s, Linked(s)
    PROVE  Linked(s)'
<1>1. Moves(c) /\ kind' = kind /\ row' = row /\ box' = box /\ ~Attends(call[c])
  BY DoesEnd, DoesDeleteStop DEF Moves, Ends, At, Attends, Closes
<1>2. CASE End(c) /\ ~Live(s)
  <2>1. bridge' = bridge /\ ~Closes(call'[c])
    BY <1>2, DoesEnd DEF Back, Closes
  <2>2. ClosesKept(c) /\ AttendsKept(c)
    BY <1>1, <2>1 DEF ClosesKept, AttendsKept
  <2>3. Live(s)' <=> Live(s)
    BY <1>1 DEF Live
  <2>4. QED
    BY <1>1, <2>1, <2>2, <2>3, LinkedStays, OtherClosers
<1>3. CASE DeleteStop(c) \/ Live(s)
  <2>1. /\ bridge' = [bridge EXCEPT ![call[c].s] = NoBridge, ![c] = bridge[call[c].s]]
        /\ Pushed(c, "join", "delrow") \/ Pushed(c, "join", "kill")
    BY <1>3, DoesEnd, DoesDeleteStop
  <2>2. bridge'[s].pc = "none" /\ ~bridge'[s].over
    <3>1. bridge'[s] = NoBridge
      BY <2>1, Stopped DEF Typed, World
    <3>2. QED
      BY <3>1 DEF NoBridge
  <2>3. Attended(s)'
    BY <2>1 DEF Attended, Attends, Closes, Pushed
  <2>4. QED
    BY <2>2, <2>3 DEF Linked
<1>4. QED
  BY <1>2, <1>3

\* The other steps of a call that are about the session.
LEMMA LinkedByStep ==
    ASSUME Typed, Starters, Consumers, Flights, NEW c \in Caller, Moves(c),
           ~(Bridge(c) \/ Opened(c) \/ End(c) \/ DeleteStop(c)),
           NEW s \in Session \ adrift', call[c].s = s, Linked(s)
    PROVE  Linked(s)'
<1>1. /\ box \in Boxes /\ bridge \in Bridges /\ call[c].msg \in Nat /\ kind' = kind
      /\ row \in [Session -> {"absent", "cold", "active", "warm"}]
      /\ s \in Thread /\ (bridge[s].pc = "none" => ~bridge[s].over)
  BY Standing, OthersStay DEF Typed, World, Thread, Consumers
<1>2. Closers(s)' \subseteq Closers(s) /\ (AttendsKept(c) => (Attended(s) => Attended(s)'))
  BY ClosingSteps, OtherClosers
<1>3. CASE Start(c) \/ StartFails(c)
  <2>1. ~Live(s) /\ row' = row /\ bridge' = bridge
    BY <1>3, DoesStart, DoesStartFails DEF Flights, At
  <2>2. QED
    BY <1>1, <2>1, Unlinked DEF Linked, Live
<1>4. CASE PersistFails(c)
  <2>1. row[s] = "cold" /\ row' = row /\ BoxEnds(s)
    BY <1>4, DoesPersistFails
  <2>2. bridge[s].pc = "none"
    BY <2>1 DEF Linked, Live
  <2>3. bridge'[s].pc = "none" /\ ~bridge'[s].over
    BY <1>1, <2>1, <2>2, Ended
  <2>4. QED
    BY <2>1, <2>3, Unlinked DEF Live
<1>5. CASE Persist(c)
  <2>1. /\ row' = [row EXCEPT ![s] = "active"] /\ bridge' = bridge /\ Went(c, "opened")
        /\ ~Live(s)
    BY <1>5, DoesPersist DEF Flights, At
  <2>2. Attended(s)'
    BY <2>1 DEF Attended, Attends, Went
  <2>3. QED
    BY <1>1, <2>1, <2>2 DEF Linked
<1>6. CASE Cold(c) \/ DeleteRow(c)
  <2>1. bridge' = bridge /\ bridge[s].pc = "none"
    <3>1. CASE Cold(c)
      BY <3>1, DoesCold DEF Linked, Closers, Closes, At
    <3>2. CASE DeleteRow(c)
      BY <3>2, DoesDeleteRow DEF Linked
    <3>3. QED
      BY <1>6, <3>1, <3>2
  <2>2. ~Live(s)'
    BY <1>1, <1>6, DoesCold, DoesDeleteRow DEF Live
  <2>3. QED
    BY <1>1, <2>1, <2>2, Unlinked
<1>7. CASE ~(\/ Start(c) \/ StartFails(c) \/ PersistFails(c) \/ Persist(c) \/ Cold(c)
             \/ DeleteRow(c))
  <2>1. Attended(s) => Attended(s)'
    BY <1>2, <1>7, AttendSteps
  <2>2. Live(s)' <=> Live(s)
    <3>1. CASE Rewarm(c) \/ Promote(c)
      BY <1>1, <3>1, DoesRewarm, DoesPromote DEF Live
    <3>2. QED
      BY <1>7, <3>1, TouchSteps DEF Live
  <2>3. CASE Kill(c)
    <3>1. BoxEnds(s)
      BY <2>3, DoesKill
    <3>2. bridge'[s].pc = bridge[s].pc /\ ~box'[s].up
      BY <1>1, <3>1, Ended
    <3>3. QED
      BY <1>1, <1>2, <2>1, <2>2, <3>2, LinkedStays
  <2>4. CASE ~Kill(c)
    <3>1. bridge' = bridge
      BY <1>7, <2>4, TouchSteps
    <3>2. Chat(s) /\ box'[s].up => box[s].up
      <4>1. CASE Post(c) \/ PostUnreached(c)
        <5>1. box' = box \/ Give(c)
          BY <4>1, DoesPost, DoesPostUnreached
        <5>2. QED
          BY <1>1, <5>1, Handed
      <4>2. CASE RestartForSend(c)
        BY <4>2, DoesRestartForSend DEF Starters, At
      <4>3. QED
        BY <1>7, <2>4, <4>1, <4>2, TouchSteps
    <3>3. QED
      BY <1>1, <1>2, <2>1, <2>2, <3>1, <3>2, LinkedStays
  <2>5. QED
    BY <2>3, <2>4
<1>8. QED
  BY <1>3, <1>4, <1>5, <1>6, <1>7

LEMMA BridgedStep ==
    ASSUME Typed, Starters, Consumers, Flights, Bridged, Next
    PROVE  Bridged'
<1>1. /\ kind' = kind /\ box \in Boxes /\ bridge \in Bridges
      /\ row \in [Session -> {"absent", "cold", "active", "warm"}]
      /\ Session \subseteq Thread
  BY TypedStep DEF Typed, World, Thread
<1>2. ASSUME NEW c \in Caller, Moves(c), NEW s \in Session \ (adrift' \cup crossed')
      PROVE  Linked(s)'
  <2>1. Linked(s)
    BY <1>2, HistoryGrows DEF Bridged
  <2>2. CASE call[c].s # s
    <3>1. /\ row'[s] = row[s] /\ box'[s].up = box[s].up
          /\ bridge'[s].pc = bridge[s].pc /\ bridge'[s].over = bridge[s].over
      BY <1>2, <2>2, AsideSteps
    <3>2. Closers(s)' \subseteq Closers(s) /\ (Attended(s) => Attended(s)')
      BY <1>2, <2>2, OtherClosers
    <3>3. Live(s)' <=> Live(s)
      BY <3>1 DEF Live
    <3>4. QED
      BY <1>1, <2>1, <3>1, <3>2, <3>3, LinkedStays
  <2>3. CASE call[c].s = s
    BY <1>2, <2>1, <2>3, LinkedByStart, LinkedByStop, LinkedByStep
  <2>4. QED
    BY <2>2, <2>3
<1>3. ASSUME call' = call
      PROVE  \A s \in Session : Closers(s)' = Closers(s) /\ (Attended(s) => Attended(s)')
  BY <1>3 DEF Closers, Attended
<1>4. ASSUME NEW t \in Thread, Consumer(t), NEW s \in Session \ (adrift' \cup crossed')
      PROVE  Linked(s)'
  <2>1. /\ Turned(t) /\ call' = call /\ row' = row /\ adrift' = adrift /\ crossed' = crossed
        /\ \/ box' = box
           \/ t \in Session /\ Live(t) /\ bridge[t].pc = "restart" /\ BoxStarts(t, <<>>)
    BY <1>4, DoesConsumer DEF rest, history
  <2>2. Linked(s) /\ (Live(s)' <=> Live(s)) /\ Closers(s)' = Closers(s)
        /\ (Attended(s) => Attended(s)')
    BY <1>3, <1>4, <2>1 DEF Bridged, Live
  <2>3. t # s \/ bridge[t].pc # "restart" => box'[s] = box[s]
    <3>1. CASE BoxStarts(t, <<>>) /\ t \in Session
      <4>1. <<>> \in Seq(Nat)
        OBVIOUS
      <4>2. \A z \in Session \ {t} : box'[z] = box[z]
        BY <1>1, <3>1, <4>1, Begun
      <4>3. QED
        BY <2>1, <4>2
    <3>2. QED
      BY <2>1, <3>1
  <2>4. CASE t # s
    <3>1. bridge'[s] = bridge[s] /\ box'[s] = box[s]
      BY <1>1, <2>1, <2>3, <2>4 DEF Turned
    <3>2. QED
      BY <1>1, <2>2, <3>1, LinkedStays
  <2>5. CASE t = s
    <3>1. Live(s) /\ Closers(s) = {} /\ bridge[s].pc # "none"
      BY <2>1, <2>2, <2>5 DEF Turned, Linked
    <3>2. /\ bridge'[s].over => bridge[s].over
          /\ bridge'[s].pc = "none" => bridge[s].pc = "exit"
          /\ bridge'[s].pc = "exit" => bridge[s].over /\ Chat(s)
      BY <2>1, <2>5, <3>1 DEF Turned
    <3>3. bridge[s].pc = "restart" => ~Chat(s)
      BY DEF Consumers
    <3>4. QED
      BY <1>1, <2>2, <2>3, <2>5, <3>1, <3>2, <3>3 DEF Linked, Chat
  <2>6. QED
    BY <2>4, <2>5
<1>5. ASSUME NEW w \in Session, MarkWarmIdle(w), NEW s \in Session \ (adrift' \cup crossed')
      PROVE  Linked(s)'
  <2>1. /\ row[w] = "active" /\ row' = [row EXCEPT ![w] = "warm"]
        /\ UNCHANGED <<box, bridge, call, adrift, crossed>>
    BY <1>5, DoesMarkWarmIdle
  <2>2. Live(s)' <=> Live(s)
    BY <1>1, <2>1 DEF Live
  <2>3. Linked(s)
    BY <2>1 DEF Bridged
  <2>4. QED
    BY <1>1, <1>3, <2>1, <2>2, <2>3, LinkedStays
<1>6. ASSUME NEW w \in Session, WorkerExits(w), NEW s \in Session \ (adrift' \cup crossed')
      PROVE  Linked(s)'
  <2>1. BoxEnds(w) /\ UNCHANGED <<row, call, adrift, crossed>>
    BY <1>6, DoesWorkerExits
  <2>2. Linked(s) /\ (Live(s)' <=> Live(s))
    BY <2>1 DEF Bridged, Live
  <2>3. /\ bridge'[s].pc = bridge[s].pc
        /\ box'[s].up => box[s].up /\ (bridge'[s].over => bridge[s].over)
    <3>1. SessionOf(s) = s
      BY DEF SessionOf
    <3>2. QED
      BY <1>1, <2>1, <3>1, Ended
  <2>4. QED
    BY <1>1, <1>3, <2>1, <2>2, <2>3, LinkedStays
<1>7. ASSUME Restart, NEW s \in Session \ (adrift' \cup crossed')
      PROVE  Linked(s)'
  <2>1. NoBridge.pc = "none" /\ ~NoBridge.over
    BY DEF NoBridge
  <2>2. Closers(s)' = {}
    BY <1>7, DoesRestart DEF Closers, Closes, Idle
  <2>3. Live(s)' <=> Live(s)
    BY <1>7, DoesRestart DEF Live
  <2>4. QED
    BY <1>1, <1>7, <2>1, <2>2, <2>3, DoesRestart DEF Linked, Chat
<1>8. QED
  BY <1>2, <1>4, <1>5, <1>6, <1>7, NextCases DEF Bridged

-----------------------------------------------------------------------------
(* The inductive invariant.                                                 *)

LEMMA InitIInv == Init => IInv
<1> SUFFICES ASSUME Init PROVE IInv
  OBVIOUS
<1>1. Typed
  BY TypedInit
<1>2. \A c \in Caller : /\ call[c] = Idle /\ call[c].pc = "idle" /\ call[c].then = <<>>
                        /\ Len(call[c].then) = 0 /\ call[c].msg = 0 /\ ~call[c].slot
  BY DEF Init, Idle
<1>3. /\ \A s \in Session : /\ ~Live(s) /\ ~box[s].up /\ box[s].given = <<>>
                            /\ transcript[s] = <<>>
                            /\ \A k \in {"status", "hub", "transcript"} : lock[s][k] = "free"
      /\ \A t \in Thread : bridge[t].pc = "none" /\ ~bridge[t].over
      /\ used.sends = 0
  <2>1. used = [k \in DOMAIN Bound |-> 0]
        /\ DOMAIN Bound = {"calls", "sends", "faults", "restarts"}
    BY ChatAssumption DEF Init
  <2>2. QED
    BY <2>1 DEF Init, Live, Down, NoBridge
<1>4. Mutexes
  <2>1. StatusHeld /\ HubHeld /\ TranscriptHeld
    BY <1>2, <1>3, ChatAssumption DEF StatusHeld, HubHeld, TranscriptHeld, At
  <2>2. Starters /\ Consumers
    BY <1>2, <1>3 DEF Starters, Consumers, Thread
  <2>3. QED
    BY <2>1, <2>2 DEF Mutexes
<1>5. Flights
  BY <1>2 DEF Flights, InFlight, FlightPCs
<1>6. Fresh
  <2>1. GivenOnce
    BY <1>3, EmptyOnce DEF GivenOnce
  <2>2. \A c \in Caller : ~ForSend(call[c]) /\ ~Unposted(call[c]) /\ ~At(c, "append")
    BY <1>2 DEF ForSend, Unposted, SendPCs, At
  <2>3. QED
    BY <1>2, <1>3, <2>1, <2>2, EmptyOnce DEF Fresh
<1>7. Limited
  <2>1. Occupied = {}
    BY <1>2, <1>3 DEF Occupied, Slots
  <2>2. Room
    BY <2>1, FS_EmptySet, ChatAssumption DEF Room
  <2>3. QED
    BY <1>3, <2>2 DEF Limited, Tracked
<1>8. Bridged
  BY <1>3 DEF Bridged, Linked, Thread
<1>9. QED
  BY <1>1, <1>4, <1>5, <1>6, <1>7, <1>8 DEF IInv

LEMMA StepIInv == IInv /\ [Next]_vars => IInv'
<1> SUFFICES ASSUME IInv, [Next]_vars PROVE IInv'
  OBVIOUS
<1> USE DEF IInv
<1>1. CASE Next
  <2>1. StatusHeld /\ Starters /\ Consumers /\ Tracked /\ Room
    BY DEF Mutexes, Limited
  <2>2. Limited'
    BY <1>1, <2>1, TrackedStep, RoomStep DEF Limited
  <2>3. QED
    BY <1>1, <2>1, <2>2, TypedStep, MutexesStep, FlightsStep, FreshStep, BridgedStep
<1>2. CASE UNCHANGED vars
  <2>1. UNCHANGED <<kind, row, transcript, box, lock, pending, bridge, call, fails, used,
                    adrift, crossed>>
    BY <1>2 DEF vars, history
  <2>2. Typed'
    BY <2>1 DEF Typed, World, Calls, Shape, Fits, Slots
  <2>3. Mutexes'
    BY <2>1 DEF Mutexes, StatusHeld, HubHeld, TranscriptHeld, Starters, Consumers, Chat, At
  <2>4. Flights'
    BY <2>1 DEF Flights, InFlight, Live
  <2>5. Fresh'
    BY <2>1 DEF Fresh, GivenOnce, At
  <2>6. Limited'
    BY <2>1 DEF Limited, Tracked, Room, Opening, Closing, Occupied, Slots, Live, Chat, At
  <2>7. Bridged'
    BY <2>1 DEF Bridged, Linked, Attended, Closers, Live, Chat
  <2>8. QED
    BY <2>2, <2>3, <2>4, <2>5, <2>6, <2>7
<1>3. QED
  BY <1>1, <1>2

LEMMA Inductive == Spec => []IInv
  BY InitIInv, StepIInv, PTL DEF Spec

-----------------------------------------------------------------------------
(* What it gives.                                                           *)

\* Whatever calls, consumers, failures and restarts interleave, every variable keeps to
\* the values the code gives it, and pendingActive counts the opens that hold a
\* reservation: none is leaked, and none is released twice.
THEOREM ChatSessionTyped == Spec => []CTypeOK
<1>1. IInv => CTypeOK
  <2> SUFFICES ASSUME IInv PROVE CTypeOK
    OBVIOUS
  <2>1. Typed /\ World /\ Calls /\ used.sends \in Nat /\ Bound["sends"] \in Nat
        /\ used.sends <= Bound["sends"]
    BY ChatAssumption DEF IInv, Typed, World, Used
  <2>2. 1..used.sends \subseteq 1..Bound["sends"]
    BY <2>1
  <2>3. \A s \in Session : /\ box[s].up \in BOOLEAN
                           /\ ToSet(box[s].given) \cup ToSet(transcript[s])
                              \subseteq 1..Bound["sends"]
                           /\ fails[s] \in 0..MaxSendFailures - 1
    BY <2>1, <2>2 DEF IInv, Fresh, World, Boxes
  <2>4. pending = Cardinality({c \in Caller : call[c].slot})
    BY <2>1 DEF Typed, Slots
  <2>5. \A c \in Caller : call[c].pc \in PCs
    BY <2>1 DEF Calls, CallType
  <2>6. QED
    BY <2>1, <2>3, <2>4, <2>5 DEF CTypeOK, World, Locks, Bridges
<1>2. QED
  BY <1>1, Inductive, PTL

\* chat.max_concurrent holds for every number of sessions, callers and failures: the
\* containers of chats that the manager has not lost track of are never more than the
\* limit, because each has an open row or the reservation of the open that started it.
THEOREM LimitKept == Spec => []WithinLimit
<1>1. IInv => WithinLimit
  <2> SUFFICES ASSUME IInv PROVE WithinLimit
    OBVIOUS
  <2> DEFINE U == {s \in Session : Chat(s) /\ box[s].up} \ adrift
  <2>1. Typed /\ Tracked /\ Room
    BY DEF IInv, Limited
  <2>2. ASSUME NEW s \in U PROVE s \in Occupied
    <3>1. CASE Live(s)
      BY <2>2, <3>1 DEF Occupied
    <3>2. CASE Opening(s)
      <4>1. PICK c \in Caller : call[c].s = s /\ At(c, "persist")
        BY <3>2 DEF Opening
      <4>2. c \in Slots
        BY <2>1, <2>2, <4>1, Standing DEF Slots, Shape, Chat, At
      <4>3. QED
        BY <4>1, <4>2 DEF Occupied
    <3>3. QED
      BY <2>1, <2>2, <3>1, <3>2 DEF Tracked
  <2>3. IsFiniteSet(Occupied) /\ Cardinality(Occupied) \in Nat /\ MaxConcurrent \in Nat
    BY <2>1, OccupiedFinite, ChatAssumption
  <2>4. U \subseteq Occupied
    BY <2>2
  <2> HIDE DEF U
  <2>5. Cardinality(U) <= Cardinality(Occupied) /\ Cardinality(U) \in Nat
    BY <2>3, <2>4, FS_Subset, FS_CardinalityType
  <2>6. Cardinality(U) <= MaxConcurrent
    BY <2>1, <2>3, <2>5 DEF Room
  <2>7. QED
    BY <2>6 DEF U, WithinLimit
<1>2. QED
  BY <1>1, Inductive, PTL

\* EndSession and DeleteSession leave no container behind: with the calls on a session
\* returned, whatever runs for it has an open row, but for the sessions whose container
\* the manager has lost track of.
THEOREM EndedIsDown == Spec => []ClosedIsEnded
<1>1. IInv => ClosedIsEnded
  BY DEF IInv, Limited, Tracked, Opening, ClosedIsEnded, NoCall
<1>2. QED
  BY <1>1, Inductive, PTL

\* A session that is open and has its container has a consumer at work once the calls on
\* it have returned: stopConsumer's promise to a reopen, with the one exception it has.
THEOREM OpenIsBridged == Spec => []LiveIsBridged
<1>1. IInv => LiveIsBridged
  BY DEF IInv, Bridged, Linked, Attended, LiveIsBridged, NoCall
<1>2. QED
  BY <1>1, Inductive, PTL

\* No retry, restart, resume or reopening gives a container a message twice, or writes
\* it twice to the transcript.
THEOREM MessagesOnce == Spec => []GivenOnce
<1>1. IInv => GivenOnce
  BY DEF IInv, Fresh
<1>2. QED
  BY <1>1, Inductive, PTL

-----------------------------------------------------------------------------
(* Who waits for whom.  The waiting threads have ranks, and each waits only *)
(* for threads of a lower rank or for ones that do not wait.                *)

WaitsOf(u) == IF u[1] = "call" THEN CallWaits(u[2]) ELSE BridgeWaits(u[2])
Threads == ({"call"} \X Caller) \cup ({"bridge"} \X Thread)
ACall(u, P) == \E d \in Caller : u = <<"call", d>> /\ call[d].pc \in P
ABridge(u, p) == \E t \in Thread : u = <<"bridge", t>> /\ bridge[t].pc = p

OnStatus(u) == ACall(u, StatusPCs) \/ ABridge(u, "restart")
OnHub(u) == ACall(u, HubPCs \cup {"joinOpen"})
OnTranscript(u) == ACall(u, {"arm", "relock"}) \/ ABridge(u, "frame")
OnConsumer(u) == ACall(u, {"join"})
Runs(u) == WaitsOf(u) = {}

\* What the wait of a call is, in the order of the cases.
WaitOf(c) ==
    IF At(c, "join") THEN {<<"bridge", c>>}
    ELSE IF At(c, "joinOpen")
    THEN {<<"call", d>> : d \in {d \in Caller : call[d].s = call[c].s
                                                /\ call[d].pc \in FlightPCs}}
    ELSE IF call[c].pc \in StatusPCs THEN Holder("status", call[c].s)
    ELSE IF call[c].pc \in HubPCs THEN Holder("hub", call[c].s)
    ELSE IF call[c].pc \in {"arm", "relock"} /\ ~Chat(call[c].s)
    THEN Holder("transcript", call[c].s)
    ELSE {}

LEMMA CallWaitsFor ==
    ASSUME NEW c \in Caller
    PROVE  WaitsOf(<<"call", c>>) = WaitOf(c)
<1>1. CASE At(c, "join")
  BY <1>1 DEF WaitsOf, WaitOf, CallWaits, At, StatusPCs, HubPCs
<1>2. CASE At(c, "joinOpen")
  BY <1>2 DEF WaitsOf, WaitOf, CallWaits, At, StatusPCs, HubPCs
<1>3. CASE call[c].pc \in StatusPCs
  BY <1>3 DEF WaitsOf, WaitOf, CallWaits, At, StatusPCs, HubPCs
<1>4. CASE call[c].pc \in HubPCs
  BY <1>4 DEF WaitsOf, WaitOf, CallWaits, At, StatusPCs, HubPCs
<1>5. CASE call[c].pc \in {"arm", "relock"}
  BY <1>5 DEF WaitsOf, WaitOf, CallWaits, At, StatusPCs, HubPCs
<1>6. CASE call[c].pc \notin {"join", "joinOpen", "arm", "relock"} \cup StatusPCs \cup HubPCs
  BY <1>6 DEF WaitsOf, WaitOf, CallWaits, At, StatusPCs, HubPCs
<1>7. QED
  BY <1>1, <1>2, <1>3, <1>4, <1>5, <1>6 DEF At

\* A call that holds a mutex, or the flight of an open, and what it can wait for.
LEMMA Holders ==
    ASSUME Typed, Mutexes, NEW s \in Session
    PROVE  /\ \A u \in Holder("status", s) : Runs(u)
           /\ \A u \in Holder("hub", s) : OnStatus(u) \/ Runs(u)
           /\ \A u \in Holder("transcript", s) : OnHub(u) \/ Runs(u)
           /\ \A d \in Caller : InFlight(d) => OnStatus(<<"call", d>>) \/ Runs(<<"call", d>>)
<1>1. ASSUME NEW k \in {"status", "hub", "transcript"}, NEW u \in Holder(k, s)
      PROVE  \E d \in Caller : u = <<"call", d>> /\ lock[s][k] = d
  BY <1>1 DEF Holder, Free, Typed, World, Locks
<1>2. ASSUME NEW d \in Caller,
             call[d].pc \notin {"join", "joinOpen", "arm", "relock"} \cup StatusPCs \cup HubPCs
      PROVE  Runs(<<"call", d>>)
  BY <1>2, CallWaitsFor DEF WaitOf, Runs, At
<1>3. ASSUME NEW u \in Holder("status", s) PROVE Runs(u)
  <2>1. PICK d \in Caller : u = <<"call", d>> /\ lock[s]["status"] = d
    BY <1>1, <1>3
  <2>2. At(d, "cold")
    BY <2>1 DEF Mutexes, StatusHeld
  <2>3. QED
    BY <1>2, <2>1, <2>2 DEF At, StatusPCs, HubPCs
<1>4. ASSUME NEW u \in Holder("hub", s) PROVE OnStatus(u) \/ Runs(u)
  <2>1. PICK d \in Caller : u = <<"call", d>> /\ lock[s]["hub"] = d
    BY <1>1, <1>4
  <2>2. Subscribed(call[d]) /\ call[d].pc \in PCs /\ Shape(call[d])
    BY <2>1, Standing DEF Mutexes, HubHeld, CallType
  <2>3. call[d].pc \in {"unhub", "attach", "reread", "bridge", "promote"}
    BY <2>2 DEF Subscribed, Shape, Fits, PCs, StatusPCs, HubPCs, FlightPCs, OpenPCs, EndPCs,
       SendPCs
  <2>4. QED
    BY <1>2, <2>1, <2>3 DEF OnStatus, ACall, StatusPCs, HubPCs
<1>5. ASSUME NEW u \in Holder("transcript", s) PROVE OnHub(u) \/ Runs(u)
  <2>1. PICK d \in Caller : u = <<"call", d>> /\ lock[s]["transcript"] = d
    BY <1>1, <1>5
  <2>2. call[d].pc \in ArmedPCs
    BY <2>1 DEF Mutexes, TranscriptHeld
  <2>3. QED
    BY <1>2, <2>1, <2>2 DEF OnHub, ACall, ArmedPCs, StatusPCs, HubPCs
<1>6. ASSUME NEW d \in Caller, InFlight(d)
      PROVE  OnStatus(<<"call", d>>) \/ Runs(<<"call", d>>)
  BY <1>2, <1>6 DEF InFlight, FlightPCs, OnStatus, ACall, StatusPCs, HubPCs
<1>7. QED
  BY <1>3, <1>4, <1>5, <1>6

LEMMA Ranked ==
    ASSUME Typed, Mutexes, NEW u \in Threads
    PROVE  /\ Runs(u) \/ OnStatus(u) \/ OnHub(u) \/ OnTranscript(u) \/ OnConsumer(u)
           /\ \A v \in WaitsOf(u) :
                /\ OnStatus(u) => Runs(v)
                /\ OnHub(u) => Runs(v) \/ OnStatus(v)
                /\ OnTranscript(u) => Runs(v) \/ OnStatus(v) \/ OnHub(v)
                /\ OnConsumer(u) => Runs(v) \/ OnStatus(v) \/ OnTranscript(v)
<1>1. ASSUME NEW t \in Thread
      PROVE  /\ bridge[t].pc = "restart" =>
                  WaitsOf(<<"bridge", t>>) = Holder("status", SessionOf(t))
             /\ bridge[t].pc = "frame" =>
                  WaitsOf(<<"bridge", t>>) \subseteq
                    Holder("hub", SessionOf(t)) \cup Holder("transcript", SessionOf(t))
             /\ bridge[t].pc \notin {"restart", "frame"} => WaitsOf(<<"bridge", t>>) = {}
             /\ bridge[t].pc # "none" => SessionOf(t) \in Session
  <2>1. bridge[t].pc # "none" => SessionOf(t) \in Session
    BY Standing DEF Mutexes, Consumers, SessionOf, Thread, At
  <2>2. QED
    BY <2>1 DEF WaitsOf, BridgeWaits
<1>2. CASE \E c \in Caller : u = <<"call", c>>
  <2>1. PICK c \in Caller : u = <<"call", c>>
    BY <1>2
  <2>2. /\ \A P : ACall(u, P) <=> call[c].pc \in P
        /\ \A p : ~ABridge(u, p)
    BY <2>1 DEF ACall, ABridge
  <2>3. call[c].pc # "idle" => call[c].s \in Session
    BY Standing
  <2>4. CASE At(c, "join")
    <3>1. WaitsOf(u) = {<<"bridge", c>>} /\ c \in Thread
      BY <2>1, <2>4, CallWaitsFor DEF WaitOf, Thread
    <3>2. \/ Runs(<<"bridge", c>>) \/ OnStatus(<<"bridge", c>>)
          \/ OnTranscript(<<"bridge", c>>)
      BY <1>1, <3>1 DEF Runs, OnStatus, OnTranscript, ABridge
    <3>3. QED
      BY <2>2, <2>4, <3>1, <3>2 DEF OnStatus, OnHub, OnTranscript, OnConsumer, At, StatusPCs,
         HubPCs
  <2>5. CASE At(c, "joinOpen")
    <3>1. \A v \in WaitsOf(u) : \E d \in Caller : v = <<"call", d>> /\ InFlight(d)
      BY <2>1, <2>5, CallWaitsFor DEF WaitOf, InFlight, At
    <3>2. \A d \in Caller : InFlight(d) => OnStatus(<<"call", d>>) \/ Runs(<<"call", d>>)
      BY <2>3, <2>5, Holders DEF At
    <3>3. \A v \in WaitsOf(u) : Runs(v) \/ OnStatus(v)
      BY <3>1, <3>2
    <3>4. QED
      BY <2>2, <2>5, <3>3 DEF OnStatus, OnHub, OnTranscript, OnConsumer, At, StatusPCs, HubPCs
  <2>6. CASE call[c].pc \in StatusPCs
    <3>1. WaitsOf(u) = Holder("status", call[c].s) /\ call[c].s \in Session
      BY <2>1, <2>3, <2>6, CallWaitsFor DEF WaitOf, At, StatusPCs, HubPCs
    <3>2. QED
      BY <2>2, <2>6, <3>1, Holders
      DEF OnStatus, OnHub, OnTranscript, OnConsumer, StatusPCs, HubPCs
  <2>7. CASE call[c].pc \in HubPCs
    <3>1. WaitsOf(u) = Holder("hub", call[c].s) /\ call[c].s \in Session
      BY <2>1, <2>3, <2>7, CallWaitsFor DEF WaitOf, At, StatusPCs, HubPCs
    <3>2. QED
      BY <2>2, <2>7, <3>1, Holders
      DEF OnStatus, OnHub, OnTranscript, OnConsumer, StatusPCs, HubPCs
  <2>8. CASE call[c].pc \in {"arm", "relock"}
    <3>1. WaitsOf(u) \subseteq Holder("transcript", call[c].s) /\ call[c].s \in Session
      BY <2>1, <2>3, <2>8, CallWaitsFor DEF WaitOf, At, StatusPCs, HubPCs
    <3>2. QED
      BY <2>2, <2>8, <3>1, Holders
      DEF OnStatus, OnHub, OnTranscript, OnConsumer, StatusPCs, HubPCs
  <2>9. CASE call[c].pc \notin {"join", "joinOpen", "arm", "relock"} \cup StatusPCs \cup HubPCs
    BY <2>1, <2>9, CallWaitsFor DEF WaitOf, Runs, At
  <2>10. QED
    BY <2>4, <2>5, <2>6, <2>7, <2>8, <2>9 DEF At
<1>3. CASE \E t \in Thread : u = <<"bridge", t>>
  <2>1. PICK t \in Thread : u = <<"bridge", t>>
    BY <1>3
  <2>2. /\ \A P : ~ACall(u, P)
        /\ \A p : ABridge(u, p) <=> bridge[t].pc = p
    BY <2>1 DEF ACall, ABridge
  <2>3. CASE bridge[t].pc = "restart"
    BY <1>1, <2>1, <2>2, <2>3, Holders DEF OnStatus, OnHub, OnTranscript, OnConsumer
  <2>4. CASE bridge[t].pc = "frame"
    BY <1>1, <2>1, <2>2, <2>4, Holders DEF OnStatus, OnHub, OnTranscript, OnConsumer
  <2>5. CASE bridge[t].pc \notin {"restart", "frame"}
    BY <1>1, <2>1, <2>5 DEF Runs
  <2>6. QED
    BY <2>3, <2>4, <2>5
<1>4. QED
  BY <1>2, <1>3 DEF Threads

\* Opening, ending, deleting, subscribing, sending and the consumers never wait for one
\* another in a circle, whatever the number of sessions and callers: the status mutex is
\* the innermost, the hub's and the flights come next, the transcript's after them, and
\* stopConsumer's wait is made with none of them held.
THEOREM NoCircle == Spec => []NobodyWaitsForever
<1>1. IInv => NobodyWaitsForever
  <2> SUFFICES ASSUME IInv PROVE NobodyWaitsForever
    OBVIOUS
  <2> DEFINE blocked == {u \in Threads : WaitsOf(u) # {}}
  <2>1. \A u \in Threads :
          /\ Runs(u) \/ OnStatus(u) \/ OnHub(u) \/ OnTranscript(u) \/ OnConsumer(u)
          /\ \A v \in WaitsOf(u) :
               /\ OnStatus(u) => Runs(v)
               /\ OnHub(u) => Runs(v) \/ OnStatus(v)
               /\ OnTranscript(u) => Runs(v) \/ OnStatus(v) \/ OnHub(v)
               /\ OnConsumer(u) => Runs(v) \/ OnStatus(v) \/ OnTranscript(v)
    BY Ranked DEF IInv
  <2>2. ASSUME NEW S, S \in SUBSET blocked, S # {}
        PROVE  \E u \in S : WaitsOf(u) \cap S = {}
    <3>1. S \subseteq Threads /\ \A u \in S : ~Runs(u)
      BY <2>2 DEF Runs
    <3> HIDE DEF blocked
    <3>2. CASE \E u \in S : OnStatus(u)
      BY <2>1, <3>1, <3>2
    <3>3. CASE (\E u \in S : OnHub(u)) /\ ~(\E u \in S : OnStatus(u))
      BY <2>1, <3>1, <3>3
    <3>4. CASE (\E u \in S : OnTranscript(u)) /\ ~(\E u \in S : OnStatus(u) \/ OnHub(u))
      BY <2>1, <3>1, <3>4
    <3>5. CASE ~(\E u \in S : OnStatus(u) \/ OnHub(u) \/ OnTranscript(u))
      BY <2>1, <2>2, <3>1, <3>5
    <3>6. QED
      BY <3>2, <3>3, <3>4, <3>5
  <2> HIDE DEF blocked
  <2>3. \A S \in (SUBSET blocked) \ {{}} : \E u \in S : WaitsOf(u) \cap S = {}
    BY <2>2
  <2>4. QED
    BY <2>3 DEF blocked, NobodyWaitsForever, WaitsOf, Threads
<1>2. QED
  BY <1>1, Inductive, PTL

=============================================================================
