------------------------- MODULE PlaybookRunProofs -------------------------
(***************************************************************************)
(* Proofs about PlaybookRun.  IInv, the inductive invariant, is a stack of *)
(* layers, each resting on those before it:                                *)
(*                                                                         *)
(*   Typed, Decided   what the variables hold, and what a pass has decided *)
(*                    by where it stands;                                  *)
(*   Registry         walkers form a chain of prev, the registered walker  *)
(*                    at its end: so at most one of them is in a pass;     *)
(*   Uncancelled      a walker outside the registry is cancelled;          *)
(*   Locks            who holds the playbooks' lock, and what a failed     *)
(*                    commit restores;                                     *)
(*   Walked           an active run has a walker, or a call or a nudge     *)
(*                    that is about to give it one;                        *)
(*   Pending          a card queued by the run is in its walker's hands;   *)
(*   Known, Alone     what the snapshot of a pass says of the other cards, *)
(*   Held             so that a launch finds no second worker, of the run  *)
(*                    or started by hand;                                  *)
(*   Quieting,Settled what Stop has still to kill, and what it has killed; *)
(*   Requested        a card that is being reopened stays as it is.        *)
(*                                                                         *)
(* OnceInv, the last part, adds to IInv that a card is launched once:      *)
(*                                                                         *)
(*   Distinct         an entry stands at one place;                        *)
(*   Placed, Aimed    a pass gets no further than the card its run has     *)
(*                    launched;                                            *)
(*   Abreast          what it skipped is finished, while its run stands;   *)
(*   Stands           the run points at the card it launched, and what     *)
(*                    precedes that card is finished.                      *)
(***************************************************************************)
EXTENDS PlaybookRun, FiniteSetTheorems, FunctionTheorems, SequenceTheorems,
        WellFoundedInduction, TLAPS

Statuses == {"none", "running", "waiting", "stopped", "completed"}
Books == [entries : Seq(Entry), done : SUBSET Entry, ids : SUBSET Entry, runnable : BOOLEAN,
          run : Runs]
Passes == [run : Runs, entries : Seq(Entry), complete : SUBSET Entry, at : Nat \ {0},
           want : Statuses \X (Entry \cup {NoEntry}), then : {"idle", "launch", "release"}]
Pcs == {"none", "idle", "hold", "walk", "prepare", "write", "commit", "launch", "queue",
        "trigger", "release"}
Walks == [pc : Pcs, prev : Slot \cup {0}, cancelled : BOOLEAN, nudge : BOOLEAN, pass : Passes]
Controls == [pc : {"idle", "playCommit", "ensure", "stopCommit", "cancel", "join", "kill"},
             targets : SUBSET Card, join : Slot \cup {0}, excused : BOOLEAN]
Cards == [state : {"todo", "busy", "stalled", "done"},
          worker : {"none", "queued", "running", "failed", "parked"},
          box : {"none", "pending", "run", "hand"}]

\* An entry of the playbook is one it handed out; a run points at an entry.
Sound(book) ==
    /\ ToSet(book.entries) \subseteq book.ids
    /\ book.run.entry \in ToSet(book.entries) \cup {NoEntry}
    /\ Active(book.run) => book.runnable

Typed ==
    /\ card \in [Card -> Cards]
    /\ playbook \in Books /\ Sound(playbook)
    /\ mutex \in [by : {"nobody", "play", "stop", "edit", "walker"}, old : Books]
    /\ Sound(mutex.old)
    /\ walker \in Slot \cup {0} /\ exiting \in Slot \cup {0}
    /\ walk \in [Slot -> Walks]
    /\ control \in Controls
    /\ closed \in BOOLEAN /\ sent \in SUBSET Card
    /\ undone \in BOOLEAN /\ stopOk \in BOOLEAN /\ crashed \in BOOLEAN

\* What a pass has decided, by where it stands.
Launching(w) == \/ walk[w].pc \in {"prepare", "launch", "queue", "trigger"}
                \/ (walk[w].pc \in {"write", "commit"} /\ walk[w].pass.then = "launch")
Decided(w) ==
    LET p == walk[w].pass IN
    /\ Launching(w) => p.at \in DOMAIN p.entries /\ Frontier(w) \in Card
    /\ MidPass(w) /\ walk[w].pc # "commit" => Active(p.run)
    /\ walk[w].pc \in {"launch", "queue", "trigger"} => p.run.entry = Frontier(w)
    /\ walk[w].pc \in {"write", "commit"} =>
        /\ p.then = "launch" => p.want = <<"running", Frontier(w)>>
        /\ p.then = "release" => p.want[1] = "completed"
        /\ p.then # "release" => p.want[1] \in {"running", "waiting"}
    /\ walk[w].pc = "commit" =>
        /\ p.run = playbook.run
        /\ p.run.status = p.want[1] /\ p.run.entry = p.want[2]

Exists(w) == walk[w].pc # "none"
Newest == IF walker # 0 THEN walker ELSE exiting

Registry ==
    /\ \A v, w \in Slot : Exists(v) /\ Exists(w) /\ walk[v].prev = walk[w].prev => v = w
    /\ \A w \in Slot : Exists(w) =>
        /\ walk[w].prev # Newest
        /\ walk[w].prev # 0 => walk[w].pc = "idle" /\ Exists(walk[w].prev)
    /\ walker # 0 => Exists(walker) /\ walk[walker].prev = exiting
    /\ exiting # 0 => Exists(exiting)
    /\ control.join \in {0, exiting}
    /\ control.pc # "join" => control.join = 0

Uncancelled ==
    /\ \A w \in Slot : Exists(w) /\ ~walk[w].cancelled => w = walker /\ ~closed
    /\ walker # 0 /\ ~closed => ~walk[walker].cancelled

Locks ==
    /\ \A w \in Slot : walk[w].pc = "commit" => mutex.by = "walker"
    /\ mutex.by = "walker" => \E w \in Slot : walk[w].pc = "commit"
    /\ mutex.by = "play" <=> control.pc = "playCommit"
    /\ mutex.by = "stop" <=> control.pc = "stopCommit"
    /\ mutex.by \in {"play", "stop", "walker"} =>
        [mutex.old EXCEPT !.run = playbook.run] = playbook
    /\ mutex.by = "play" => ~undone /\ ~Active(mutex.old.run)
    /\ mutex.by \in {"stop", "walker"} => Active(mutex.old.run)
    /\ mutex.by = "edit" =>
        /\ Active(playbook.run) \/ Active(mutex.old.run) => mutex.old.run = playbook.run
        /\ mutex.old.ids \subseteq playbook.ids
    /\ control.pc \in {"stopCommit", "cancel", "join", "kill"} => ~Active(playbook.run)
    /\ control.pc \in {"cancel", "join", "kill"} => mutex.by \in {"nobody", "edit"}

Walked ==
    /\ ~closed /\ control.pc \notin {"playCommit", "stopCommit", "ensure"}
    /\ (Active(playbook.run) \/ mutex.by = "walker")
    => walker # 0 /\ (walk[walker].pc = "release" => walk[walker].nudge)

Pending == ~crashed => \A c \in Card : card[c].box = "pending" =>
            \E w \in Slot : walk[w].pc = "trigger" /\ Frontier(w) = c

\* The ids that stand whether or not an edit under way is committed.
Ids == IF mutex.by = "edit" THEN mutex.old.ids ELSE playbook.ids

Known ==
    /\ playbook.run.entry \in Ids \cup {NoEntry}
    /\ mutex.by # "nobody" => mutex.old.run.entry \in Ids \cup {NoEntry}
    /\ \A w \in Slot : MidPass(w) => walk[w].pass.run.entry \in Ids \cup {NoEntry}
    /\ \A c \in Card : LaunchedLive(c) => c \in Ids

PastHold(w) == walk[w].pc = "walk" \/ (Launching(w) /\ walk[w].pc # "trigger")
Among(entries, S) == \A c \in Card \cap ToSet(entries) : LaunchedLive(c) => c \in S

Alone ==
    /\ \A w \in Slot : PastHold(w) => Among(walk[w].pass.entries, {})
    /\ \A w \in Slot : MidPass(w) /\ ~walk[w].cancelled =>
        \/ Among(playbook.entries, ToSet(walk[w].pass.entries))
        \/ undone /\ \/ Active(playbook.run) \/ control.pc \in {"stopCommit", "cancel"}
                     \/ walk[w].pc = "commit"
    /\ mutex.by = "edit" => \A w \in Slot : MidPass(w) /\ ~walk[w].cancelled =>
        \/ Among(mutex.old.entries, ToSet(walk[w].pass.entries))
        \/ Active(mutex.old.run) \/ control.pc = "cancel"

AmongAll(S) == Among(playbook.entries, S) /\ (mutex.by = "edit" => Among(mutex.old.entries, S))

Quieting ==
    control.pc \in {"stopCommit", "cancel", "join", "kill"} /\ ~control.excused =>
        /\ AmongAll(control.targets)
        /\ \A w \in Slot : MidPass(w) => walk[w].pass.run.entry \notin Card \ control.targets
        /\ control.pc \in {"stopCommit", "cancel"} => exiting = 0
        /\ control.pc = "join" => walker = 0 /\ control.join = exiting
        /\ control.pc = "kill" => walker = 0 /\ exiting = 0

Settled ==
    stopOk => /\ AmongAll({})
              /\ control.pc = "idle" /\ ~Active(playbook.run) /\ mutex.by \in {"nobody", "edit"}
              /\ \A w \in Slot : ~MidPass(w)

\* Also a hand run holds the pass back, as long as the run is the one it read.
Held ==
    ~Excused => \A w \in Slot : MidPass(w) /\ walk[w].pass.run = playbook.run =>
        /\ ToSet(walk[w].pass.entries) \subseteq playbook.ids
        /\ PastHold(w) => \A c \in Card \cap ToSet(walk[w].pass.entries)
                                     \cap ToSet(playbook.entries) : ~Live(c)

\* The requests under way: a card that is being reopened is not written meanwhile.
Requested ==
    /\ asked \subseteq Card /\ reopening \in Card \cup {NoEntry}
    /\ reopening # NoEntry => Terminal(reopening)

-----------------------------------------------------------------------------
(* Operators.                                                               *)

LEMMA LeastExists ==
    ASSUME NEW S \in SUBSET Nat, S # {}
    PROVE  Min(S) \in S
<1>1. PICK x \in S : \A y \in S : ~(<<y, x>> \in OpToRel(<, Nat))
  BY NatLessThanWellFounded, WFMin
<1>2. \A y \in S : x =< y
  <2> SUFFICES ASSUME NEW y \in S PROVE x =< y
    OBVIOUS
  <2>1. <<y, x>> \in Nat \X Nat /\ ~(y < x)
    BY <1>1 DEF OpToRel
  <2>2. QED
    BY <2>1
<1>3. QED
  BY <1>2 DEF Min

LEMMA ToSetTyped ==
    ASSUME NEW S, NEW s \in Seq(S)
    PROVE  /\ ToSet(s) \subseteq S
           /\ DOMAIN s = 1..Len(s) /\ Len(s) \in Nat
           /\ \A i \in DOMAIN s : s[i] \in ToSet(s)
           /\ \A e \in ToSet(s) : \E i \in DOMAIN s : s[i] = e
BY DEF ToSet

LEMMA ToSetAppend ==
    ASSUME NEW S, NEW s \in Seq(S), NEW e \in S
    PROVE  Append(s, e) \in Seq(S) /\ ToSet(Append(s, e)) = ToSet(s) \cup {e}
<1>1. /\ Append(s, e) \in Seq(S) /\ Len(Append(s, e)) = Len(s) + 1
      /\ \A i \in 1..Len(s) : Append(s, e)[i] = s[i]
      /\ Append(s, e)[Len(s) + 1] = e
  BY AppendProperties
<1>2. DOMAIN Append(s, e) = 1..(Len(s) + 1) /\ DOMAIN s = 1..Len(s) /\ Len(s) \in Nat
  BY <1>1, LenProperties
<1>3. QED
  BY <1>1, <1>2 DEF ToSet

\* Taking position i out keeps every element that stands elsewhere.
LEMMA RemoveAtElements ==
    ASSUME NEW S, NEW s \in Seq(S), NEW i \in DOMAIN s
    PROVE  /\ DOMAIN s = 1..Len(s) /\ Len(s) \in Nat /\ i \in 1..Len(s)
           /\ RemoveAt(s, i) \in Seq(S) /\ DOMAIN RemoveAt(s, i) = 1..(Len(s) - 1)
           /\ \A j \in 1..(Len(s) - 1) : RemoveAt(s, i)[j] = IF j < i THEN s[j] ELSE s[j + 1]
<1> DEFINE a == SubSeq(s, 1, i - 1)
           b == SubSeq(s, i + 1, Len(s))
<1>1. /\ DOMAIN s = 1..Len(s) /\ Len(s) \in Nat /\ i \in 1..Len(s)
      /\ \A j \in 1..Len(s) : s[j] \in S
  BY ElementOfSeq, LenProperties
<1>2. /\ a \in Seq(S) /\ Len(a) = i - 1 /\ \A j \in 1..(i - 1) : a[j] = s[j]
  BY <1>1, SubSeqProperties
<1>3. /\ b \in Seq(S) /\ Len(b) = Len(s) - i
      /\ \A j \in 1..(Len(s) - i) : b[j] = s[i + j]
  BY <1>1, SubSeqProperties
<1> HIDE DEF a, b
<1>4. /\ a \o b \in Seq(S) /\ Len(a \o b) = Len(s) - 1
      /\ \A j \in 1..(Len(s) - 1) : (a \o b)[j] = IF j <= i - 1 THEN a[j] ELSE b[j - (i - 1)]
  <2>1. Len(a) + Len(b) = Len(s) - 1
    BY <1>1, <1>2, <1>3
  <2>2. /\ a \o b \in Seq(S) /\ Len(a \o b) = Len(a) + Len(b)
        /\ \A j \in 1..Len(a) + Len(b) :
              (a \o b)[j] = IF j <= Len(a) THEN a[j] ELSE b[j - Len(a)]
    BY <1>2, <1>3, ConcatProperties
  <2>3. QED
    BY <1>2, <2>1, <2>2
<1>5. \A j \in 1..(Len(s) - 1) : (a \o b)[j] = IF j < i THEN s[j] ELSE s[j + 1]
  <2> SUFFICES ASSUME NEW j \in 1..(Len(s) - 1)
               PROVE  (a \o b)[j] = IF j < i THEN s[j] ELSE s[j + 1]
    OBVIOUS
  <2>1. CASE j < i
    BY <1>1, <1>2, <1>4, <2>1
  <2>2. CASE ~(j < i)
    <3>1. j - (i - 1) \in 1..(Len(s) - i) /\ i + (j - (i - 1)) = j + 1
      BY <1>1, <2>2
    <3>2. ~(j <= i - 1)
      BY <1>1, <2>2
    <3>3. (a \o b)[j] = b[j - (i - 1)] /\ b[j - (i - 1)] = s[i + (j - (i - 1))]
      BY <1>3, <1>4, <3>1, <3>2
    <3>4. QED
      BY <2>2, <3>1, <3>3
  <2>3. QED
    BY <2>1, <2>2
<1>6. DOMAIN (a \o b) = 1..(Len(s) - 1)
  BY <1>4, LenProperties
<1>7. RemoveAt(s, i) = a \o b
  BY DEF RemoveAt, a, b
<1>8. QED
  BY <1>1, <1>4, <1>5, <1>6, <1>7

LEMMA ToSetRemoveAt ==
    ASSUME NEW S, NEW s \in Seq(S), NEW i \in DOMAIN s
    PROVE  /\ RemoveAt(s, i) \in Seq(S)
           /\ ToSet(RemoveAt(s, i)) \subseteq ToSet(s)
           /\ ToSet(s) \subseteq ToSet(RemoveAt(s, i)) \cup {s[i]}
<1> DEFINE r == RemoveAt(s, i)
<1>1. /\ DOMAIN s = 1..Len(s) /\ Len(s) \in Nat /\ i \in 1..Len(s)
      /\ r \in Seq(S) /\ DOMAIN r = 1..(Len(s) - 1)
      /\ \A j \in 1..(Len(s) - 1) : r[j] = IF j < i THEN s[j] ELSE s[j + 1]
  BY RemoveAtElements
<1> HIDE DEF r
<1>2. ToSet(r) \subseteq ToSet(s)
  <2> SUFFICES ASSUME NEW j \in 1..(Len(s) - 1) PROVE r[j] \in ToSet(s)
    BY <1>1 DEF ToSet
  <2>1. j \in 1..Len(s) /\ j + 1 \in 1..Len(s)
    BY <1>1
  <2>2. QED
    BY <1>1, <2>1 DEF ToSet
<1>3. ToSet(s) \subseteq ToSet(r) \cup {s[i]}
  <2> SUFFICES ASSUME NEW j \in 1..Len(s), j # i PROVE s[j] \in ToSet(r)
    BY <1>1 DEF ToSet
  <2>1. CASE j < i
    <3>1. j \in 1..(Len(s) - 1)
      BY <1>1, <2>1
    <3>2. QED
      BY <1>1, <2>1, <3>1 DEF ToSet
  <2>2. CASE j > i
    <3>1. j - 1 \in 1..(Len(s) - 1) /\ ~(j - 1 < i) /\ (j - 1) + 1 = j
      BY <1>1, <2>2
    <3>2. r[j - 1] = s[j]
      BY <1>1, <3>1
    <3>3. QED
      BY <1>1, <3>1, <3>2 DEF ToSet
  <2>3. QED
    BY <1>1, <2>1, <2>2
<1>4. QED
  BY <1>1, <1>2, <1>3 DEF r

\* An entry with a live worker is found whenever there is one.
LEMMA LiveEntryFinds ==
    ASSUME NEW entries \in Seq(Entry), NEW prefer
    PROVE  /\ LiveEntry(entries, prefer) \in (Card \cap ToSet(entries)) \cup {NoEntry}
           /\ LiveEntry(entries, prefer) = NoEntry =>
                 \A c \in Card \cap ToSet(entries) : ~Live(c)
<1> DEFINE live == {i \in DOMAIN entries : entries[i] \in Card /\ Live(entries[i])}
<1>1. DOMAIN entries \subseteq Nat /\ live \in SUBSET Nat
  BY LenProperties
<1>2. NoEntry \notin Card
  BY RunAssumption DEF Entry
<1>3. live # {} => Min(live) \in live
  BY <1>1, LeastExists
<1>4. live = {} => \A c \in Card \cap ToSet(entries) : ~Live(c)
  BY DEF ToSet
<1>5. \A i \in live : entries[i] \in Card \cap ToSet(entries)
  BY DEF ToSet
<1>6. LiveEntry(entries, prefer) = IF \E i \in live : entries[i] = prefer THEN prefer
                                  ELSE IF live = {} THEN NoEntry ELSE entries[Min(live)]
  BY DEF LiveEntry
<1> HIDE DEF live
<1>7. QED
  BY <1>2, <1>3, <1>4, <1>5, <1>6

\* There is always a stamp which no block and no snapshot carries.
LEMMA FreshTyped ==
    ASSUME playbook.run.stamp \in Stamp, \A w \in Slot : walk[w].pass.run.stamp \in Stamp
    PROVE  Fresh \in Stamp /\ \A w \in Slot : Fresh # walk[w].pass.run.stamp
<1> DEFINE f == [w \in Slot |-> walk[w].pass.run.stamp]
           T == {f[w] : w \in Slot}
           N == Cardinality(Slot)
<1>1. IsFiniteSet(Slot) /\ N \in Nat
  BY RunAssumption, FS_CardinalityType
<1>2. IsFiniteSet(T) /\ Cardinality(T) <= N /\ Cardinality(T) \in Nat
  <2>1. f \in Surjection(Slot, T)
    BY Fun_IsSurj
  <2>2. QED
    BY <1>1, <2>1, FS_Surjection, FS_CardinalityType
<1> HIDE DEF T, f, N
<1>3. /\ IsFiniteSet(T \cup {playbook.run.stamp})
      /\ Cardinality(T \cup {playbook.run.stamp}) <= N + 1
  <2>1. /\ IsFiniteSet(T \cup {playbook.run.stamp})
        /\ \/ Cardinality(T \cup {playbook.run.stamp}) = Cardinality(T)
           \/ Cardinality(T \cup {playbook.run.stamp}) = Cardinality(T) + 1
    BY <1>2, FS_AddElement
  <2>2. QED
    BY <1>1, <1>2, <2>1
<1>4. IsFiniteSet(Stamp) /\ Cardinality(Stamp) = N + 3
  BY <1>1, FS_Interval DEF Stamp, N
<1>5. \E n \in Stamp : n \notin T \cup {playbook.run.stamp}
  <2>1. SUFFICES ASSUME Stamp \subseteq T \cup {playbook.run.stamp} PROVE FALSE
    OBVIOUS
  <2>2. Cardinality(Stamp) <= Cardinality(T \cup {playbook.run.stamp})
    BY <1>3, <2>1, FS_Subset
  <2>3. Cardinality(T \cup {playbook.run.stamp}) \in Nat
    BY <1>3, FS_CardinalityType
  <2>4. QED
    BY <1>1, <1>3, <1>4, <2>2, <2>3
<1>6. {playbook.run.stamp} \cup {walk[w].pass.run.stamp : w \in Slot}
      = T \cup {playbook.run.stamp}
  BY DEF T, f
<1>7. QED
  BY <1>5, <1>6 DEF Fresh

-----------------------------------------------------------------------------
(* What a walker's step does to it.                                         *)

Moves(w, pc, pass) == walk' = [walk EXCEPT ![w].pc = pc, ![w].pass = pass]

LEMMA MovesOnly ==
    ASSUME walk \in [Slot -> Walks], NEW w \in Slot, NEW pc \in Pcs, NEW pass \in Passes,
           Moves(w, pc, pass)
    PROVE  /\ walk' \in [Slot -> Walks]
           /\ walk'[w].pc = pc /\ walk'[w].pass = pass
           /\ walk'[w].prev = walk[w].prev /\ walk'[w].cancelled = walk[w].cancelled
           /\ walk'[w].nudge = walk[w].nudge
           /\ \A v \in Slot \ {w} : walk'[v] = walk[v]
BY DEF Moves, Walks

LEMMA NoPassTyped == NoRun \in Runs /\ NoPass \in Passes /\ Gone \in Walks
<1>1. 0 \in Stamp
  BY RunAssumption, FS_CardinalityType DEF Stamp
<1>2. NoRun \in Runs
  BY <1>1 DEF NoRun, Runs
<1>3. NoPass \in Passes
  BY <1>2 DEF NoPass, Passes, Statuses
<1>4. QED
  BY <1>2, <1>3 DEF Gone, Walks, Pcs

LEMMA GotoMoves ==
    ASSUME NEW w \in Slot, NEW pc, NEW pass \in Passes, Goto(w, pc, pass)
    PROVE  Moves(w, pc, IF pc \in {"idle", "release"} THEN NoPass ELSE pass)
BY DEF Goto, Moves

\* setRun goes on at once, or to the guarded write.
LEMMA SetRunMoves ==
    ASSUME walk \in [Slot -> Walks], NEW w \in Slot, NEW status \in Statuses,
           NEW e \in Entry \cup {NoEntry}, NEW then \in {"idle", "launch", "release"},
           NEW q, q = [walk[w].pass EXCEPT !.want = <<status, e>>, !.then = then],
           SetRun(w, status, e, then)
    PROVE  /\ q \in Passes
           /\ \/ /\ walk[w].pass.run.status = status /\ walk[w].pass.run.entry = e
                 /\ Moves(w, then, IF then = "launch" THEN walk[w].pass ELSE NoPass)
              \/ Moves(w, "write", q)
<1>1. walk[w].pass \in Passes
  BY DEF Walks
<1>2. q \in Passes
  BY <1>1 DEF Passes
<1>3. QED
  BY <1>1, <1>2, GotoMoves DEF SetRun, Goto, Moves

-----------------------------------------------------------------------------
(* The steps of a pass that leave the store alone.                          *)

\* What a pass may do at the card it stands at.
AtCard(w) == walk[w].pass.at \in DOMAIN walk[w].pass.entries /\ Frontier(w) \in Card

WantFits(w, pass) ==
    /\ pass.then = "launch" => /\ pass.want = <<"running", Frontier(w)>> /\ AtCard(w)
                               /\ walk[w].pc \in {"walk", "prepare"}
    /\ pass.then = "release" => pass.want[1] = "completed"
    /\ pass.then # "release" => pass.want[1] \in {"running", "waiting"}

Advance(w, pc, pass) ==
    LET p == walk[w].pass IN
    \/ pc = "idle"
    \/ /\ pc = "walk" /\ pass.run = p.run /\ pass.entries = p.entries
       /\ \/ walk[w].pc = "walk"
          \/ walk[w].pc = "hold" /\ \A c \in Card \cap ToSet(p.entries) : ~Live(c)
    \/ /\ pc = "write" /\ WantFits(w, pass)
       /\ pass = [p EXCEPT !.want = pass.want, !.then = pass.then]
    \/ /\ pc = "prepare" /\ pass = p /\ walk[w].pc = "walk" /\ AtCard(w)
    \/ /\ pc = "launch" /\ pass = p /\ walk[w].pc \in {"walk", "prepare"} /\ AtCard(w)
       /\ p.run.entry = Frontier(w)
    \/ pc = "queue" /\ pass = p /\ walk[w].pc = "launch"
    \/ pc = "trigger" /\ pass = p /\ walk[w].pc = "queue"

InPass == {"hold", "walk", "prepare", "write", "launch", "queue", "trigger"}

PassStep(w) ==
    /\ walk[w].prev = 0 /\ walk[w].pc \in InPass
    /\ UNCHANGED <<playbook, mutex, walker, exiting, control, closed, undone, slipped, stopOk,
                   crashed>>
    /\ \E pc \in Pcs, pass \in Passes : Moves(w, pc, pass) /\ Advance(w, pc, pass)

Passing(w) ==
    \/ Hold(w) \/ Skip(w) \/ AllComplete(w) \/ Consider(w) \/ Prepare(w) \/ PrepareFails(w)
    \/ RunWriteRefused(w) \/ Launch(w) \/ Queue(w) \/ QueueFails(w) \/ Trigger(w)
    \/ TriggerFails(w)

\* A step in the pass in terms of Advance.
LEMMA GoesOn ==
    ASSUME walk \in [Slot -> Walks], NEW w \in Slot, NEW pc \in Pcs, NEW pass \in Passes,
           Goto(w, pc, pass), pc # "release",
           pc # "idle" => Advance(w, pc, pass)
    PROVE  \E c \in Pcs, q \in Passes : Moves(w, c, q) /\ Advance(w, c, q)
<1>1. CASE pc = "idle"
  BY <1>1, GotoMoves, NoPassTyped DEF Advance
<1>2. CASE pc # "idle"
  BY <1>2, GotoMoves
<1>3. QED
  BY <1>1, <1>2

LEMMA Writes ==
    ASSUME walk \in [Slot -> Walks], NEW w \in Slot, NEW status \in {"running", "waiting"},
           NEW e \in Entry \cup {NoEntry}, SetRun(w, status, e, "idle")
    PROVE  \E c \in Pcs, q \in Passes : Moves(w, c, q) /\ Advance(w, c, q)
<1>1. CASE Moves(w, "idle", NoPass)
  BY <1>1, NoPassTyped DEF Advance, Pcs
<1>2. ASSUME NEW q \in Passes, Moves(w, "write", q),
             q = [walk[w].pass EXCEPT !.want = <<status, e>>, !.then = "idle"]
      PROVE  Moves(w, "write", q) /\ Advance(w, "write", q)
  <2>1. walk[w].pass \in Passes
    BY DEF Walks
  <2>2. q.want = <<status, e>> /\ q.then = "idle"
    BY <1>2, <2>1 DEF Passes
  <2>3. WantFits(w, q)
    BY <2>2 DEF WantFits
  <2>4. q = [walk[w].pass EXCEPT !.want = q.want, !.then = q.then]
    BY <1>2, <2>2
  <2>5. QED
    BY <1>2, <2>3, <2>4 DEF Advance
<1>3. "write" \in Pcs /\ status \in Statuses
  BY DEF Pcs, Statuses
<1>4. \/ Moves(w, "idle", NoPass)
      \/ \E q \in Passes : /\ Moves(w, "write", q)
                           /\ q = [walk[w].pass EXCEPT !.want = <<status, e>>, !.then = "idle"]
  <2> DEFINE r == [walk[w].pass EXCEPT !.want = <<status, e>>, !.then = "idle"]
  <2>1. r = [walk[w].pass EXCEPT !.want = <<status, e>>, !.then = "idle"]
    OBVIOUS
  <2> HIDE DEF r
  <2>2. r \in Passes /\ (Moves(w, "idle", NoPass) \/ Moves(w, "write", r))
    BY <1>3, <2>1, SetRunMoves
  <2>3. QED
    BY <2>1, <2>2
<1>5. QED
  BY <1>1, <1>2, <1>3, <1>4

LEMMA LaunchWrites ==
    ASSUME walk \in [Slot -> Walks], NEW w \in Slot, AtCard(w),
           walk[w].pc \in {"walk", "prepare"}, SetRun(w, "running", Frontier(w), "launch")
    PROVE  \E c \in Pcs, q \in Passes : Moves(w, c, q) /\ Advance(w, c, q)
<1>1. walk[w].pass \in Passes /\ Frontier(w) \in Entry \cup {NoEntry}
  BY DEF Walks, AtCard, Entry
<1>2. CASE walk[w].pass.run.entry = Frontier(w) /\ Moves(w, "launch", walk[w].pass)
  BY <1>1, <1>2 DEF Advance, Pcs
<1>3. ASSUME NEW q \in Passes, Moves(w, "write", q),
             q = [walk[w].pass EXCEPT !.want = <<"running", Frontier(w)>>, !.then = "launch"]
      PROVE  Moves(w, "write", q) /\ Advance(w, "write", q)
  <2>1. q.want = <<"running", Frontier(w)>> /\ q.then = "launch"
    BY <1>1, <1>3 DEF Passes
  <2>2. WantFits(w, q)
    BY <2>1 DEF WantFits
  <2>3. q = [walk[w].pass EXCEPT !.want = q.want, !.then = q.then]
    BY <1>3, <2>1
  <2>4. QED
    BY <1>3, <2>2, <2>3 DEF Advance
<1>4. "write" \in Pcs
  BY DEF Pcs
<1>5. \/ walk[w].pass.run.entry = Frontier(w) /\ Moves(w, "launch", walk[w].pass)
      \/ \E q \in Passes :
            /\ Moves(w, "write", q)
            /\ q = [walk[w].pass EXCEPT !.want = <<"running", Frontier(w)>>, !.then = "launch"]
  <2> DEFINE r == [walk[w].pass EXCEPT !.want = <<"running", Frontier(w)>>, !.then = "launch"]
  <2>1. r = [walk[w].pass EXCEPT !.want = <<"running", Frontier(w)>>, !.then = "launch"]
    OBVIOUS
  <2> HIDE DEF r
  <2>2. /\ r \in Passes
        /\ \/ walk[w].pass.run.entry = Frontier(w) /\ Moves(w, "launch", walk[w].pass)
           \/ Moves(w, "write", r)
    BY <1>1, <2>1, SetRunMoves DEF Statuses
  <2>3. QED
    BY <2>1, <2>2
<1>6. QED
  BY <1>2, <1>3, <1>4, <1>5

LEMMA PassingIsPassStep ==
    ASSUME Typed, NEW w \in Slot, Decided(w), Passing(w)
    PROVE  PassStep(w)
<1> DEFINE p == walk[w].pass
           Goal == \E pc \in Pcs, pass \in Passes : Moves(w, pc, pass) /\ Advance(w, pc, pass)
<1> USE DEF At
<1>0. /\ walk \in [Slot -> Walks] /\ p \in Passes /\ p.entries \in Seq(Entry)
      /\ DOMAIN p.entries = 1..Len(p.entries) /\ Len(p.entries) \in Nat /\ p.at \in Nat \ {0}
  BY LenProperties DEF Typed, Walks, Passes
<1>1. walk[w].pc \in InPass => Active(p.run) /\ (Launching(w) => AtCard(w))
  BY DEF Decided, AtCard, InPass, MidPass
<1>2. "running" \in {"running", "waiting"} /\ "waiting" \in {"running", "waiting"}
  OBVIOUS
<1> HIDE DEF p, Goal
<1>3. CASE Hold(w)
  <2> DEFINE live == LiveEntry(p.entries, p.run.entry)
  <2>1. /\ live \in (Card \cap ToSet(p.entries)) \cup {NoEntry}
        /\ live = NoEntry => \A c \in Card \cap ToSet(p.entries) : ~Live(c)
    BY <1>0, LiveEntryFinds
  <2>2. \/ live = NoEntry /\ Goto(w, "walk", p)
        \/ Goto(w, "idle", p)
        \/ SetRun(w, "running", live, "idle")
    BY <1>3 DEF Hold, p
  <2>3. walk[w].pc = "hold" /\ walk[w].prev = 0
    BY <1>3 DEF Hold
  <2>4. live \in Entry \cup {NoEntry}
    BY <2>1 DEF Entry
  <2> HIDE DEF live
  <2>5. Goal
    <3>1. CASE live = NoEntry /\ Goto(w, "walk", p)
      <4>1. Advance(w, "walk", p)
        BY <2>1, <2>3, <3>1 DEF Advance, p
      <4>2. QED
        BY <1>0, <3>1, <4>1, GoesOn DEF Goal, Pcs
    <3>2. CASE Goto(w, "idle", p)
      BY <1>0, <3>2, GoesOn DEF Goal, Pcs
    <3>3. CASE SetRun(w, "running", live, "idle")
      BY <1>0, <1>2, <2>4, <3>3, Writes DEF Goal
    <3>4. QED
      BY <2>2, <3>1, <3>2, <3>3
  <2>6. UNCHANGED <<playbook, mutex, walker, exiting, control, closed, undone, slipped, stopOk,
                    crashed>>
    BY <1>3 DEF Hold, PassUnchanged, history
  <2>7. QED
    BY <2>3, <2>5, <2>6 DEF PassStep, Goal, InPass
<1>4. CASE Skip(w)
  <2>1. [p EXCEPT !.at = @ + 1] \in Passes
    BY <1>0 DEF Passes
  <2>2. Advance(w, "walk", [p EXCEPT !.at = @ + 1])
    BY <1>0, <1>4 DEF Skip, Advance, p, Passes
  <2>3. Goal
    BY <1>0, <1>4, <2>1, <2>2, GoesOn DEF Skip, Goal, Pcs, p
  <2>4. QED
    BY <1>4, <2>3 DEF Skip, PassUnchanged, history, PassStep, Goal, InPass
<1>5. CASE AllComplete(w)
  <2>1. SetRun(w, "completed", NoEntry, "release") /\ walk[w].pc = "walk" /\ walk[w].prev = 0
    BY <1>5 DEF AllComplete
  <2>2. p.run.status # "completed"
    BY <1>1, <2>1 DEF InPass, Active
  <2>3. PICK q \in Passes : /\ Moves(w, "write", q)
                            /\ q = [p EXCEPT !.want = <<"completed", NoEntry>>, !.then = "release"]
    <3> DEFINE r == [walk[w].pass EXCEPT !.want = <<"completed", NoEntry>>, !.then = "release"]
    <3>1. r = [walk[w].pass EXCEPT !.want = <<"completed", NoEntry>>, !.then = "release"]
      OBVIOUS
    <3> HIDE DEF r
    <3>2. r \in Passes /\ Moves(w, "write", r)
      BY <1>0, <2>1, <2>2, <3>1, SetRunMoves DEF Statuses, p
    <3>3. QED
      BY <3>1, <3>2 DEF p
  <2>4. q.want = <<"completed", NoEntry>> /\ q.then = "release"
    BY <1>0, <2>3 DEF Passes
  <2>5. q = [p EXCEPT !.want = q.want, !.then = q.then]
    BY <2>3, <2>4
  <2>6. Advance(w, "write", q)
    BY <2>4, <2>5 DEF Advance, WantFits, p
  <2>7. QED
    BY <1>5, <2>1, <2>3, <2>6 DEF AllComplete, PassUnchanged, history, PassStep, InPass, Pcs
<1>6. CASE Consider(w)
  <2>1. walk[w].pc = "walk" /\ walk[w].prev = 0 /\ p.at \in DOMAIN p.entries
    BY <1>0, <1>6 DEF Consider, p
  <2>2. Frontier(w) \in Entry
    BY <1>0, <2>1, ElementOfSeq DEF Frontier, p
  <2>3. Goal
    <3>1. CASE Frontier(w) \in Manual
      <4>1. SetRun(w, "waiting", Frontier(w), "idle")
        BY <1>6, <3>1 DEF Consider
      <4>2. QED
        BY <1>0, <1>2, <2>2, <4>1, Writes DEF Goal
    <3>2. CASE Frontier(w) \notin Manual
      <4>1. AtCard(w) /\ Decide(w, Frontier(w), p.run)
        BY <1>6, <2>1, <2>2, <3>2 DEF Consider, AtCard, Entry, p
      <4>2. \/ \E status \in {"running", "waiting"} : SetRun(w, status, Frontier(w), "idle")
            \/ Goto(w, "idle", NoPass)
            \/ Goto(w, "prepare", p)
            \/ SetRun(w, "running", Frontier(w), "launch")
        BY <4>1, <1>2 DEF Decide, p
      <4>3. CASE \E status \in {"running", "waiting"} : SetRun(w, status, Frontier(w), "idle")
        BY <1>0, <2>2, <4>3, Writes DEF Goal
      <4>4. CASE Goto(w, "idle", NoPass)
        BY <1>0, <4>4, GoesOn, NoPassTyped DEF Goal, Pcs
      <4>5. CASE Goto(w, "prepare", p)
        <5>1. Advance(w, "prepare", p)
          BY <2>1, <4>1 DEF Advance, p
        <5>2. QED
          BY <1>0, <4>5, <5>1, GoesOn DEF Goal, Pcs
      <4>6. CASE SetRun(w, "running", Frontier(w), "launch")
        BY <1>0, <2>1, <4>1, <4>6, LaunchWrites DEF Goal
      <4>7. QED
        BY <4>2, <4>3, <4>4, <4>5, <4>6
    <3>3. QED
      BY <3>1, <3>2
  <2>4. QED
    BY <1>6, <2>1, <2>3 DEF Consider, PassUnchanged, history, PassStep, Goal, InPass
<1>7. CASE Prepare(w)
  <2>1. /\ walk[w].pc = "prepare" /\ walk[w].prev = 0
        /\ SetRun(w, "running", Frontier(w), "launch")
    BY <1>7 DEF Prepare
  <2>2. AtCard(w)
    BY <1>1, <2>1 DEF InPass, Launching
  <2>3. Goal
    BY <1>0, <2>1, <2>2, LaunchWrites DEF Goal
  <2>4. QED
    BY <1>7, <2>1, <2>3 DEF Prepare, PassUnchanged, history, PassStep, Goal, InPass
<1>8. CASE PrepareFails(w) \/ QueueFails(w) \/ TriggerFails(w)
  <2>1. /\ walk[w].pc \in {"prepare", "queue", "trigger"} /\ walk[w].prev = 0
        /\ SetRun(w, "waiting", Frontier(w), "idle")
    BY <1>8 DEF PrepareFails, QueueFails, TriggerFails
  <2>2. Frontier(w) \in Entry
    BY <1>1, <2>1 DEF InPass, Launching, AtCard, Entry
  <2>3. Goal
    BY <1>0, <1>2, <2>1, <2>2, Writes DEF Goal
  <2>4. UNCHANGED <<playbook, mutex, walker, exiting, control, closed, undone, slipped, stopOk,
                    crashed>>
    BY <1>8 DEF PrepareFails, QueueFails, TriggerFails, PassUnchanged, history
  <2>5. QED
    BY <2>1, <2>3, <2>4 DEF PassStep, Goal, InPass
<1>9. CASE RunWriteRefused(w) \/ Trigger(w)
  <2>1. /\ walk[w].pc \in {"write", "trigger"} /\ walk[w].prev = 0 /\ Goto(w, "idle", NoPass)
    BY <1>9 DEF RunWriteRefused, Trigger
  <2>2. Goal
    BY <1>0, <2>1, GoesOn, NoPassTyped DEF Goal, Pcs
  <2>3. UNCHANGED <<playbook, mutex, walker, exiting, control, closed, undone, slipped, stopOk,
                    crashed>>
    BY <1>9 DEF RunWriteRefused, Trigger, PassUnchanged, history
  <2>4. QED
    BY <2>1, <2>2, <2>3 DEF PassStep, Goal, InPass
<1>10. CASE Launch(w) \/ Queue(w)
  <2>1. /\ walk[w].prev = 0
        /\ \/ walk[w].pc = "launch" /\ Goto(w, "idle", NoPass)
           \/ walk[w].pc = "launch" /\ Goto(w, "queue", p)
           \/ walk[w].pc = "launch" /\ SetRun(w, "waiting", Frontier(w), "idle")
           \/ walk[w].pc = "queue" /\ Goto(w, "trigger", p)
    BY <1>10 DEF Launch, Queue, p
  <2>2. Goal
    <3>1. CASE walk[w].pc = "launch" /\ Goto(w, "idle", NoPass)
      BY <1>0, <3>1, GoesOn, NoPassTyped DEF Goal, Pcs
    <3>2. CASE walk[w].pc = "launch" /\ Goto(w, "queue", p)
      <4>1. Advance(w, "queue", p)
        BY <3>2 DEF Advance, p
      <4>2. QED
        BY <1>0, <3>2, <4>1, GoesOn DEF Goal, Pcs
    <3>3. CASE walk[w].pc = "queue" /\ Goto(w, "trigger", p)
      <4>1. Advance(w, "trigger", p)
        BY <3>3 DEF Advance, p
      <4>2. QED
        BY <1>0, <3>3, <4>1, GoesOn DEF Goal, Pcs
    <3>4. CASE walk[w].pc = "launch" /\ SetRun(w, "waiting", Frontier(w), "idle")
      <4>1. Frontier(w) \in Entry
        BY <1>1, <3>4 DEF InPass, Launching, AtCard, Entry
      <4>2. QED
        BY <1>0, <1>2, <3>4, <4>1, Writes DEF Goal
    <3>5. QED
      BY <2>1, <3>1, <3>2, <3>3, <3>4
  <2>3. UNCHANGED <<playbook, mutex, walker, exiting, control, closed, undone, slipped, stopOk,
                    crashed>>
    BY <1>10 DEF Launch, Queue, PassUnchanged, history
  <2>4. walk[w].pc \in InPass
    BY <2>1 DEF InPass
  <2>5. QED
    BY <2>1, <2>2, <2>3, <2>4 DEF PassStep, Goal
<1>11. QED
  BY <1>3, <1>4, <1>5, <1>6, <1>7, <1>8, <1>9, <1>10 DEF Passing

-----------------------------------------------------------------------------
(* What the steps do to the cards.                                          *)

\* No card becomes one with a worker in flight that the run launched.
NoNewLaunch ==
    /\ card' \in [Card -> Cards]
    /\ \A c \in Card : LaunchedLive(c)' => LaunchedLive(c)
    /\ \A c \in Card : card'[c].box = "pending" => card[c].box = "pending"

CardOnly ==
    /\ NoNewLaunch /\ sent' \in SUBSET Card /\ (slipped => slipped')
    /\ UNCHANGED <<playbook, mutex, walker, exiting, walk, control, closed, undone, stopOk,
                   crashed>>

PersonOrWorker(c) ==
    \/ HandRun(c) \/ HandQueue(c) \/ MoveToTodo(c) \/ Reopen(c) \/ ReopenWrite(c)
    \/ MoveToDone(c) \/ StallSweep(c) \/ CardAct(c)

Becomes(c, new) ==
    /\ new \in Cards /\ card' = [card EXCEPT ![c] = new]
    /\ new.state # "done" /\ new.worker \in {"queued", "running"}
       /\ new.box \in {"pending", "run"} => LaunchedLive(c)
    /\ new.box = "pending" => card[c].box = "pending"

LEMMA OneCardChanges ==
    ASSUME card \in [Card -> Cards], NEW c \in Card, NEW new, Becomes(c, new)
    PROVE  NoNewLaunch /\ card'[c] = new
<1>1. card' \in [Card -> Cards] /\ card'[c] = new /\ \A d \in Card \ {c} : card'[d] = card[d]
  BY DEF Becomes
<1>2. QED
  BY <1>1 DEF NoNewLaunch, LaunchedLive, Live, Terminal, InFlight, Becomes

LEMMA CardsKept == card \in [Card -> Cards] /\ UNCHANGED card => NoNewLaunch
BY DEF NoNewLaunch, LaunchedLive, Live, Terminal, InFlight

LEMMA CardStepsOnly ==
    ASSUME Typed, NEW c \in Card, PersonOrWorker(c)
    PROVE  CardOnly
<1>1. card \in [Card -> Cards] /\ card[c] \in Cards /\ sent \in SUBSET Card
  BY DEF Typed
<1>2. /\ sent' \in SUBSET Card /\ (slipped => slipped')
      /\ UNCHANGED <<playbook, mutex, walker, exiting, walk, control, closed, undone, stopOk,
                     crashed>>
  <2>1. CASE HandRun(c) \/ HandQueue(c) \/ Reopen(c)
    BY <1>1, <2>1 DEF HandRun, HandQueue, Reopen, runnerVars, history
  <2>2. CASE MoveToTodo(c) \/ MoveToDone(c) \/ StallSweep(c)
    BY <1>1, <2>2 DEF MoveToTodo, MoveToDone, StallSweep, CardStep, runnerVars
  <2>3. CASE ReopenWrite(c)
    BY <1>1, <2>3 DEF ReopenWrite, runnerVars
  <2>4. CASE CardAct(c)
    BY <1>1, <2>4 DEF CardAct, WorkerClaims, WorkerFinishes, WorkerEnds, WorkerLost, CardStep,
       runnerVars
  <2>5. QED
    BY <2>1, <2>2, <2>3, <2>4 DEF PersonOrWorker
<1> USE <1>1 DEF Cards, LaunchedLive, Live, Terminal, InFlight
<1>3. UNCHANGED card \/ \E new : Becomes(c, new)
  <2>1. CASE HandRun(c) \/ HandQueue(c) \/ Reopen(c)
    <3>1. UNCHANGED card \/ Becomes(c, [card[c] EXCEPT !.worker = "queued", !.box = "hand"])
      BY <2>1 DEF HandRun, HandQueue, Reopen, Becomes
    <3>2. QED
      BY <3>1
  <2>2. CASE MoveToTodo(c) \/ ReopenWrite(c)
    <3> DEFINE worker == IF card[c].worker = "failed" THEN "none" ELSE card[c].worker
               box == IF ReopenWrite(c) /\ card[c].box # "none" THEN "hand" ELSE card[c].box
               new == [card[c] EXCEPT !.state = "todo", !.worker = worker, !.box = box]
    <3>1. Moved(c, "todo") = [card EXCEPT ![c] = [card[c] EXCEPT !.state = "todo",
                                                                 !.worker = worker]]
      BY DEF Moved
    <3>2. Moved(c, "todo")[c].box = card[c].box
      BY <3>1
    <3>3. \/ card' = Moved(c, "todo") /\ ~Terminal(c)
          \/ card' = [Moved(c, "todo") EXCEPT ![c].box = box] /\ ReopenWrite(c)
      <4>1. CASE ReopenWrite(c)
        <5>1. card' = [Moved(c, "todo") EXCEPT ![c].box = IF @ # "none" THEN "hand" ELSE @]
          BY <4>1 DEF ReopenWrite
        <5>2. QED
          BY <3>2, <4>1, <5>1
      <4>2. CASE MoveToTodo(c)
        BY <4>2 DEF MoveToTodo
      <4>3. QED
        BY <2>2, <4>1, <4>2
    <3>4. CASE card' = Moved(c, "todo") /\ ~Terminal(c)
      <4> DEFINE moved == [card[c] EXCEPT !.state = "todo", !.worker = worker]
      <4>1. /\ moved \in Cards /\ moved.state = "todo" /\ moved.worker = worker
            /\ moved.box = card[c].box /\ card' = [card EXCEPT ![c] = moved]
        BY <3>1, <3>4
      <4>2. worker \in {"queued", "running"} => worker = card[c].worker
        OBVIOUS
      <4> HIDE DEF moved, worker
      <4>3. Becomes(c, moved)
        BY <3>4, <4>1, <4>2 DEF Becomes
      <4>4. QED
        BY <4>3
    <3>5. CASE card' = [Moved(c, "todo") EXCEPT ![c].box = box] /\ ReopenWrite(c)
      <4>1. card' = [card EXCEPT ![c] = new]
        BY <3>1, <3>5
      <4>2. /\ new \in Cards /\ new.box = box
        OBVIOUS
      <4>3. box \notin {"pending", "run"}
        BY <3>5
      <4> HIDE DEF new, worker, box
      <4>4. Becomes(c, new)
        BY <4>1, <4>2, <4>3 DEF Becomes
      <4>5. QED
        BY <4>4
    <3>6. QED
      BY <3>3, <3>4, <3>5
  <2>3. CASE MoveToDone(c) \/ WorkerFinishes(c)
    <3>1. Becomes(c, [card[c] EXCEPT !.state = "done"])
      BY <2>3 DEF MoveToDone, WorkerFinishes, Becomes
    <3>2. QED
      BY <3>1
  <2>4. CASE StallSweep(c)
    <3>1. Becomes(c, [card[c] EXCEPT !.state = "stalled", !.worker = IF InFlight(c) THEN "failed" ELSE @])
      BY <2>4 DEF StallSweep, Becomes
    <3>2. QED
      BY <3>1
  <2>5. CASE WorkerClaims(c)
    <3>1. Becomes(c, [card[c] EXCEPT !.worker = "running", !.state = "busy"])
      BY <2>5 DEF WorkerClaims, Running, Becomes
    <3>2. QED
      BY <3>1
  <2>6. CASE WorkerEnds(c)
    <3>1. PICK last \in {"failed", "parked", "none"} :
            card' = [card EXCEPT ![c].box = "none",
                                 ![c].worker = IF Terminal(c) THEN "none"
                                               ELSE IF InFlight(c) THEN last ELSE @]
      BY <2>6 DEF WorkerEnds
    <3>2. Becomes(c, [card[c] EXCEPT !.box = "none",
                             !.worker = IF Terminal(c) THEN "none"
                                        ELSE IF InFlight(c) THEN last ELSE @])
      BY <3>1 DEF Becomes
    <3>3. QED
      BY <3>2
  <2>7. CASE WorkerLost(c)
    <3>1. Becomes(c, [card[c] EXCEPT !.worker = IF Terminal(c) THEN "none" ELSE "failed",
                             !.box = "none"])
      BY <2>7 DEF WorkerLost, Becomes
    <3>2. QED
      BY <3>1
  <2>8. QED
    BY <2>1, <2>2, <2>3, <2>4, <2>5, <2>6, <2>7 DEF PersonOrWorker, CardAct
<1>4. NoNewLaunch
  BY <1>1, <1>3, OneCardChanges, CardsKept
<1>5. QED
  BY <1>2, <1>4 DEF CardOnly

LEMMA KillsOnly ==
    ASSUME Typed, NEW c \in Card
    PROVE  /\ Kill(c) => NoNewLaunch /\ ~LaunchedLive(c)'
           /\ KillFails(c) => NoNewLaunch
<1>1. card \in [Card -> Cards] /\ card[c] \in Cards
  BY DEF Typed
<1>2. CASE Kill(c) /\ Live(c)
  <2> DEFINE new == [card[c] EXCEPT !.worker = "failed", !.box = "none"]
  <2>1. Becomes(c, new) /\ new.box = "none"
    BY <1>1, <1>2 DEF Kill, Cards, Becomes
  <2> HIDE DEF new
  <2>2. NoNewLaunch /\ card'[c] = new
    BY <1>1, <2>1, OneCardChanges
  <2>3. ~KillFails(c)
    <3>1. card'[c].worker = "failed" /\ card[c].worker # "failed"
      BY <1>1, <1>2 DEF Kill, Live, InFlight, Cards
    <3>2. QED
      BY <1>1, <3>1 DEF KillFails, Cards
  <2>4. QED
    BY <2>1, <2>2, <2>3 DEF LaunchedLive
<1>3. CASE Kill(c) /\ ~Live(c)
  <2>1. UNCHANGED card
    BY <1>3 DEF Kill
  <2>2. QED
    BY <1>1, <1>3, <2>1, CardsKept DEF LaunchedLive, Live, Terminal, InFlight
<1>4. CASE KillFails(c) /\ ~Kill(c)
  <2>1. PICK box \in {card[c].box, "none"} : card' = [card EXCEPT ![c].box = box]
    BY <1>4 DEF KillFails
  <2> DEFINE new == [card[c] EXCEPT !.box = box]
  <2>2. Becomes(c, new)
    BY <1>1, <2>1 DEF Becomes, Cards, LaunchedLive, Live, Terminal, InFlight
  <2> HIDE DEF new
  <2>3. NoNewLaunch
    BY <1>1, <2>2, OneCardChanges
  <2>4. QED
    BY <1>4, <2>3
<1>5. QED
  BY <1>2, <1>3, <1>4

\* Within a pass only the card it stands at is launched, and a card is left
\* pending only while its trigger is under way.
LEMMA PassLaunches ==
    ASSUME Typed, NEW w \in Slot, Decided(w), Passing(w)
    PROVE  /\ card' \in [Card -> Cards] /\ sent' \in SUBSET Card
           /\ \A c \in Card : LaunchedLive(c)' =>
                 LaunchedLive(c) \/ (walk[w].pc \in {"queue", "trigger"} /\ c = Frontier(w))
           /\ \A c \in Card : card'[c].box = "pending" =>
                 \/ card[c].box = "pending" /\ (walk[w].pc = "trigger" => c # Frontier(w))
                 \/ Queue(w) /\ c = Frontier(w)
<1> DEFINE e == Frontier(w)
<1>1. card \in [Card -> Cards] /\ sent \in SUBSET Card
  BY DEF Typed
<1>2. walk[w].pc \in {"prepare", "queue", "trigger"} => e \in Card /\ card[e] \in Cards
  BY <1>1 DEF Decided, Launching
<1>3. CASE Queue(w)
  <2>1. /\ walk[w].pc = "queue" /\ e \in Card /\ card[e] \in Cards
        /\ card' = [card EXCEPT ![e] = [card[e] EXCEPT !.worker = "queued", !.box = "pending"]]
        /\ sent' \in SUBSET Card
    BY <1>1, <1>2, <1>3 DEF Queue, At
  <2>2. card' \in [Card -> Cards] /\ \A c \in Card \ {e} : card'[c] = card[c]
    BY <1>1, <2>1 DEF Cards
  <2>3. QED
    BY <1>3, <2>1, <2>2 DEF LaunchedLive, Live, Terminal, InFlight
<1>4. CASE Trigger(w)
  <2>1. /\ walk[w].pc = "trigger" /\ e \in Card /\ card[e] \in Cards
        /\ card' = [card EXCEPT ![e] = [card[e] EXCEPT !.box = "run"]]
        /\ sent' = sent
    BY <1>1, <1>2, <1>4 DEF Trigger, At, PassUnchanged, history
  <2>2. card' \in [Card -> Cards] /\ \A c \in Card \ {e} : card'[c] = card[c]
    BY <1>1, <2>1 DEF Cards
  <2>3. card'[e].box = "run"
    BY <1>1, <2>1 DEF Cards
  <2>4. QED
    BY <1>1, <2>1, <2>2, <2>3 DEF LaunchedLive, Live, Terminal, InFlight
<1>5. CASE TriggerFails(w)
  <2> DEFINE worker == IF Terminal(e) THEN "none" ELSE "failed"
             new == [card[e] EXCEPT !.box = "none", !.worker = worker]
  <2>1. /\ walk[w].pc = "trigger" /\ e \in Card /\ card[e] \in Cards
        /\ card' = [card EXCEPT ![e] = new] /\ sent' = sent
    BY <1>1, <1>2, <1>5 DEF TriggerFails, At, PassUnchanged, history
  <2>2. /\ new \in Cards /\ new.box = "none" /\ new.worker \notin {"queued", "running"}
    BY <2>1 DEF Cards
  <2> HIDE DEF new
  <2>3. Becomes(e, new)
    BY <2>1, <2>2 DEF Becomes
  <2>4. NoNewLaunch /\ card'[e] = new
    BY <1>1, <2>1, <2>3, OneCardChanges
  <2>5. QED
    BY <1>1, <2>1, <2>2, <2>4 DEF NoNewLaunch
<1>6. CASE Prepare(w) \/ (PrepareFails(w) /\ ~Terminal(e) /\ card' = Moved(e, "todo"))
  <2> DEFINE worker == IF card[e].worker = "failed" THEN "none" ELSE card[e].worker
             new == [card[e] EXCEPT !.state = "todo", !.worker = worker]
  <2>1. /\ walk[w].pc = "prepare" /\ e \in Card /\ card[e] \in Cards /\ ~Terminal(e)
        /\ card' = Moved(e, "todo") /\ sent' = sent
    BY <1>1, <1>2, <1>6 DEF Prepare, PrepareFails, At, PassUnchanged, history
  <2>2. card' = [card EXCEPT ![e] = new]
    BY <2>1 DEF Moved
  <2>3. /\ new \in Cards /\ new.box = card[e].box /\ new.worker = worker
    BY <2>1 DEF Cards
  <2>4. worker \in {"queued", "running"} => worker = card[e].worker
    OBVIOUS
  <2> HIDE DEF new, worker
  <2>5. Becomes(e, new)
    BY <2>1, <2>2, <2>3, <2>4 DEF Becomes, LaunchedLive, Live, InFlight
  <2>6. NoNewLaunch
    BY <1>1, <2>1, <2>5, OneCardChanges
  <2>7. QED
    BY <1>1, <2>1, <2>6 DEF NoNewLaunch
<1>7. CASE UNCHANGED <<card, sent>> /\ ~(walk[w].pc = "trigger")
  BY <1>1, <1>7, CardsKept DEF NoNewLaunch
<1>8. QED
  BY <1>3, <1>4, <1>5, <1>6, <1>7 DEF Passing, Hold, Skip, AllComplete, Consider, PrepareFails,
     RunWriteRefused, Launch, QueueFails, PassUnchanged, history, At

-----------------------------------------------------------------------------
(* What the other steps do to the playbook.                                 *)

\* An edit that is in the store and not yet committed.
EditStep ==
    /\ mutex.by = "nobody" /\ mutex' = [by |-> "edit", old |-> playbook]
    /\ playbook' \in Books /\ Sound(playbook)'
    /\ playbook.ids \subseteq playbook'.ids
    /\ Active(playbook.run) \/ Active(playbook'.run) => playbook'.run = playbook.run
    /\ playbook'.run.entry \in {playbook.run.entry, NoEntry}
    /\ \A e \in ToSet(playbook'.entries) : e \in ToSet(playbook.entries) \/ e \notin playbook.ids
    /\ UNCHANGED <<card, walker, exiting, walk, control, closed, sent, undone, slipped, stopOk,
                   crashed>>

LEMMA EditsAreSteps ==
    ASSUME Typed,
           \/ \E e \in Entry : AddEntry(e) \/ RemoveEntry(e)
           \/ \E m \in Manual : CheckOff(m)
           \/ SetRunnable
    PROVE  EditStep
<1>1. /\ playbook \in Books /\ Sound(playbook) /\ playbook.entries \in Seq(Entry)
      /\ playbook.ids \in SUBSET Entry /\ playbook.done \in SUBSET Entry
      /\ playbook.run \in Runs /\ playbook.runnable \in BOOLEAN
  BY DEF Typed, Books
<1> DEFINE Fits(new) ==
        /\ new \in Books /\ Sound(new) /\ playbook.ids \subseteq new.ids
        /\ Active(playbook.run) \/ Active(new.run) => new.run = playbook.run
        /\ new.run.entry \in {playbook.run.entry, NoEntry}
        /\ \A e \in ToSet(new.entries) : e \in ToSet(playbook.entries) \/ e \notin playbook.ids
<1>2. ASSUME NEW new, Fits(new), Edit(new) PROVE EditStep
  BY <1>2 DEF EditStep, Edit, Save, runnerVars, history, Sound, Active
<1>3. ASSUME NEW e \in Entry, AddEntry(e) PROVE EditStep
  <2> DEFINE new == [playbook EXCEPT !.entries = Append(@, e), !.ids = @ \cup {e}]
  <2>1. Edit(new) /\ e \notin playbook.ids
    BY <1>3 DEF AddEntry
  <2>2. /\ Append(playbook.entries, e) \in Seq(Entry)
        /\ ToSet(Append(playbook.entries, e)) = ToSet(playbook.entries) \cup {e}
    BY <1>1, ToSetAppend
  <2>3. /\ new.entries = Append(playbook.entries, e) /\ new.ids = playbook.ids \cup {e}
        /\ new.run = playbook.run /\ new.runnable = playbook.runnable /\ new \in Books
    BY <1>1, <2>2 DEF Books
  <2> HIDE DEF new
  <2>4. Fits(new)
    BY <1>1, <2>1, <2>2, <2>3 DEF Sound
  <2>5. QED
    BY <1>2, <2>1, <2>4
<1>4. ASSUME NEW e \in Entry, RemoveEntry(e) PROVE EditStep
  <2> DEFINE entry == IF playbook.run.entry = e THEN NoEntry ELSE playbook.run.entry
             new(i) == [playbook EXCEPT !.entries = RemoveAt(@, i),
                                        !.run.entry = IF @ = e THEN NoEntry ELSE @]
  <2>1. PICK i \in DOMAIN playbook.entries : playbook.entries[i] = e /\ Edit(new(i))
    BY <1>4 DEF RemoveEntry
  <2>2. /\ RemoveAt(playbook.entries, i) \in Seq(Entry)
        /\ ToSet(RemoveAt(playbook.entries, i)) \subseteq ToSet(playbook.entries)
        /\ ToSet(playbook.entries) \subseteq ToSet(RemoveAt(playbook.entries, i)) \cup {e}
    BY <1>1, <2>1, ToSetRemoveAt
  <2>3. /\ new(i).entries = RemoveAt(playbook.entries, i) /\ new(i).ids = playbook.ids
        /\ new(i).run = [playbook.run EXCEPT !.entry = entry]
        /\ new(i).runnable = playbook.runnable /\ new(i).done = playbook.done
        /\ DOMAIN new(i) = DOMAIN playbook
    BY <1>1 DEF Books
  <2>4. /\ new(i).run \in Runs /\ new(i).run.entry = entry
        /\ new(i).run.status = playbook.run.status
    BY <1>1, <2>3 DEF Runs
  <2>5. new(i) \in Books
    BY <1>1, <2>2, <2>4 DEF Books, Runs
  <2>6. Active(playbook.run) => new(i).run = playbook.run
    <3>1. Active(playbook.run) => entry = playbook.run.entry
      BY <1>4 DEF RemoveEntry
    <3>2. QED
      BY <1>1, <2>3, <3>1 DEF Runs
  <2>7. Active(new(i).run) => Active(playbook.run)
    BY <2>4 DEF Active
  <2>8. entry \in ToSet(RemoveAt(playbook.entries, i)) \cup {NoEntry}
    BY <1>1, <2>2 DEF Sound
  <2>9. entry \in {playbook.run.entry, NoEntry}
    OBVIOUS
  <2> HIDE DEF new, entry
  <2>10. Fits(new(i))
    BY <1>1, <2>2, <2>3, <2>4, <2>5, <2>6, <2>7, <2>8, <2>9 DEF Sound
  <2>11. QED
    BY <1>2, <2>1, <2>10
<1>5. ASSUME NEW m \in Manual, CheckOff(m) PROVE EditStep
  <2> DEFINE new == [playbook EXCEPT !.done = SymDiff(@, {m})]
  <2>1. Edit(new)
    BY <1>5 DEF CheckOff
  <2>2. SymDiff(playbook.done, {m}) \in SUBSET Entry
    BY <1>1 DEF SymDiff, Entry
  <2>3. /\ new.entries = playbook.entries /\ new.ids = playbook.ids
        /\ new.run = playbook.run /\ new.runnable = playbook.runnable /\ new \in Books
    BY <1>1, <2>2 DEF Books
  <2> HIDE DEF new
  <2>4. Fits(new)
    BY <1>1, <2>3 DEF Sound
  <2>5. QED
    BY <1>2, <2>1, <2>4
<1>6. CASE SetRunnable
  <2> DEFINE run == IF playbook.runnable THEN NoRun ELSE playbook.run
             new == [playbook EXCEPT !.runnable = ~@,
                                     !.run = IF playbook.runnable THEN NoRun ELSE @]
  <2>1. Edit(new) /\ ~Active(playbook.run)
    BY <1>1, <1>6 DEF SetRunnable, Sound
  <2>2. run \in Runs /\ run.entry \in {playbook.run.entry, NoEntry} /\ ~Active(run)
    BY <1>1, <2>1, NoPassTyped DEF NoRun, Active
  <2>3. /\ new.entries = playbook.entries /\ new.ids = playbook.ids /\ new.run = run
        /\ new \in Books
    BY <1>1, <2>2 DEF Books
  <2> HIDE DEF new, run
  <2>4. Fits(new)
    BY <1>1, <2>1, <2>2, <2>3 DEF Sound
  <2>5. QED
    BY <1>2, <2>1, <2>4
<1>7. QED
  BY <1>3, <1>4, <1>5, <1>6

-----------------------------------------------------------------------------
(* The kinds of steps.                                                      *)

Deciding(w) ==
    \/ Return(w) \/ PassRead(w) \/ RunWrite(w) \/ RunCommitted(w) \/ RunCommitFails(w)
    \/ Release(w)

LEMMA StepKinds ==
    ASSUME Typed, [Next]_vars
    PROVE  \/ \E w \in Slot : Passing(w) \/ Deciding(w)
           \/ CardOnly \/ EditStep \/ EditAnswered
           \/ Play \/ Stop \/ ControlStep \/ Shutdown \/ Restart
<1>1. CASE UNCHANGED vars
  BY <1>1, CardsKept DEF vars, runnerVars, history, CardOnly, Typed
<1>2. CASE \E w \in Slot : WalkerStep(w)
  BY <1>2 DEF WalkerStep, Passing, Deciding
<1>3. CASE \E c \in Card : PersonOrWorker(c)
  BY <1>3, CardStepsOnly
<1>4. CASE \/ \E e \in Entry : AddEntry(e) \/ RemoveEntry(e)
           \/ \E m \in Manual : CheckOff(m)
           \/ SetRunnable
  BY <1>4, EditsAreSteps
<1>5. QED
  BY <1>1, <1>2, <1>3, <1>4 DEF Next, PersonOrWorker

\* walk returns.
LEMMA ExitOnly ==
    ASSUME Typed, NEW w \in Slot, Exit(w)
    PROVE  /\ walk' \in [Slot -> Walks] /\ walk'[w] = Gone
           /\ \A v \in Slot \ {w} :
                /\ walk'[v].prev = IF walk[v].prev = w THEN 0 ELSE walk[v].prev
                /\ walk'[v].pc = walk[v].pc /\ walk'[v].pass = walk[v].pass
                /\ walk'[v].cancelled = walk[v].cancelled /\ walk'[v].nudge = walk[v].nudge
           /\ walker' = IF walker = w THEN 0 ELSE walker
           /\ exiting' = IF exiting = w THEN 0 ELSE exiting
           /\ control' \in Controls /\ control' = [control EXCEPT !.join = control'.join]
           /\ control'.join = IF control.join = w THEN 0 ELSE control.join
<1>1. walk \in [Slot -> Walks] /\ control \in Controls
  BY DEF Typed
<1>2. \A v \in Slot : [walk[v] EXCEPT !.prev = IF @ = w THEN 0 ELSE @] \in Walks
  BY <1>1 DEF Walks
<1>3. /\ walk' \in [Slot -> Walks] /\ walk'[w] = Gone
      /\ \A v \in Slot \ {w} : walk'[v] = [walk[v] EXCEPT !.prev = IF @ = w THEN 0 ELSE @]
  BY <1>2, NoPassTyped DEF Exit
<1>4. \A v \in Slot \ {w} :
        /\ walk'[v].prev = IF walk[v].prev = w THEN 0 ELSE walk[v].prev
        /\ walk'[v].pc = walk[v].pc /\ walk'[v].pass = walk[v].pass
        /\ walk'[v].cancelled = walk[v].cancelled /\ walk'[v].nudge = walk[v].nudge
  BY <1>1, <1>3 DEF Walks
<1>5. /\ control' \in Controls /\ control' = [control EXCEPT !.join = control'.join]
      /\ control'.join = IF control.join = w THEN 0 ELSE control.join
  BY <1>1 DEF Exit, Controls
<1>6. QED
  BY <1>3, <1>4, <1>5 DEF Exit

\* A walker is registered unless the shutdown has begun, and nudged or new.
LEMMA EnsureOnly ==
    ASSUME Typed, Ensure
    PROVE  /\ walk' \in [Slot -> Walks] /\ walker' \in Slot \cup {0} /\ exiting' = exiting
           /\ \/ closed /\ walker' = walker /\ walk' = walk
              \/ /\ ~closed /\ walker # 0 /\ walker' = walker /\ walk'[walker].nudge = TRUE
                 /\ walk'[walker].pc = walk[walker].pc /\ walk'[walker].prev = walk[walker].prev
                 /\ walk'[walker].cancelled = walk[walker].cancelled
                 /\ walk'[walker].pass = walk[walker].pass
                 /\ \A v \in Slot \ {walker} : walk'[v] = walk[v]
              \/ /\ ~closed /\ walker = 0 /\ walker' \in Slot /\ walk[walker'].pc = "none"
                 /\ walk'[walker'].pc = "idle" /\ walk'[walker'].prev = exiting
                 /\ ~walk'[walker'].cancelled
                 /\ \A v \in Slot \ {walker'} : walk'[v] = walk[v]
<1>1. walk \in [Slot -> Walks] /\ walker \in Slot \cup {0} /\ exiting \in Slot \cup {0}
      /\ 0 \notin Slot
  BY RunAssumption DEF Typed
<1>2. CASE closed
  BY <1>1, <1>2 DEF Ensure, runnerVars
<1>3. CASE ~closed /\ walker # 0
  <2>1. walk' = [walk EXCEPT ![walker].nudge = TRUE] /\ UNCHANGED <<walker, exiting>>
    BY <1>3 DEF Ensure
  <2>2. [walk[walker] EXCEPT !.nudge = TRUE] \in Walks
    BY <1>1, <1>3 DEF Walks
  <2>3. walk' \in [Slot -> Walks] /\ walk'[walker] = [walk[walker] EXCEPT !.nudge = TRUE]
        /\ \A v \in Slot \ {walker} : walk'[v] = walk[v]
    BY <1>1, <1>3, <2>1, <2>2
  <2>4. QED
    BY <1>1, <1>3, <2>1, <2>3 DEF Walks
<1>4. CASE ~closed /\ walker = 0
  <2>1. PICK w \in Free :
          /\ walker' = w /\ UNCHANGED exiting
          /\ walk' = [walk EXCEPT ![w] = [Gone EXCEPT !.pc = "idle", !.prev = exiting]]
    BY <1>4 DEF Ensure
  <2>2. w \in Slot /\ walk[w].pc = "none"
    BY DEF Free
  <2> DEFINE new == [Gone EXCEPT !.pc = "idle", !.prev = exiting]
  <2>3. new \in Walks /\ new.pc = "idle" /\ new.prev = exiting /\ new.cancelled = FALSE
    BY <1>1, NoPassTyped DEF Walks, Pcs, Gone
  <2> HIDE DEF new
  <2>4. /\ walk' \in [Slot -> Walks] /\ walk'[w] = new
        /\ \A v \in Slot \ {w} : walk'[v] = walk[v]
    BY <1>1, <2>1, <2>2, <2>3 DEF new
  <2>5. QED
    BY <1>4, <2>1, <2>2, <2>3, <2>4
<1>5. QED
  BY <1>2, <1>3, <1>4

\* A pass begins with what the playbook says, or finds nothing to run.
LEMMA PassReadOnly ==
    ASSUME Typed, NEW w \in Slot, PassRead(w)
    PROVE  /\ walk[w].pc = "idle" /\ walk[w].prev = 0 /\ ~walk[w].cancelled
           /\ walk' \in [Slot -> Walks] /\ \A v \in Slot \ {w} : walk'[v] = walk[v]
           /\ walk'[w].prev = 0 /\ walk'[w].cancelled = walk[w].cancelled
           /\ \/ /\ Active(playbook.run) /\ walk'[w].pc = "hold"
                 /\ walk'[w].pass.run = playbook.run
                 /\ walk'[w].pass.entries = playbook.entries
              \/ ~Active(playbook.run) /\ walk'[w].pc = "release"
<1>1. walk \in [Slot -> Walks] /\ playbook \in Books /\ Sound(playbook)
  BY DEF Typed
<1> DEFINE go == playbook.runnable /\ Active(playbook.run)
           pc == IF go THEN "hold" ELSE "release"
           done == {e \in ToSet(playbook.entries) : Complete(e)}
           read == [NoPass EXCEPT !.run = playbook.run, !.entries = playbook.entries,
                                  !.complete = done]
           pass == IF go THEN read ELSE NoPass
<1>2. go <=> Active(playbook.run)
  BY <1>1 DEF Sound
<1>3. read \in Passes /\ read.run = playbook.run /\ read.entries = playbook.entries
  <2>1. done \in SUBSET Entry /\ playbook.run \in Runs /\ playbook.entries \in Seq(Entry)
    BY <1>1, ToSetTyped DEF Books
  <2> HIDE DEF done
  <2>2. QED
    BY <2>1, NoPassTyped DEF Passes, NoPass
<1> HIDE DEF read
<1>4. pass \in Passes
  BY <1>3, NoPassTyped
<1>5. PICK n \in {walk[w].nudge, FALSE} :
        walk' = [walk EXCEPT ![w].nudge = n, ![w].pc = pc, ![w].pass = pass]
  BY DEF PassRead, read
<1>6. /\ walk'[w] = [walk[w] EXCEPT !.nudge = n, !.pc = pc, !.pass = pass]
      /\ \A v \in Slot \ {w} : walk'[v] = walk[v]
      /\ walk' \in [Slot -> Walks]
  <2>1. n \in BOOLEAN /\ pc \in Pcs
    BY <1>1 DEF Walks, Pcs
  <2> HIDE DEF pass, pc
  <2>2. [walk[w] EXCEPT !.nudge = n, !.pc = pc, !.pass = pass] \in Walks
    BY <1>1, <1>4, <2>1 DEF Walks
  <2>3. QED
    BY <1>1, <1>5, <2>2
<1>7. /\ walk'[w].prev = walk[w].prev /\ walk'[w].cancelled = walk[w].cancelled
      /\ walk'[w].pc = pc /\ walk'[w].pass = pass
  BY <1>1, <1>6 DEF Walks
<1>8. QED
  BY <1>2, <1>3, <1>6, <1>7 DEF PassRead, At

\* The guarded write is in the store.
LEMMA RunWriteOnly ==
    ASSUME Typed, NEW w \in Slot, RunWrite(w)
    PROVE  \E run \in Runs, pass \in Passes :
              /\ walk[w].pc = "write" /\ walk[w].prev = 0 /\ Unchanged(w)
              /\ mutex.by = "nobody" /\ mutex' = [by |-> "walker", old |-> playbook]
              /\ playbook' = [playbook EXCEPT !.run = run] /\ playbook'.run = run
              /\ run.status = walk[w].pass.want[1] /\ run.entry = walk[w].pass.want[2]
              /\ pass = [walk[w].pass EXCEPT !.run = run]
              /\ Moves(w, "commit", pass)
<1>1. walk \in [Slot -> Walks] /\ playbook \in Books
  BY DEF Typed
<1>2. Fresh \in Stamp
  BY <1>1, FreshTyped DEF Books, Walks, Passes, Runs
<1> DEFINE run == [status |-> walk[w].pass.want[1], entry |-> walk[w].pass.want[2],
                   stamp |-> Fresh]
           pass == [walk[w].pass EXCEPT !.run = run]
<1>3. /\ run \in Runs /\ run.status = walk[w].pass.want[1] /\ run.entry = walk[w].pass.want[2]
  BY <1>1, <1>2 DEF Walks, Passes, Runs, Statuses
<1>4. /\ At(w, "write") /\ Unchanged(w) /\ Save("walker", [playbook EXCEPT !.run = run])
      /\ Goto(w, "commit", pass)
  BY DEF RunWrite
<1> HIDE DEF run
<1>5. pass \in Passes
  <2>1. walk[w].pass \in Passes
    BY <1>1 DEF Walks
  <2>2. QED
    BY <1>3, <2>1 DEF Passes
<1>6. Moves(w, "commit", pass)
  BY <1>4, <1>5, GotoMoves
<1>7. playbook' = [playbook EXCEPT !.run = run] /\ playbook'.run = run
  BY <1>1, <1>4 DEF Save, Books
<1>8. QED
  BY <1>3, <1>4, <1>5, <1>6, <1>7 DEF At, Save

-----------------------------------------------------------------------------
(* Types.                                                                   *)

LEMMA BlankTyped == Blank \in Books /\ Sound(Blank)
<1>1. Initial \in Seq(Entry) /\ ToSet(Initial) \in SUBSET Entry
  BY RunAssumption, ToSetTyped
<1>2. QED
  BY <1>1, NoPassTyped DEF Blank, Books, Sound, NoRun, Active

LEMMA TypedInit == Init => Typed
<1> SUFFICES ASSUME Init PROVE Typed
  OBVIOUS
<1>1. Quiet \in Controls
  BY DEF Quiet, Controls
<1>2. card \in [Card -> Cards]
  BY DEF Init, Cards
<1>3. QED
  BY <1>1, <1>2, BlankTyped, NoPassTyped DEF Init, Typed, Unlocked

LEMMA StartTyped == Unlocked \in [by : {"nobody", "play", "stop", "edit", "walker"}, old : Books]
                    /\ Sound(Unlocked.old) /\ Quiet \in Controls
BY BlankTyped DEF Unlocked, Quiet, Controls

\* A write puts a new run block into the playbook; its entry is one of the entries.
LEMMA RunReplaced ==
    ASSUME playbook \in Books, NEW run \in Runs,
           run.entry \in ToSet(playbook.entries) \cup {NoEntry},
           Active(run) => playbook.runnable, ToSet(playbook.entries) \subseteq playbook.ids,
           playbook' = [playbook EXCEPT !.run = run]
    PROVE  playbook' \in Books /\ Sound(playbook)' /\ playbook'.run = run
<1>1. /\ playbook' \in Books /\ playbook'.run = run /\ playbook'.entries = playbook.entries
      /\ playbook'.ids = playbook.ids /\ playbook'.runnable = playbook.runnable
  BY DEF Books
<1>2. QED
  BY <1>1 DEF Sound, Active

LEMMA PlayOnly ==
    ASSUME Typed, Play
    PROVE  \E run \in Runs :
              /\ mutex.by = "nobody" /\ mutex' = [by |-> "play", old |-> playbook]
              /\ playbook' = [playbook EXCEPT !.run = run] /\ playbook'.run = run
              /\ playbook' \in Books /\ Sound(playbook)'
              /\ run.status = "running"
              /\ run.entry \in ToSet(playbook.entries) \cup {NoEntry}
<1>1. /\ playbook \in Books /\ Sound(playbook) /\ playbook.entries \in Seq(Entry)
      /\ walk \in [Slot -> Walks]
  BY DEF Typed, Books
<1> DEFINE entry == LiveEntry(playbook.entries, playbook.run.entry)
           run == [status |-> "running", stamp |-> Fresh, entry |-> entry]
<1>2. Fresh \in Stamp
  BY <1>1, FreshTyped DEF Books, Walks, Passes, Runs
<1>3. entry \in (Card \cap ToSet(playbook.entries)) \cup {NoEntry}
  BY <1>1, LiveEntryFinds
<1>4. mutex.by = "nobody" /\ mutex' = [by |-> "play", old |-> playbook]
      /\ playbook' = [playbook EXCEPT !.run = run] /\ playbook.runnable
  BY DEF Play, Save
<1> HIDE DEF entry
<1>5. run \in Runs /\ run.status = "running" /\ run.entry = entry
  BY <1>2, <1>3 DEF Runs, Entry
<1> HIDE DEF run
<1>6. playbook' \in Books /\ Sound(playbook)' /\ playbook'.run = run
  BY <1>1, <1>3, <1>4, <1>5, RunReplaced DEF Sound
<1>7. QED
  BY <1>3, <1>4, <1>5, <1>6

LEMMA StopOnly ==
    ASSUME Typed, Stop
    PROVE  \E run \in Runs :
              /\ mutex.by = "nobody" /\ mutex' = [by |-> "stop", old |-> playbook]
              /\ playbook' = [playbook EXCEPT !.run = run] /\ playbook'.run = run
              /\ playbook' \in Books /\ Sound(playbook)'
              /\ run.status = "stopped" /\ run.entry = playbook.run.entry
              /\ control' \in Controls /\ control'.pc = "stopCommit" /\ control'.join = 0
              /\ control'.targets = StopTargets /\ control'.excused = (Stray = TRUE)
<1>1. playbook \in Books /\ Sound(playbook) /\ walk \in [Slot -> Walks]
  BY DEF Typed
<1> DEFINE run == [playbook.run EXCEPT !.status = "stopped", !.stamp = Fresh]
<1>2. Fresh \in Stamp
  BY <1>1, FreshTyped DEF Books, Walks, Passes, Runs
<1>3. /\ mutex.by = "nobody" /\ mutex' = [by |-> "stop", old |-> playbook]
      /\ playbook' = [playbook EXCEPT !.run.status = "stopped", !.run.stamp = Fresh]
  BY DEF Stop, Save
<1>4. playbook' = [playbook EXCEPT !.run = run]
  BY <1>1, <1>3 DEF Books
<1>5. run \in Runs /\ run.status = "stopped" /\ run.entry = playbook.run.entry
  BY <1>1, <1>2 DEF Runs, Books
<1> HIDE DEF run
<1>6. playbook' \in Books /\ Sound(playbook)' /\ playbook'.run = run
  BY <1>1, <1>4, <1>5, RunReplaced DEF Sound, Active
<1>7. Stray \in BOOLEAN
  BY DEF Stray
<1>8. StopTargets \in SUBSET Card
  BY DEF StopTargets
<1>9. /\ control' \in Controls /\ control'.pc = "stopCommit" /\ control'.join = 0
      /\ control'.targets = StopTargets /\ control'.excused = (Stray = TRUE)
  BY <1>7, <1>8 DEF Stop, Quiet, Controls
<1>10. QED
  BY <1>3, <1>4, <1>5, <1>6, <1>9

LEMMA CancelOnly ==
    ASSUME Typed, CancelWalker
    PROVE  /\ control.pc = "cancel" /\ control' \in Controls /\ control'.pc = "join"
           /\ control'.join = walker /\ control'.excused = control.excused
           /\ control'.targets = control.targets
           /\ walk' \in [Slot -> Walks]
           /\ \/ walker = 0 /\ walk' = walk /\ walker' = 0 /\ exiting' = exiting
              \/ /\ walker \in Slot /\ walker' = 0 /\ exiting' = walker
                 /\ walk'[walker].cancelled = TRUE /\ walk'[walker].pc = walk[walker].pc
                 /\ walk'[walker].prev = walk[walker].prev
                 /\ walk'[walker].nudge = walk[walker].nudge
                 /\ walk'[walker].pass = walk[walker].pass
                 /\ \A v \in Slot \ {walker} : walk'[v] = walk[v]
<1>1. walk \in [Slot -> Walks] /\ walker \in Slot \cup {0} /\ control \in Controls
  BY DEF Typed
<1>2. control.pc = "cancel" /\ control' = [control EXCEPT !.pc = "join", !.join = walker]
  BY DEF CancelWalker
<1>3. /\ control' \in Controls /\ control'.pc = "join"
      /\ control'.join = walker /\ control'.excused = control.excused
      /\ control'.targets = control.targets
  BY <1>1, <1>2 DEF Controls
<1>4. CASE walker = 0
  BY <1>1, <1>2, <1>3, <1>4 DEF CancelWalker, runnerVars
<1>5. CASE walker # 0
  <2>1. walk' = [walk EXCEPT ![walker].cancelled = TRUE] /\ exiting' = walker /\ walker' = 0
    BY <1>5 DEF CancelWalker
  <2>2. [walk[walker] EXCEPT !.cancelled = TRUE] \in Walks
    BY <1>1, <1>5 DEF Walks
  <2>3. /\ walk' \in [Slot -> Walks] /\ walk'[walker] = [walk[walker] EXCEPT !.cancelled = TRUE]
        /\ \A v \in Slot \ {walker} : walk'[v] = walk[v]
    BY <1>1, <1>5, <2>1, <2>2
  <2>4. QED
    BY <1>1, <1>2, <1>3, <1>5, <2>1, <2>3 DEF Walks
<1>6. QED
  BY <1>4, <1>5

LEMMA RestartOnly ==
    ASSUME Typed, Restart
    PROVE  /\ mutex' = Unlocked /\ control' = Quiet /\ closed' = FALSE /\ exiting' = 0
           /\ UNCHANGED <<card, playbook, sent, undone, slipped, stopOk>>
           /\ crashed' = (crashed \/ \E w \in Slot : walk[w].pc = "trigger")
           /\ walk' \in [Slot -> Walks] /\ walker' \in Slot \cup {0}
           /\ walker' # 0 <=> Active(playbook.run)
           /\ \A w \in Slot :
                /\ walk'[w].prev = 0 /\ ~walk'[w].cancelled
                /\ walk'[w].pc = IF w = walker' THEN "idle" ELSE "none"
<1> DEFINE first == CHOOSE w \in Slot : \A v \in Slot : w <= v
           resumed == playbook.runnable /\ Active(playbook.run)
<1>1. first \in Slot /\ 0 \notin Slot
  <2>1. Slot \in SUBSET Nat /\ Slot # {} /\ 0 \notin Slot
    BY RunAssumption
  <2>2. Min(Slot) \in Slot
    BY <2>1, LeastExists
  <2>3. QED
    BY <2>1, <2>2 DEF Min
<1>2. resumed <=> Active(playbook.run)
  BY DEF Typed, Sound
<1>3. /\ mutex' = Unlocked /\ control' = Quiet /\ closed' = FALSE /\ exiting' = 0
      /\ UNCHANGED <<card, playbook, sent, undone, slipped, stopOk>>
      /\ crashed' = (crashed \/ \E w \in Slot : walk[w].pc = "trigger")
      /\ walker' = IF resumed THEN first ELSE 0
      /\ walk' = [w \in Slot |-> IF resumed /\ w = first
                                 THEN [Gone EXCEPT !.pc = "idle"] ELSE Gone]
  BY DEF Restart
<1> HIDE DEF first, resumed
<1> DEFINE idle == [Gone EXCEPT !.pc = "idle"]
<1>4. /\ idle \in Walks /\ idle.pc = "idle" /\ idle.prev = 0 /\ ~idle.cancelled
      /\ Gone.pc = "none" /\ Gone.prev = 0 /\ ~Gone.cancelled
  BY NoPassTyped DEF Walks, Pcs, Gone
<1> HIDE DEF idle
<1>5. \A w \in Slot : walk'[w] = IF resumed /\ w = first THEN idle ELSE Gone
  BY <1>3 DEF idle
<1>6. walk' \in [Slot -> Walks]
  BY <1>3, <1>4, NoPassTyped DEF idle
<1>7. QED
  BY <1>1, <1>2, <1>3, <1>4, <1>5, <1>6

LEMMA BooksKept ==
    ASSUME Typed, UNCHANGED <<playbook, mutex>>
    PROVE  /\ playbook' \in Books /\ Sound(playbook)'
           /\ mutex' \in [by : {"nobody", "play", "stop", "edit", "walker"}, old : Books]
           /\ Sound(mutex.old)'
BY DEF Typed, Sound, Active

LEMMA TypedStep ==
    ASSUME Typed, \A w \in Slot : Decided(w), [Next]_vars
    PROVE  Typed'
<1>1. ASSUME NEW w \in Slot, Passing(w) PROVE Typed'
  <2>1. PassStep(w)
    BY <1>1, PassingIsPassStep
  <2>2. card' \in [Card -> Cards] /\ sent' \in SUBSET Card
    BY <1>1, PassLaunches
  <2>3. walk' \in [Slot -> Walks]
    BY <2>1, MovesOnly DEF PassStep, Typed
  <2>4. QED
    BY <2>1, <2>2, <2>3 DEF PassStep, Typed, Sound, Active
<1>2. ASSUME NEW w \in Slot, Deciding(w) PROVE Typed'
  <2>1. CASE Return(w) \/ (Release(w) /\ ~walk[w].nudge)
    <3>1. Exit(w) /\ UNCHANGED <<card, playbook, mutex, closed, used, history>>
      BY <2>1 DEF Return, Release
    <3>2. QED
      BY <3>1, ExitOnly DEF Typed, history, Sound, Active
  <2>2. CASE Release(w) /\ walk[w].nudge
    <3>1. [walk[w] EXCEPT !.nudge = FALSE, !.pc = "idle"] \in Walks
      BY DEF Typed, Walks, Pcs
    <3>2. walk' \in [Slot -> Walks]
      BY <2>2, <3>1 DEF Release, Typed
    <3>3. QED
      BY <2>2, <3>2 DEF Release, Typed, history, Sound, Active
  <2>3. CASE PassRead(w)
    <3>1. walk' \in [Slot -> Walks]
      BY <2>3, PassReadOnly
    <3>2. UNCHANGED <<card, playbook, mutex, walker, exiting, control, closed, history>>
      BY <2>3 DEF PassRead
    <3>3. QED
      BY <3>1, <3>2, BooksKept DEF Typed, history
  <2>4. CASE RunWrite(w)
    <3>1. PICK run \in Runs, pass \in Passes :
            /\ Unchanged(w)
            /\ mutex.by = "nobody" /\ mutex' = [by |-> "walker", old |-> playbook]
            /\ playbook' = [playbook EXCEPT !.run = run]
            /\ run.entry = walk[w].pass.want[2]
            /\ Moves(w, "commit", pass)
      BY <2>4, RunWriteOnly
    <3>2. playbook' \in Books /\ Sound(playbook)'
      BY <3>1, RunReplaced DEF Typed, Unchanged, Sound
    <3>3. walk' \in [Slot -> Walks]
      BY <3>1, MovesOnly DEF Typed, Pcs
    <3>4. mutex' \in [by : {"nobody", "play", "stop", "edit", "walker"}, old : Books]
          /\ Sound(mutex.old)'
      BY <3>1 DEF Typed, Sound
    <3>5. QED
      BY <2>4, <3>2, <3>3, <3>4 DEF RunWrite, PassUnchanged, history, Typed
  <2>5. CASE RunCommitted(w) \/ RunCommitFails(w)
    <3>1. \/ Goto(w, walk[w].pass.then, walk[w].pass) \/ Goto(w, "idle", NoPass)
      BY <2>5 DEF RunCommitted, RunCommitFails
    <3>2. walk[w].pass \in Passes /\ walk[w].pass.then \in Pcs
      BY DEF Typed, Walks, Passes, Pcs
    <3>3. \E pc \in Pcs, pass \in Passes : Moves(w, pc, pass)
      BY <3>1, <3>2, GotoMoves, NoPassTyped DEF Pcs
    <3>4. walk' \in [Slot -> Walks]
      BY <3>3, MovesOnly DEF Typed
    <3>5. mutex' = Unlocked /\ playbook' \in {playbook, mutex.old}
      BY <2>5 DEF RunCommitted, RunCommitFails, Committed, RolledBack
    <3>6. QED
      BY <2>5, <3>4, <3>5, StartTyped DEF RunCommitted, RunCommitFails, PassUnchanged, history,
         Typed, Sound, Active
  <2>6. QED
    BY <1>2, <2>1, <2>2, <2>3, <2>4, <2>5 DEF Deciding
<1>3. CASE CardOnly
  BY <1>3 DEF CardOnly, NoNewLaunch, Typed, Sound, Active
<1>4. CASE EditStep
  <2>1. mutex' \in [by : {"nobody", "play", "stop", "edit", "walker"}, old : Books]
        /\ Sound(mutex.old)'
    BY <1>4 DEF EditStep, Typed, Sound
  <2>2. QED
    BY <1>4, <2>1 DEF EditStep, Typed
<1>5. CASE EditAnswered
  <2>1. mutex' = Unlocked /\ playbook' \in {playbook, mutex.old} /\ undone' \in BOOLEAN
    BY <1>5 DEF EditAnswered, Committed, RolledBack, Typed
  <2>2. QED
    BY <1>5, <2>1, StartTyped DEF EditAnswered, Typed, runnerVars, Sound, Active
<1>6. CASE Play
  <2>1. /\ playbook' \in Books /\ Sound(playbook)' /\ mutex' = [by |-> "play", old |-> playbook]
    BY <1>6, PlayOnly
  <2>2. mutex' \in [by : {"nobody", "play", "stop", "edit", "walker"}, old : Books]
        /\ Sound(mutex.old)'
    BY <2>1 DEF Typed, Sound
  <2>3. control' \in Controls
    BY <1>6 DEF Play, Control, Typed, Controls
  <2>4. QED
    BY <1>6, <2>1, <2>2, <2>3 DEF Play, Typed, runnerVars
<1>7. CASE Stop
  <2>1. /\ playbook' \in Books /\ Sound(playbook)' /\ mutex' = [by |-> "stop", old |-> playbook]
        /\ control' \in Controls
    BY <1>7, StopOnly
  <2>2. mutex' \in [by : {"nobody", "play", "stop", "edit", "walker"}, old : Books]
        /\ Sound(mutex.old)'
    BY <2>1 DEF Typed, Sound
  <2>3. QED
    BY <1>7, <2>1, <2>2 DEF Stop, Typed, runnerVars, history
<1>8. CASE ControlStep
  <2>1. CASE PlayCommitted \/ PlayFails \/ StopCommitted \/ StopWriteFails
    <3>1. mutex' = Unlocked /\ playbook' \in {playbook, mutex.old} /\ undone' \in BOOLEAN
      BY <2>1 DEF PlayCommitted, PlayFails, StopCommitted, StopWriteFails, Committed, RolledBack,
         history, Typed
    <3>2. control' \in Controls
      BY <2>1 DEF PlayCommitted, PlayFails, StopCommitted, StopWriteFails, Control, Typed,
         Controls, Quiet
    <3>3. QED
      BY <2>1, <3>1, <3>2, StartTyped DEF PlayCommitted, PlayFails, StopCommitted,
         StopWriteFails, runnerVars, history, Typed, Sound, Active
  <2>2. CASE CallEnsure
    <3>1. control' \in Controls
      BY <2>2 DEF CallEnsure, Control, Typed, Controls
    <3>2. QED
      BY <2>2, <3>1, EnsureOnly, BooksKept DEF CallEnsure, Typed, history
  <2>3. CASE CancelWalker
    <3>1. UNCHANGED <<card, playbook, mutex, closed, history>>
      BY <2>3 DEF CancelWalker
    <3>2. /\ walk' \in [Slot -> Walks] /\ control' \in Controls /\ walker' = 0
          /\ exiting' \in Slot \cup {0}
      BY <2>3, CancelOnly DEF Typed
    <3>3. QED
      BY <3>1, <3>2, BooksKept DEF Typed, history
  <2>4. CASE Joined \/ StopWaitExpires \/ StopReturns
    <3>1. control' \in Controls /\ stopOk' \in BOOLEAN
      BY <2>4, StartTyped DEF Joined, StopWaitExpires, StopReturns, Control, Typed, Controls,
         history
    <3>2. QED
      BY <2>4, <3>1 DEF Joined, StopWaitExpires, StopReturns, Typed, history, runnerVars,
         Sound, Active
  <2>5. ASSUME NEW c \in Card, Kill(c) \/ KillFails(c) PROVE Typed'
    <3>1. card' \in [Card -> Cards]
      BY <2>5, KillsOnly DEF NoNewLaunch
    <3>2. control' \in Controls
      <4>1. /\ [control EXCEPT !.targets = @ \ {c}] \in Controls
            /\ [control EXCEPT !.targets = @ \ {c}, !.excused = TRUE] \in Controls
        BY DEF Typed, Controls
      <4>2. QED
        BY <2>5, <4>1 DEF Kill, KillFails
    <3>3. QED
      BY <2>5, <3>1, <3>2 DEF Kill, KillFails, Typed, history, runnerVars, Sound, Active
  <2>6. QED
    BY <1>8, <2>1, <2>2, <2>3, <2>4, <2>5 DEF ControlStep
<1>9. CASE Shutdown
  <2>1. \A w \in Slot : [walk[w] EXCEPT !.cancelled = walk[w].pc # "none"] \in Walks
    BY DEF Typed, Walks
  <2>2. walk' \in [Slot -> Walks]
    BY <1>9, <2>1 DEF Shutdown
  <2>3. QED
    BY <1>9, <2>2 DEF Shutdown, Typed, history, Sound, Active
<1>10. CASE Restart
  BY <1>10, RestartOnly, StartTyped DEF Typed, Sound, Active
<1>11. QED
  BY <1>1, <1>2, <1>3, <1>4, <1>5, <1>6, <1>7, <1>8, <1>9, <1>10, StepKinds

-----------------------------------------------------------------------------
(* At most one walker is in a pass: the others wait for it.                 *)

LEMMA OneInPass ==
    ASSUME Typed, Registry, NEW v \in Slot, NEW w \in Slot, Exists(v) /\ walk[v].prev = 0,
           MidPass(w) \/ (Exists(w) /\ walk[w].prev = 0)
    PROVE  v = w
BY DEF Registry, MidPass, Exists

LEMMA Commits ==
    ASSUME Typed, Registry, Locks, NEW v \in Slot, walk[v].pc = "commit"
    PROVE  /\ mutex.by = "walker"
           /\ \A w \in Slot : Exists(w) /\ walk[w].prev = 0 => w = v
           /\ control.pc \notin {"playCommit", "stopCommit"}
BY OneInPass DEF Locks, MidPass

-----------------------------------------------------------------------------
(* What a pass has decided.                                                 *)

LEMMA DecidedKept ==
    ASSUME NEW w \in Slot, Decided(w), walk'[w].pc = walk[w].pc, walk'[w].pass = walk[w].pass,
           walk[w].pc = "commit" => playbook'.run = playbook.run
    PROVE  Decided(w)'
BY DEF Decided, Launching, MidPass, Frontier, Active

LEMMA NotInPass ==
    ASSUME NEW w \in Slot, walk'[w].pc \in {"none", "idle", "release"}
    PROVE  Decided(w)'
BY DEF Decided, Launching, MidPass

LEMMA AdvanceDecides ==
    ASSUME Typed, NEW w \in Slot, Decided(w), PassStep(w)
    PROVE  Decided(w)'
<1> DEFINE p == walk[w].pass
<1>1. PICK pc \in Pcs, pass \in Passes : Moves(w, pc, pass) /\ Advance(w, pc, pass)
  BY DEF PassStep
<1>2. walk[w] \in Walks /\ p \in Passes /\ walk'[w].pc = pc /\ walk'[w].pass = pass
  BY <1>1, MovesOnly DEF Typed, Walks
<1>3. Active(p.run) /\ walk[w].pc \in InPass
  BY DEF PassStep, Decided, InPass, MidPass
<1>4. CASE pc = "idle"
  BY <1>2, <1>4, NotInPass
<1>5. CASE pc = "walk"
  BY <1>1, <1>2, <1>3, <1>5 DEF Advance, Decided, Launching, MidPass, Active
<1>6. CASE pc = "write"
  <2>1. WantFits(w, pass) /\ pass = [p EXCEPT !.want = pass.want, !.then = pass.then]
    BY <1>1, <1>6 DEF Advance
  <2>2. pass.run = p.run /\ pass.entries = p.entries /\ pass.at = p.at
    BY <1>2, <2>1 DEF Passes
  <2>3. QED
    BY <1>2, <1>3, <1>6, <2>1, <2>2 DEF WantFits, AtCard, Decided, Launching, MidPass, Active,
       Frontier
<1>7. CASE pc \in {"prepare", "launch", "queue", "trigger"}
  BY <1>1, <1>2, <1>3, <1>7 DEF Advance, AtCard, Decided, Launching, MidPass, Active, Frontier
<1>8. QED
  BY <1>1, <1>4, <1>5, <1>6, <1>7 DEF Advance

LEMMA DecidedInit == Init => \A w \in Slot : Decided(w)
BY DEF Init, Gone, Decided, Launching, MidPass

LEMMA DecidedStep ==
    ASSUME Typed, \A w \in Slot : Decided(w), Registry, Locks, [Next]_vars
    PROVE  \A w \in Slot : Decided(w)'
<1> DEFINE Goal == \A w \in Slot : Decided(w)'
           Kept(v) == walk'[v].pc = walk[v].pc /\ walk'[v].pass = walk[v].pass
<1>1. ASSUME NEW w \in Slot, Passing(w) PROVE Goal
  <2>1. PassStep(w)
    BY <1>1, PassingIsPassStep
  <2>2. Decided(w)'
    BY <2>1, AdvanceDecides
  <2>3. \A v \in Slot \ {w} : Kept(v)
    BY <2>1, MovesOnly DEF PassStep, Typed
  <2>4. playbook' = playbook
    BY <2>1 DEF PassStep
  <2>5. QED
    BY <2>2, <2>3, <2>4, DecidedKept
<1>2. ASSUME NEW w \in Slot, Deciding(w) PROVE Goal
  <2>1. CASE Return(w) \/ (Release(w) /\ ~walk[w].nudge)
    <3>1. Exit(w) /\ playbook' = playbook
      BY <2>1 DEF Return, Release
    <3>2. walk'[w].pc = "none" /\ \A v \in Slot \ {w} : Kept(v)
      BY <3>1, ExitOnly DEF Gone
    <3>3. QED
      BY <3>1, <3>2, NotInPass, DecidedKept
  <2>2. CASE Release(w) /\ walk[w].nudge
    <3>1. /\ walk' = [walk EXCEPT ![w] = [walk[w] EXCEPT !.nudge = FALSE, !.pc = "idle"]]
          /\ playbook' = playbook
      BY <2>2 DEF Release
    <3>2. walk'[w].pc = "idle" /\ \A v \in Slot \ {w} : Kept(v)
      BY <3>1 DEF Typed, Walks
    <3>3. QED
      BY <3>1, <3>2, NotInPass, DecidedKept
  <2>3. CASE PassRead(w)
    <3>1. \A v \in Slot \ {w} : Kept(v)
      BY <2>3, PassReadOnly
    <3>2. Decided(w)'
      BY <2>3, PassReadOnly DEF Decided, Launching, MidPass, Active
    <3>3. playbook' = playbook
      BY <2>3 DEF PassRead
    <3>4. QED
      BY <3>1, <3>2, <3>3, DecidedKept
  <2>4. CASE RunWrite(w)
    <3>1. PICK run \in Runs, pass \in Passes :
            /\ walk[w].pc = "write" /\ walk[w].prev = 0 /\ Unchanged(w)
            /\ mutex.by = "nobody" /\ mutex' = [by |-> "walker", old |-> playbook]
            /\ playbook' = [playbook EXCEPT !.run = run] /\ playbook'.run = run
            /\ run.status = walk[w].pass.want[1] /\ run.entry = walk[w].pass.want[2]
            /\ pass = [walk[w].pass EXCEPT !.run = run]
            /\ Moves(w, "commit", pass)
      BY <2>4, RunWriteOnly
    <3>2. walk'[w].pc = "commit" /\ walk'[w].pass = pass /\ \A v \in Slot \ {w} : Kept(v)
      BY <3>1, MovesOnly DEF Typed, Pcs
    <3>3. /\ pass.run = run /\ pass.entries = walk[w].pass.entries /\ pass.at = walk[w].pass.at
          /\ pass.want = walk[w].pass.want /\ pass.then = walk[w].pass.then
      BY <3>1 DEF Typed, Walks, Passes
    <3>4. Decided(w)'
      BY <3>1, <3>2, <3>3 DEF Decided, Launching, MidPass, Frontier
    <3>5. \A v \in Slot : walk[v].pc # "commit"
      BY <3>1 DEF Locks
    <3>6. QED
      BY <3>2, <3>4, <3>5, DecidedKept
  <2>5. CASE RunCommitted(w)
    <3> DEFINE p == walk[w].pass
    <3>1. /\ walk[w].pc = "commit" /\ Goto(w, p.then, p) /\ playbook' = playbook
          /\ p \in Passes /\ p.then \in {"idle", "launch", "release"}
      BY <2>5 DEF RunCommitted, At, Committed, Typed, Walks, Passes
    <3>2. Moves(w, p.then, IF p.then \in {"idle", "release"} THEN NoPass ELSE p)
      BY <3>1, GotoMoves
    <3>3. p.then \in Pcs /\ (IF p.then \in {"idle", "release"} THEN NoPass ELSE p) \in Passes
      BY <3>1, NoPassTyped DEF Pcs
    <3> HIDE DEF p
    <3>4. /\ walk'[w].pc = p.then /\ (p.then = "launch" => walk'[w].pass = p)
          /\ \A v \in Slot \ {w} : Kept(v)
      BY <3>2, <3>3, MovesOnly DEF Typed
    <3>5. Decided(w)'
      <4>1. CASE p.then = "launch"
        BY <3>1, <3>4, <4>1 DEF Decided, Launching, MidPass, Frontier, Active, p
      <4>2. CASE p.then # "launch"
        BY <3>1, <3>4, <4>2, NotInPass
      <4>3. QED
        BY <4>1, <4>2
    <3>6. QED
      BY <3>1, <3>4, <3>5, DecidedKept
  <2>6. CASE RunCommitFails(w)
    <3>1. walk[w].pc = "commit" /\ walk[w].prev = 0 /\ Goto(w, "idle", NoPass)
      BY <2>6 DEF RunCommitFails, At
    <3>2. Moves(w, "idle", NoPass)
      BY <3>1, NoPassTyped, GotoMoves
    <3>3. walk'[w].pc = "idle" /\ \A v \in Slot \ {w} : Kept(v)
      BY <3>2, NoPassTyped, MovesOnly DEF Typed, Pcs
    <3>4. \A v \in Slot \ {w} : walk[v].pc # "commit"
      BY <3>1, Commits DEF Exists
    <3>5. QED
      BY <3>3, <3>4, NotInPass, DecidedKept
  <2>7. QED
    BY <1>2, <2>1, <2>2, <2>3, <2>4, <2>5, <2>6 DEF Deciding
<1>3. ASSUME \A v \in Slot : Kept(v) \/ walk'[v].pc \in {"none", "idle", "release"},
             (\A v \in Slot : walk[v].pc # "commit") \/ playbook'.run = playbook.run
      PROVE  Goal
  BY <1>3, NotInPass, DecidedKept
<1>4. CASE CardOnly
  BY <1>3, <1>4 DEF CardOnly
<1>5. CASE EditStep \/ EditAnswered \/ Play \/ Stop
  <2>1. \A v \in Slot : walk[v].pc # "commit"
    BY <1>5, Commits DEF EditStep, EditAnswered, Play, Stop, Save
  <2>2. walk' = walk
    BY <1>5 DEF EditStep, EditAnswered, Play, Stop, runnerVars
  <2>3. QED
    BY <1>3, <2>1, <2>2
<1>6. CASE ControlStep
  <2>1. CASE PlayCommitted \/ PlayFails \/ StopCommitted \/ StopWriteFails
    <3>1. \A v \in Slot : walk[v].pc # "commit"
      BY <2>1, Commits DEF PlayCommitted, PlayFails, StopCommitted, StopWriteFails, Control
    <3>2. walk' = walk
      BY <2>1 DEF PlayCommitted, PlayFails, StopCommitted, StopWriteFails, runnerVars
    <3>3. QED
      BY <1>3, <3>1, <3>2
  <2>2. CASE CallEnsure
    <3>1. playbook' = playbook /\ Ensure
      BY <2>2 DEF CallEnsure
    <3>2. \A v \in Slot : Kept(v) \/ walk'[v].pc = "idle"
      BY <3>1, EnsureOnly
    <3>3. QED
      BY <1>3, <3>1, <3>2
  <2>3. CASE CancelWalker
    <3>1. playbook' = playbook
      BY <2>3 DEF CancelWalker
    <3>2. \A v \in Slot : Kept(v)
      BY <2>3, CancelOnly
    <3>3. QED
      BY <1>3, <3>1, <3>2
  <2>4. CASE Joined \/ StopWaitExpires \/ StopReturns
             \/ \E c \in Card : Kill(c) \/ KillFails(c)
    <3>1. UNCHANGED <<walk, playbook>>
      BY <2>4 DEF Joined, StopWaitExpires, StopReturns, Kill, KillFails, runnerVars
    <3>2. QED
      BY <1>3, <3>1
  <2>5. QED
    BY <1>6, <2>1, <2>2, <2>3, <2>4 DEF ControlStep
<1>7. CASE Shutdown
  <2>1. /\ walk' = [w \in Slot |-> [walk[w] EXCEPT !.cancelled = walk[w].pc # "none"]]
        /\ playbook' = playbook
    BY <1>7 DEF Shutdown
  <2>2. \A v \in Slot : Kept(v)
    BY <2>1 DEF Typed, Walks
  <2>3. QED
    BY <1>3, <2>1, <2>2
<1>8. CASE Restart
  <2>1. \A v \in Slot : walk'[v].pc \in {"none", "idle"}
    BY <1>8, RestartOnly
  <2>2. QED
    BY <2>1, NotInPass
<1>9. QED
  BY <1>1, <1>2, <1>4, <1>5, <1>6, <1>7, <1>8, StepKinds

-----------------------------------------------------------------------------
(* The registry: walkers form a chain, each waiting for the one before it.  *)

LEMMA RegistryInit == Init => Registry /\ Uncancelled
BY DEF Init, Gone, Quiet, Registry, Uncancelled, Exists, Newest

LEMMA RegistryKept ==
    ASSUME Registry, UNCHANGED <<walker, exiting>>,
           \A v \in Slot : /\ walk'[v].prev = walk[v].prev
                           /\ walk'[v].pc = "none" <=> walk[v].pc = "none"
                           /\ walk[v].prev # 0 => walk'[v].pc = walk[v].pc,
           control'.join \in {0, exiting}, control'.pc # "join" => control'.join = 0,
           walker \in Slot \cup {0}, exiting \in Slot \cup {0},
           \A v \in Slot : walk[v].prev \in Slot \cup {0}
    PROVE  Registry'
BY DEF Registry, Exists, Newest

LEMMA RegistryExit ==
    ASSUME Typed, Registry, NEW w \in Slot, Exists(w), walk[w].prev = 0, Exit(w)
    PROVE  Registry'
<1>1. /\ walk \in [Slot -> Walks] /\ walker \in Slot \cup {0} /\ exiting \in Slot \cup {0}
      /\ 0 \notin Slot /\ \A v \in Slot : walk[v].prev \in Slot \cup {0}
  BY RunAssumption DEF Typed, Walks
<1>2. /\ walk'[w].pc = "none" /\ walk'[w].prev = 0
      /\ \A v \in Slot \ {w} : /\ walk'[v].prev = IF walk[v].prev = w THEN 0 ELSE walk[v].prev
                               /\ walk'[v].pc = walk[v].pc
      /\ walker' = IF walker = w THEN 0 ELSE walker
      /\ exiting' = IF exiting = w THEN 0 ELSE exiting
      /\ control'.join = IF control.join = w THEN 0 ELSE control.join
      /\ control'.pc = control.pc
  BY ExitOnly DEF Gone, Typed, Controls
<1>3. \A v \in Slot : Exists(v)' <=> Exists(v) /\ v # w
  BY <1>2 DEF Exists
<1>4. \A v \in Slot : Exists(v) /\ v # w => walk[v].prev # 0
  BY <1>1 DEF Registry
<1>5. \A u, v \in Slot : Exists(u)' /\ Exists(v)' /\ walk'[u].prev = walk'[v].prev => u = v
  <2> SUFFICES ASSUME NEW u \in Slot, NEW v \in Slot, Exists(u)', Exists(v)',
                      walk'[u].prev = walk'[v].prev
               PROVE  u = v
    OBVIOUS
  <2>1. /\ Exists(u) /\ Exists(v) /\ u # w /\ v # w /\ walk[u].prev # 0 /\ walk[v].prev # 0
    BY <1>3, <1>4
  <2>2. walk[u].prev = walk[v].prev
    BY <1>2, <2>1
  <2>3. QED
    BY <2>1, <2>2 DEF Registry
<1>6. Newest' = IF Newest = w THEN 0 ELSE Newest
  <2>1. CASE walker = w
    <3>1. exiting = 0
      BY <1>1, <2>1 DEF Registry
    <3>2. QED
      BY <1>1, <1>2, <2>1, <3>1 DEF Newest
  <2>2. CASE walker # w /\ walker # 0
    BY <1>2, <2>2 DEF Newest
  <2>3. CASE walker = 0
    BY <1>1, <1>2, <2>3 DEF Newest
  <2>4. QED
    BY <1>1, <2>1, <2>2, <2>3
<1>7. \A v \in Slot : Exists(v)' =>
        /\ walk'[v].prev # Newest'
        /\ walk'[v].prev # 0 => walk'[v].pc = "idle" /\ walk'[walk'[v].prev].pc # "none"
  <2> SUFFICES ASSUME NEW v \in Slot, Exists(v)'
               PROVE  /\ walk'[v].prev # Newest'
                      /\ walk'[v].prev # 0 => walk'[v].pc = "idle" /\ walk'[walk'[v].prev].pc # "none"
    BY DEF Exists
  <2>1. Exists(v) /\ v # w /\ walk[v].prev # 0 /\ walk[v].prev \in Slot
        /\ walk[v].prev # Newest /\ walk[v].pc = "idle" /\ Exists(walk[v].prev)
    BY <1>1, <1>3, <1>4 DEF Registry
  <2>2. CASE walk[v].prev = w
    <3>1. walk'[v].prev = 0 /\ Newest # w
      BY <1>2, <2>1, <2>2
    <3>2. Newest # 0
      BY <1>1, <2>1 DEF Registry, Newest
    <3>3. QED
      BY <1>6, <3>1, <3>2
  <2>3. CASE walk[v].prev # w
    BY <1>1, <1>2, <1>6, <2>1, <2>3 DEF Exists
  <2>4. QED
    BY <2>2, <2>3
<1>8. walker' # 0 => Exists(walker)' /\ walk'[walker'].prev = exiting'
  <2> SUFFICES ASSUME walker # w, walker # 0
               PROVE  walk'[walker].pc # "none" /\ walk'[walker].prev = exiting'
    BY <1>2 DEF Exists
  <2>1. walker \in Slot \ {w} /\ Exists(walker) /\ walk[walker].prev = exiting /\ exiting # 0
    BY <1>1, <1>4 DEF Registry
  <2>2. QED
    BY <1>1, <1>2, <2>1 DEF Exists
<1>9. exiting' # 0 => Exists(exiting)'
  BY <1>1, <1>2 DEF Registry, Exists
<1>10. control'.join \in {0, exiting'} /\ (control'.pc # "join" => control'.join = 0)
  BY <1>1, <1>2 DEF Registry
<1>11. QED
  BY <1>5, <1>7, <1>8, <1>9, <1>10 DEF Registry, Exists

LEMMA RegistryEnsure ==
    ASSUME Typed, Registry, Ensure, control'.join = control.join,
           control'.pc # "join" => control'.join = 0
    PROVE  Registry'
<1>1. /\ walk \in [Slot -> Walks] /\ walker \in Slot \cup {0} /\ exiting \in Slot \cup {0}
      /\ 0 \notin Slot /\ \A v \in Slot : walk[v].prev \in Slot \cup {0}
  BY RunAssumption DEF Typed, Walks
<1>2. control'.join \in {0, exiting} /\ exiting' = exiting
  BY EnsureOnly DEF Registry
<1>3. CASE UNCHANGED walker /\ \A v \in Slot : walk'[v].prev = walk[v].prev
                                               /\ walk'[v].pc = walk[v].pc
  BY <1>1, <1>2, <1>3, RegistryKept
<1>4. CASE /\ walker = 0 /\ walker' \in Slot /\ walk[walker'].pc = "none"
           /\ walk'[walker'].pc = "idle" /\ walk'[walker'].prev = exiting
           /\ \A v \in Slot \ {walker'} : walk'[v] = walk[v]
  <2> DEFINE w == walker'
  <2>1. Newest = exiting /\ Newest' = w
    BY <1>1, <1>4 DEF Newest
  <2>2. \A v \in Slot : Exists(v)' <=> Exists(v) \/ v = w
    BY <1>4 DEF Exists
  <2>3. ~Exists(w) /\ walk'[w].prev = exiting /\ walk'[w].pc = "idle"
        /\ exiting # w /\ \A v \in Slot \ {w} : walk'[v] = walk[v]
    BY <1>1, <1>4 DEF Registry, Exists
  <2>4. \A v \in Slot : Exists(v) => walk[v].prev # exiting /\ walk[v].prev # w
    <3> SUFFICES ASSUME NEW v \in Slot, Exists(v)
                 PROVE  walk[v].prev # exiting /\ walk[v].prev # w
      OBVIOUS
    <3>1. walk[v].prev # exiting
      BY <2>1 DEF Registry
    <3>2. walk[v].prev # 0 => Exists(walk[v].prev)
      BY DEF Registry
    <3>3. w # 0
      BY <1>1, <1>4
    <3>4. QED
      BY <2>3, <3>1, <3>2, <3>3
  <2>5. \A u, v \in Slot : Exists(u)' /\ Exists(v)' /\ walk'[u].prev = walk'[v].prev => u = v
    BY <2>2, <2>3, <2>4 DEF Registry
  <2>6. \A v \in Slot : Exists(v)' =>
          /\ walk'[v].prev # Newest'
          /\ walk'[v].prev # 0 => walk'[v].pc = "idle" /\ walk'[walk'[v].prev].pc # "none"
    <3> SUFFICES ASSUME NEW v \in Slot, Exists(v)'
                 PROVE  /\ walk'[v].prev # w
                        /\ walk'[v].prev # 0 => /\ walk'[v].pc = "idle"
                                                /\ walk'[walk'[v].prev].pc # "none"
      BY <2>1 DEF Exists
    <3>1. CASE v = w
      BY <1>1, <1>4, <2>3, <3>1 DEF Registry, Exists
    <3>2. CASE v # w
      BY <1>1, <2>2, <2>3, <2>4, <3>2 DEF Registry, Exists
    <3>3. QED
      BY <3>1, <3>2
  <2>7. /\ walker' # 0 => Exists(walker)' /\ walk'[walker'].prev = exiting'
        /\ exiting' # 0 => Exists(exiting)'
    <3>1. exiting # 0 => walk'[exiting].pc # "none"
      BY <1>1, <2>3 DEF Registry, Exists
    <3>2. QED
      BY <1>2, <2>3, <3>1 DEF Exists
  <2>8. control'.join \in {0, exiting'} /\ (control'.pc # "join" => control'.join = 0)
    BY <1>2
  <2>9. QED
    BY <2>5, <2>6, <2>7, <2>8 DEF Registry, Exists
<1>5. QED
  BY <1>3, <1>4, EnsureOnly

LEMMA RegistryCancel ==
    ASSUME Typed, Registry, CancelWalker
    PROVE  Registry'
<1>1. /\ walk \in [Slot -> Walks] /\ walker \in Slot \cup {0} /\ exiting \in Slot \cup {0}
      /\ 0 \notin Slot /\ \A v \in Slot : walk[v].prev \in Slot \cup {0}
  BY RunAssumption DEF Typed, Walks
<1>2. control'.pc = "join" /\ control'.join = walker
  BY CancelOnly
<1>3. CASE walker = 0
  BY <1>1, <1>2, <1>3, CancelOnly, RegistryKept
<1>4. CASE walker # 0
  <2>1. /\ walker' = 0 /\ exiting' = walker
        /\ \A v \in Slot : walk'[v].prev = walk[v].prev /\ walk'[v].pc = walk[v].pc
    BY <1>4, CancelOnly
  <2>2. Newest' = Newest /\ Newest = walker
    BY <1>4, <2>1 DEF Newest
  <2>3. \A v \in Slot : walk[v].prev # 0 => (Exists(walk[v].prev)' <=> Exists(walk[v].prev))
    BY <1>1, <2>1 DEF Exists
  <2>4. Exists(walker) /\ (Exists(exiting)' <=> Exists(walker))
    BY <1>1, <1>4, <2>1 DEF Registry, Exists
  <2>5. \A v \in Slot : Exists(v)' <=> Exists(v)
    BY <2>1 DEF Exists
  <2>6. QED
    BY <1>2, <2>1, <2>2, <2>3, <2>4, <2>5 DEF Registry
<1>5. QED
  BY <1>3, <1>4

LEMMA RegistryStep ==
    ASSUME Typed, \A w \in Slot : Decided(w), Registry, [Next]_vars
    PROVE  Registry'
<1>1. /\ walk \in [Slot -> Walks] /\ walker \in Slot \cup {0} /\ exiting \in Slot \cup {0}
      /\ 0 \notin Slot /\ \A v \in Slot : walk[v].prev \in Slot \cup {0}
      /\ control \in Controls
  BY RunAssumption DEF Typed, Walks
<1>2. ASSUME UNCHANGED <<walker, exiting>>, control'.join = control.join,
             control'.pc = control.pc \/ control'.join = 0,
             \A v \in Slot : /\ walk'[v].prev = walk[v].prev
                             /\ walk'[v].pc = "none" <=> walk[v].pc = "none"
                             /\ walk[v].prev # 0 => walk'[v].pc = walk[v].pc
      PROVE  Registry'
  <2>1. control'.join \in {0, exiting} /\ (control'.pc # "join" => control'.join = 0)
    BY <1>2 DEF Registry
  <2>2. QED
    BY <1>1, <1>2, <2>1, RegistryKept
<1>3. ASSUME NEW w \in Slot, Passing(w) PROVE Registry'
  <2>1. PassStep(w)
    BY <1>3, PassingIsPassStep
  <2>2. PICK pc \in Pcs, pass \in Passes : Moves(w, pc, pass) /\ Advance(w, pc, pass)
    BY <2>1 DEF PassStep
  <2>3. pc # "none"
    BY <2>2 DEF Advance
  <2>4. walk[w].prev = 0 /\ walk[w].pc # "none" /\ UNCHANGED <<walker, exiting, control>>
    BY <2>1 DEF PassStep, InPass
  <2>5. QED
    BY <1>1, <1>2, <2>2, <2>3, <2>4, MovesOnly
<1>4. ASSUME NEW w \in Slot, Deciding(w) PROVE Registry'
  <2>1. CASE Return(w) \/ (Release(w) /\ ~walk[w].nudge)
    BY <2>1, RegistryExit DEF Return, Release, At, Exists
  <2>2. CASE Release(w) /\ walk[w].nudge
    <3>1. /\ walk' = [walk EXCEPT ![w] = [walk[w] EXCEPT !.nudge = FALSE, !.pc = "idle"]]
          /\ UNCHANGED <<walker, exiting, control>> /\ walk[w].pc = "release"
          /\ walk[w].prev = 0
      BY <2>2 DEF Release, At
    <3>2. /\ walk'[w].pc = "idle" /\ walk'[w].prev = 0
          /\ \A v \in Slot \ {w} : walk'[v] = walk[v]
      BY <1>1, <3>1 DEF Walks
    <3>3. QED
      BY <1>2, <3>1, <3>2
  <2>3. CASE PassRead(w)
    BY <1>2, <2>3, PassReadOnly DEF PassRead
  <2>4. CASE RunWrite(w)
    <3>1. PICK pass \in Passes : /\ walk[w].pc = "write" /\ walk[w].prev = 0
                                 /\ Moves(w, "commit", pass)
      BY <2>4, RunWriteOnly
    <3>2. UNCHANGED <<walker, exiting, control>>
      BY <2>4 DEF RunWrite, PassUnchanged
    <3>3. QED
      BY <1>1, <1>2, <3>1, <3>2, MovesOnly DEF Pcs
  <2>5. CASE RunCommitted(w) \/ RunCommitFails(w)
    <3>1. /\ walk[w].pc = "commit" /\ walk[w].prev = 0 /\ UNCHANGED <<walker, exiting, control>>
          /\ Goto(w, walk[w].pass.then, walk[w].pass) \/ Goto(w, "idle", NoPass)
      BY <2>5 DEF RunCommitted, RunCommitFails, At, PassUnchanged
    <3>2. walk[w].pass \in Passes /\ walk[w].pass.then \in Pcs \ {"none"}
      BY <1>1 DEF Walks, Passes, Pcs
    <3>3. \E pc \in Pcs \ {"none"}, pass \in Passes : Moves(w, pc, pass)
      BY <3>1, <3>2, GotoMoves, NoPassTyped DEF Pcs
    <3>4. QED
      BY <1>1, <1>2, <3>1, <3>3, MovesOnly
  <2>6. QED
    BY <1>4, <2>1, <2>2, <2>3, <2>4, <2>5 DEF Deciding
<1>5. CASE CardOnly \/ EditStep \/ EditAnswered
  BY <1>2, <1>5 DEF CardOnly, EditStep, EditAnswered, runnerVars
<1>6. CASE Play \/ Stop
  <2>1. UNCHANGED <<walker, exiting, walk>> /\ control'.join = control.join
        /\ control'.join = 0
    BY <1>1, <1>6 DEF Play, Stop, Control, runnerVars, Quiet, Controls, Registry
  <2>2. QED
    BY <1>2, <2>1
<1>7. CASE ControlStep
  <2>1. CASE PlayCommitted \/ PlayFails \/ StopCommitted \/ StopWriteFails \/ Joined
             \/ StopWaitExpires \/ StopReturns
    <3>1. UNCHANGED <<walker, exiting, walk>> /\ control'.join = 0
      BY <1>1, <2>1 DEF PlayCommitted, PlayFails, StopCommitted, StopWriteFails, Joined,
         StopWaitExpires, StopReturns, Control, runnerVars, Quiet, Controls, Registry
    <3>2. QED
      BY <1>1, <3>1, RegistryKept
  <2>2. CASE CallEnsure
    <3>1. Ensure /\ control'.join = control.join /\ control.join = 0
      BY <1>1, <2>2 DEF CallEnsure, Control, Controls, Registry
    <3>2. QED
      BY <3>1, RegistryEnsure
  <2>3. CASE CancelWalker
    BY <2>3, RegistryCancel
  <2>4. ASSUME NEW c \in Card, Kill(c) \/ KillFails(c) PROVE Registry'
    <3>1. UNCHANGED <<walker, exiting, walk>> /\ control'.join = control.join
          /\ control'.pc = control.pc
      BY <1>1, <2>4 DEF Kill, KillFails, runnerVars, Controls
    <3>2. QED
      BY <1>2, <3>1
  <2>5. QED
    BY <1>7, <2>1, <2>2, <2>3, <2>4 DEF ControlStep
<1>8. CASE Shutdown
  <2>1. /\ walk' = [w \in Slot |-> [walk[w] EXCEPT !.cancelled = walk[w].pc # "none"]]
        /\ UNCHANGED <<walker, exiting, control>>
    BY <1>8 DEF Shutdown
  <2>2. \A v \in Slot : walk'[v].prev = walk[v].prev /\ walk'[v].pc = walk[v].pc
    BY <1>1, <2>1 DEF Walks
  <2>3. QED
    BY <1>2, <2>1, <2>2
<1>9. CASE Restart
  <2>1. /\ exiting' = 0 /\ walker' \in Slot \cup {0} /\ control' = Quiet
        /\ \A w \in Slot : /\ walk'[w].prev = 0
                           /\ walk'[w].pc = IF w = walker' THEN "idle" ELSE "none"
    BY <1>9, RestartOnly
  <2>2. control'.join = 0
    BY <2>1 DEF Quiet
  <2>3. QED
    BY <1>1, <2>1, <2>2 DEF Registry, Exists, Newest
<1>10. QED
  BY <1>3, <1>4, <1>5, <1>6, <1>7, <1>8, <1>9, StepKinds

-----------------------------------------------------------------------------
(* Only the registered walker is not cancelled.                             *)

LEMMA UncancelledStep ==
    ASSUME Typed, \A w \in Slot : Decided(w), Registry, Uncancelled, [Next]_vars
    PROVE  Uncancelled'
<1>1. /\ walk \in [Slot -> Walks] /\ walker \in Slot \cup {0} /\ 0 \notin Slot
  BY RunAssumption DEF Typed
<1>2. ASSUME UNCHANGED <<walker, closed>>,
             \A v \in Slot : /\ walk'[v].cancelled = walk[v].cancelled
                             /\ walk'[v].pc = "none" <=> walk[v].pc = "none"
      PROVE  Uncancelled'
  BY <1>1, <1>2 DEF Uncancelled, Exists
<1>3. ASSUME NEW w \in Slot, Passing(w) PROVE Uncancelled'
  <2>1. PassStep(w)
    BY <1>3, PassingIsPassStep
  <2>2. PICK pc \in Pcs, pass \in Passes : Moves(w, pc, pass) /\ Advance(w, pc, pass)
    BY <2>1 DEF PassStep
  <2>3. pc # "none"
    BY <2>2 DEF Advance
  <2>4. walk[w].pc # "none" /\ UNCHANGED <<walker, closed>>
    BY <2>1 DEF PassStep, InPass
  <2>5. QED
    BY <1>1, <1>2, <2>2, <2>3, <2>4, MovesOnly
<1>4. ASSUME NEW w \in Slot, Deciding(w) PROVE Uncancelled'
  <2>1. CASE Return(w) \/ (Release(w) /\ ~walk[w].nudge)
    <3>1. Exit(w) /\ closed' = closed
      BY <2>1 DEF Return, Release
    <3>2. /\ walk'[w].pc = "none" /\ walker' = IF walker = w THEN 0 ELSE walker
          /\ \A v \in Slot \ {w} : walk'[v].pc = walk[v].pc
                                   /\ walk'[v].cancelled = walk[v].cancelled
      BY <3>1, ExitOnly DEF Gone
    <3>3. QED
      BY <1>1, <3>1, <3>2 DEF Uncancelled, Exists
  <2>2. CASE Release(w) /\ walk[w].nudge
    <3>1. /\ walk' = [walk EXCEPT ![w] = [walk[w] EXCEPT !.nudge = FALSE, !.pc = "idle"]]
          /\ UNCHANGED <<walker, closed>> /\ walk[w].pc = "release"
      BY <2>2 DEF Release, At
    <3>2. /\ walk'[w].pc = "idle" /\ walk'[w].cancelled = walk[w].cancelled
          /\ \A v \in Slot \ {w} : walk'[v] = walk[v]
      BY <1>1, <3>1 DEF Walks
    <3>3. QED
      BY <1>2, <3>1, <3>2
  <2>3. CASE PassRead(w)
    <3>1. /\ UNCHANGED <<walker, closed>>
          /\ walk[w].cancelled = walk'[w].cancelled
      BY <2>3, PassReadOnly DEF PassRead
    <3>2. QED
      BY <1>2, <2>3, <3>1, PassReadOnly
  <2>4. CASE RunWrite(w)
    <3>1. PICK pass \in Passes : walk[w].pc = "write" /\ Moves(w, "commit", pass)
      BY <2>4, RunWriteOnly
    <3>2. UNCHANGED <<walker, closed>>
      BY <2>4 DEF RunWrite, PassUnchanged
    <3>3. QED
      BY <1>1, <1>2, <3>1, <3>2, MovesOnly DEF Pcs
  <2>5. CASE RunCommitted(w) \/ RunCommitFails(w)
    <3>1. /\ walk[w].pc = "commit" /\ UNCHANGED <<walker, closed>>
          /\ Goto(w, walk[w].pass.then, walk[w].pass) \/ Goto(w, "idle", NoPass)
      BY <2>5 DEF RunCommitted, RunCommitFails, At, PassUnchanged
    <3>2. walk[w].pass \in Passes /\ walk[w].pass.then \in Pcs \ {"none"}
      BY <1>1 DEF Walks, Passes, Pcs
    <3>3. \E pc \in Pcs \ {"none"}, pass \in Passes : Moves(w, pc, pass)
      BY <3>1, <3>2, GotoMoves, NoPassTyped DEF Pcs
    <3>4. QED
      BY <1>1, <1>2, <3>1, <3>3, MovesOnly
  <2>6. QED
    BY <1>4, <2>1, <2>2, <2>3, <2>4, <2>5 DEF Deciding
<1>5. CASE CardOnly \/ EditStep \/ EditAnswered \/ Play \/ Stop
  BY <1>2, <1>5 DEF CardOnly, EditStep, EditAnswered, Play, Stop, runnerVars
<1>6. CASE ControlStep
  <2>1. CASE PlayCommitted \/ PlayFails \/ StopCommitted \/ StopWriteFails \/ Joined
             \/ StopWaitExpires \/ StopReturns \/ \E c \in Card : Kill(c) \/ KillFails(c)
    BY <1>2, <2>1 DEF PlayCommitted, PlayFails, StopCommitted, StopWriteFails, Joined,
       StopWaitExpires, StopReturns, Kill, KillFails, runnerVars
  <2>2. CASE CallEnsure
    <3>1. Ensure /\ closed' = closed
      BY <2>2 DEF CallEnsure
    <3>2. QED
      BY <1>1, <3>1, EnsureOnly DEF Uncancelled, Exists
  <2>3. CASE CancelWalker
    <3>1. closed' = closed
      BY <2>3 DEF CancelWalker
    <3>2. QED
      BY <1>1, <2>3, <3>1, CancelOnly DEF Uncancelled, Exists
  <2>4. QED
    BY <1>6, <2>1, <2>2, <2>3 DEF ControlStep
<1>7. CASE Shutdown
  <2>1. /\ walk' = [w \in Slot |-> [walk[w] EXCEPT !.cancelled = walk[w].pc # "none"]]
        /\ closed' = TRUE
    BY <1>7 DEF Shutdown
  <2>2. \A v \in Slot : walk'[v].pc = walk[v].pc /\ walk'[v].cancelled = (walk[v].pc # "none")
    BY <1>1, <2>1 DEF Walks
  <2>3. QED
    BY <2>1, <2>2 DEF Uncancelled, Exists
<1>8. CASE Restart
  <2>1. QED
    BY <1>1, <1>8, RestartOnly DEF Uncancelled, Exists
<1>9. QED
  BY <1>3, <1>4, <1>5, <1>6, <1>7, <1>8, StepKinds

-----------------------------------------------------------------------------
(* The playbooks' lock, and what it keeps.                                  *)

LEMMA LocksInit == Init => Locks
BY DEF Init, Unlocked, Blank, Gone, Quiet, NoRun, Locks, Active

LEMMA RunOfUnlocked == Unlocked.by = "nobody"
BY DEF Unlocked

LEMMA LocksStep ==
    ASSUME Typed, \A w \in Slot : Decided(w), Registry, Locks, [Next]_vars
    PROVE  Locks'
<1>1. /\ walk \in [Slot -> Walks] /\ control \in Controls /\ playbook \in Books
      /\ mutex \in [by : {"nobody", "play", "stop", "edit", "walker"}, old : Books]
      /\ mutex.old \in Books
  BY DEF Typed
<1>2. ASSUME UNCHANGED <<playbook, mutex>>, control'.pc = control.pc, undone' = undone,
             \A v \in Slot : walk'[v].pc = "commit" <=> walk[v].pc = "commit"
      PROVE  Locks'
  BY <1>2 DEF Locks, Active
<1>3. ASSUME NEW w \in Slot, Passing(w) PROVE Locks'
  <2>1. PassStep(w)
    BY <1>3, PassingIsPassStep
  <2>2. PICK pc \in Pcs, pass \in Passes : Moves(w, pc, pass) /\ Advance(w, pc, pass)
    BY <2>1 DEF PassStep
  <2>3. pc # "commit" /\ walk[w].pc # "commit"
    BY <2>1, <2>2 DEF Advance, PassStep, InPass
  <2>4. UNCHANGED <<playbook, mutex, control, undone>>
    BY <2>1 DEF PassStep
  <2>5. QED
    BY <1>1, <1>2, <2>2, <2>3, <2>4, MovesOnly
<1>4. ASSUME NEW w \in Slot, Deciding(w) PROVE Locks'
  <2>1. CASE Return(w) \/ (Release(w) /\ ~walk[w].nudge)
    <3>1. /\ Exit(w) /\ walk[w].pc # "commit" /\ UNCHANGED <<playbook, mutex, undone>>
      BY <2>1 DEF Return, Release, At, history
    <3>2. /\ walk'[w].pc = "none" /\ \A v \in Slot \ {w} : walk'[v].pc = walk[v].pc
          /\ control'.pc = control.pc
      BY <1>1, <3>1, ExitOnly DEF Gone, Controls
    <3>3. QED
      BY <1>2, <3>1, <3>2
  <2>2. CASE Release(w) /\ walk[w].nudge
    <3>1. /\ walk' = [walk EXCEPT ![w] = [walk[w] EXCEPT !.nudge = FALSE, !.pc = "idle"]]
          /\ UNCHANGED <<playbook, mutex, control, undone>> /\ walk[w].pc = "release"
      BY <2>2 DEF Release, At, history
    <3>2. /\ walk'[w].pc = "idle" /\ \A v \in Slot \ {w} : walk'[v] = walk[v]
      BY <1>1, <3>1 DEF Walks
    <3>3. QED
      BY <1>2, <3>1, <3>2
  <2>3. CASE PassRead(w)
    <3>1. UNCHANGED <<playbook, mutex, control, undone>>
      BY <2>3 DEF PassRead, history
    <3>2. QED
      BY <1>2, <2>3, <3>1, PassReadOnly
  <2>4. CASE RunWrite(w)
    <3>1. PICK run \in Runs, pass \in Passes :
            /\ walk[w].pc = "write" /\ walk[w].prev = 0 /\ Unchanged(w)
            /\ mutex.by = "nobody" /\ mutex' = [by |-> "walker", old |-> playbook]
            /\ playbook' = [playbook EXCEPT !.run = run] /\ playbook'.run = run
            /\ Moves(w, "commit", pass)
      BY <2>4, RunWriteOnly
    <3>2. walk'[w].pc = "commit" /\ \A v \in Slot \ {w} : walk'[v] = walk[v]
      BY <1>1, <3>1, MovesOnly DEF Pcs
    <3>3. UNCHANGED <<control, undone>>
      BY <2>4 DEF RunWrite, PassUnchanged, history
    <3>4. Active(playbook.run)
      BY <3>1 DEF Unchanged
    <3>5. control.pc \notin {"playCommit", "stopCommit", "cancel", "join", "kill"}
      BY <3>1, <3>4 DEF Locks
    <3>6. mutex'.by = "walker" /\ mutex'.old = playbook
      BY <3>1
    <3>7. [mutex'.old EXCEPT !.run = playbook'.run] = playbook'
      BY <3>1, <3>6
    <3>8. Active(mutex'.old.run)
      BY <3>4, <3>6
    <3>9. QED
      BY <3>2, <3>3, <3>5, <3>6, <3>7, <3>8 DEF Locks, Active
  <2>5. CASE RunCommitted(w) \/ RunCommitFails(w)
    <3>1. /\ walk[w].pc = "commit" /\ walk[w].prev = 0 /\ UNCHANGED <<control, undone>>
          /\ Goto(w, walk[w].pass.then, walk[w].pass) \/ Goto(w, "idle", NoPass)
          /\ mutex' = Unlocked
      BY <2>5 DEF RunCommitted, RunCommitFails, At, PassUnchanged, history, Committed, RolledBack
    <3>2. walk[w].pass \in Passes /\ walk[w].pass.then \in Pcs \ {"commit"}
      BY <1>1 DEF Walks, Passes, Pcs
    <3>3. \E pc \in Pcs \ {"commit"}, pass \in Passes : Moves(w, pc, pass)
      BY <3>1, <3>2, GotoMoves, NoPassTyped DEF Pcs
    <3>4. walk'[w].pc # "commit" /\ \A v \in Slot \ {w} : walk'[v] = walk[v]
      BY <1>1, <3>3, MovesOnly
    <3>5. \A v \in Slot : walk'[v].pc # "commit"
      BY <3>1, <3>4, Commits DEF Exists
    <3>6. mutex.by = "walker"
      BY <3>1 DEF Locks
    <3>7. control.pc \notin {"playCommit", "stopCommit", "cancel", "join", "kill"}
      BY <3>6 DEF Locks
    <3>8. QED
      BY <3>1, <3>5, <3>7, RunOfUnlocked DEF Locks
  <2>6. QED
    BY <1>4, <2>1, <2>2, <2>3, <2>4, <2>5 DEF Deciding
<1>5. CASE CardOnly
  BY <1>2, <1>5 DEF CardOnly
<1>6. CASE EditStep
  <2>1. /\ mutex'.by = "edit" /\ mutex'.old = playbook /\ mutex.by = "nobody"
        /\ playbook.ids \subseteq playbook'.ids
        /\ Active(playbook.run) \/ Active(playbook'.run) => playbook'.run = playbook.run
        /\ UNCHANGED <<walk, control, undone>>
    BY <1>6 DEF EditStep
  <2>2. \A v \in Slot : walk[v].pc # "commit"
    BY <2>1 DEF Locks
  <2>3. control.pc \in {"stopCommit", "cancel", "join", "kill"} => ~Active(playbook'.run)
    BY <2>1 DEF Locks, Active
  <2>4. QED
    BY <2>1, <2>2, <2>3 DEF Locks, Active
<1>7. CASE EditAnswered
  <2>1. /\ mutex.by = "edit" /\ mutex' = Unlocked /\ UNCHANGED <<walk, control>>
        /\ playbook' = playbook \/ playbook' = mutex.old
    BY <1>7 DEF EditAnswered, Committed, RolledBack, runnerVars
  <2>2. \A v \in Slot : walk[v].pc # "commit"
    BY <2>1 DEF Locks
  <2>3. control.pc \in {"cancel", "join", "kill"} => ~Active(playbook'.run)
    BY <2>1 DEF Locks
  <2>4. control.pc \notin {"playCommit", "stopCommit"}
    BY <2>1 DEF Locks
  <2>5. QED
    BY <2>1, <2>2, <2>3, <2>4, RunOfUnlocked DEF Locks, Active
<1>8. CASE Play
  <2>1. PICK run \in Runs :
          /\ mutex.by = "nobody" /\ mutex' = [by |-> "play", old |-> playbook]
          /\ playbook' = [playbook EXCEPT !.run = run] /\ playbook'.run = run
    BY <1>8, PlayOnly
  <2>2. /\ control'.pc = "playCommit" /\ undone' = FALSE /\ walk' = walk
        /\ ~Active(playbook.run)
    BY <1>1, <1>8 DEF Play, Control, runnerVars, Controls
  <2>3. \A v \in Slot : walk[v].pc # "commit"
    BY <2>1 DEF Locks
  <2>4. mutex'.by = "play" /\ mutex'.old = playbook
        /\ [mutex'.old EXCEPT !.run = playbook'.run] = playbook'
    BY <2>1
  <2>5. QED
    BY <2>2, <2>3, <2>4 DEF Locks, Active
<1>9. CASE Stop
  <2>1. PICK run \in Runs :
          /\ mutex.by = "nobody" /\ mutex' = [by |-> "stop", old |-> playbook]
          /\ playbook' = [playbook EXCEPT !.run = run] /\ playbook'.run = run
          /\ run.status = "stopped" /\ control'.pc = "stopCommit"
    BY <1>9, StopOnly
  <2>2. /\ undone' = undone /\ walk' = walk /\ Active(playbook.run)
    BY <1>9 DEF Stop, runnerVars, history
  <2>3. \A v \in Slot : walk[v].pc # "commit"
    BY <2>1 DEF Locks
  <2>4. mutex'.by = "stop" /\ mutex'.old = playbook
        /\ [mutex'.old EXCEPT !.run = playbook'.run] = playbook'
    BY <2>1
  <2>5. QED
    BY <2>1, <2>2, <2>3, <2>4 DEF Locks, Active
<1>10. CASE ControlStep
  <2>1. CASE PlayCommitted \/ StopCommitted
    <3>1. /\ control.pc \in {"playCommit", "stopCommit"} /\ mutex' = Unlocked
          /\ UNCHANGED <<walk, playbook>>
          /\ control'.pc = IF control.pc = "playCommit" THEN "ensure" ELSE "cancel"
      BY <1>1, <2>1 DEF PlayCommitted, StopCommitted, Control, Committed, runnerVars, Controls
    <3>2. \A v \in Slot : walk[v].pc # "commit"
      BY <3>1, Commits
    <3>3. QED
      BY <3>1, <3>2, RunOfUnlocked DEF Locks, Active
  <2>2. CASE PlayFails \/ StopWriteFails
    <3>1. /\ control.pc \in {"playCommit", "stopCommit"} /\ mutex' = Unlocked
          /\ walk' = walk /\ control'.pc \in {"idle", "ensure"}
      BY <1>1, <2>2 DEF PlayFails, StopWriteFails, Control, RolledBack, runnerVars, Controls, Quiet
    <3>2. \A v \in Slot : walk[v].pc # "commit"
      BY <3>1, Commits
    <3>3. QED
      BY <3>1, <3>2, RunOfUnlocked DEF Locks
  <2>3. CASE CallEnsure
    <3>1. /\ Ensure /\ control.pc = "ensure" /\ control'.pc = "idle"
          /\ UNCHANGED <<playbook, mutex, undone>>
      BY <1>1, <2>3 DEF CallEnsure, Control, Controls, history
    <3>2. \A v \in Slot : walk'[v].pc = "commit" <=> walk[v].pc = "commit"
      BY <3>1, EnsureOnly
    <3>3. QED
      BY <3>1, <3>2 DEF Locks, Active
  <2>4. CASE CancelWalker
    <3>1. /\ control.pc = "cancel" /\ control'.pc = "join"
          /\ UNCHANGED <<playbook, mutex, undone>>
      BY <2>4, CancelOnly DEF CancelWalker, history
    <3>2. \A v \in Slot : walk'[v].pc = walk[v].pc
      BY <2>4, CancelOnly
    <3>3. QED
      BY <3>1, <3>2 DEF Locks, Active
  <2>5. CASE Joined \/ StopWaitExpires \/ StopReturns
    <3>1. /\ control.pc \in {"join", "kill"} /\ control'.pc \in {"kill", "idle"}
          /\ UNCHANGED <<playbook, mutex, undone, walk>>
      BY <1>1, <2>5 DEF Joined, StopWaitExpires, StopReturns, Control, Controls, Quiet,
         runnerVars, history
    <3>2. QED
      BY <3>1 DEF Locks, Active
  <2>6. ASSUME NEW c \in Card, Kill(c) \/ KillFails(c) PROVE Locks'
    <3>1. UNCHANGED <<playbook, mutex, undone, walk>> /\ control'.pc = control.pc
      BY <1>1, <2>6 DEF Kill, KillFails, runnerVars, history, Controls
    <3>2. QED
      BY <1>2, <3>1
  <2>7. QED
    BY <1>10, <2>1, <2>2, <2>3, <2>4, <2>5, <2>6 DEF ControlStep
<1>11. CASE Shutdown
  <2>1. /\ walk' = [w \in Slot |-> [walk[w] EXCEPT !.cancelled = walk[w].pc # "none"]]
        /\ UNCHANGED <<playbook, mutex, control, undone>>
    BY <1>11 DEF Shutdown, history
  <2>2. \A v \in Slot : walk'[v].pc = walk[v].pc
    BY <1>1, <2>1 DEF Walks
  <2>3. QED
    BY <1>2, <2>1, <2>2
<1>12. CASE Restart
  <2>1. /\ \A v \in Slot : walk'[v].pc # "commit"
        /\ mutex' = Unlocked /\ control' = Quiet
    BY <1>12, RestartOnly
  <2>2. control'.pc = "idle"
    BY <2>1 DEF Quiet
  <2>3. QED
    BY <2>1, <2>2, RunOfUnlocked DEF Locks
<1>13. QED
  BY <1>3, <1>4, <1>5, <1>6, <1>7, <1>8, <1>9, <1>10, <1>11, <1>12, StepKinds

-----------------------------------------------------------------------------
(* The walker's steps in the terms of the remaining invariants.             *)

LEMMA PassingOnly ==
    ASSUME Typed, NEW w \in Slot, Decided(w), Passing(w)
    PROVE  /\ walk[w].prev = 0 /\ walk[w].pc \in InPass
           /\ UNCHANGED <<playbook, mutex, walker, exiting, control, closed, undone, slipped,
                          stopOk, crashed>>
           /\ walk'[w].prev = 0 /\ walk'[w].cancelled = walk[w].cancelled
           /\ walk'[w].pc \notin {"none", "release", "commit"}
           /\ walk'[w].pc # "idle" => /\ walk'[w].pass.run = walk[w].pass.run
                                      /\ walk'[w].pass.entries = walk[w].pass.entries
           /\ \A v \in Slot \ {w} : walk'[v] = walk[v]
           /\ PastHold(w)' =>
                /\ walk[w].pc \notin {"queue", "trigger"} \/ walk'[w].pc = "queue"
                /\ \/ PastHold(w)
                   \/ \A c \in Card \cap ToSet(walk[w].pass.entries) : ~Live(c)
<1> DEFINE p == walk[w].pass
<1>1. PassStep(w)
  BY PassingIsPassStep
<1>2. PICK pc \in Pcs, pass \in Passes : Moves(w, pc, pass) /\ Advance(w, pc, pass)
  BY <1>1 DEF PassStep
<1>3. /\ walk'[w].pc = pc /\ walk'[w].pass = pass /\ walk'[w].prev = walk[w].prev
      /\ walk'[w].cancelled = walk[w].cancelled
      /\ \A v \in Slot \ {w} : walk'[v] = walk[v]
  BY <1>2, MovesOnly DEF Typed
<1>4. pc \notin {"none", "release", "commit"}
  BY <1>2 DEF Advance
<1>5. pc # "idle" => pass.run = p.run /\ pass.entries = p.entries
  <2>1. p \in Passes
    BY DEF Typed, Walks
  <2>2. CASE pc = "write"
    <3>1. pass = [p EXCEPT !.want = pass.want, !.then = pass.then]
      BY <1>2, <2>2 DEF Advance
    <3>2. QED
      BY <2>1, <3>1 DEF Passes
  <2>3. QED
    BY <1>2, <2>2 DEF Advance
<1>6. PastHold(w)' =>
        /\ walk[w].pc \notin {"queue", "trigger"} \/ walk'[w].pc = "queue"
        /\ PastHold(w) \/ \A c \in Card \cap ToSet(p.entries) : ~Live(c)
  <2>1. PastHold(w)' <=> \/ pc \in {"walk", "prepare", "launch", "queue"}
                         \/ pc \in {"write", "commit"} /\ pass.then = "launch"
    BY <1>3, <1>4 DEF PastHold, Launching
  <2>2. QED
    BY <1>2, <1>4, <2>1 DEF Advance, WantFits, PastHold, Launching
<1>7. QED
  BY <1>1, <1>3, <1>4, <1>5, <1>6 DEF PassStep

\* The released walker was nudged: it stays.
LEMMA ReleaseOnly ==
    ASSUME Typed, NEW w \in Slot, Release(w), walk[w].nudge
    PROVE  /\ walk[w].pc = "release" /\ walk[w].prev = 0 /\ walk'[w].pc = "idle"
           /\ \A v \in Slot \ {w} : walk'[v] = walk[v]
           /\ UNCHANGED <<card, playbook, mutex, walker, exiting, control, closed, undone,
                          slipped, stopOk,
                          crashed>>
<1>1. walk' = [walk EXCEPT ![w] = [walk[w] EXCEPT !.nudge = FALSE, !.pc = "idle"]]
  BY DEF Release
<1>2. /\ walk'[w] = [walk[w] EXCEPT !.nudge = FALSE, !.pc = "idle"]
      /\ \A v \in Slot \ {w} : walk'[v] = walk[v]
  BY <1>1 DEF Typed
<1>3. QED
  BY <1>2 DEF Release, At, Typed, Walks, history

\* The walker's write is answered.
LEMMA AnsweredOnly ==
    ASSUME Typed, NEW w \in Slot, RunCommitted(w) \/ RunCommitFails(w)
    PROVE  /\ walk[w].pc = "commit" /\ walk[w].prev = 0 /\ mutex' = Unlocked
           /\ UNCHANGED <<card, walker, exiting, control, closed, undone, slipped, stopOk,
                          crashed>>
           /\ walk'[w].cancelled = walk[w].cancelled
           /\ \A v \in Slot \ {w} : walk'[v] = walk[v]
           /\ \/ /\ playbook' = playbook /\ walk'[w].pc = walk[w].pass.then
                 /\ walk'[w].pc \in {"idle", "launch", "release"}
                 /\ walk'[w].pc = "launch" => walk'[w].pass = walk[w].pass
              \/ playbook' = mutex.old /\ walk'[w].pc = "idle"
<1> DEFINE p == walk[w].pass
<1>1. /\ walk[w].pc = "commit" /\ walk[w].prev = 0 /\ mutex' = Unlocked
      /\ UNCHANGED <<card, walker, exiting, control, closed, undone, slipped, stopOk, crashed>>
  BY DEF RunCommitted, RunCommitFails, At, Committed, RolledBack, PassUnchanged, history
<1>2. walk \in [Slot -> Walks] /\ p \in Passes /\ p.then \in {"idle", "launch", "release"}
  BY DEF Typed, Walks, Passes
<1>3. CASE RunCommitted(w)
  <2>1. Goto(w, p.then, p) /\ playbook' = playbook
    BY <1>3 DEF RunCommitted, Committed
  <2> DEFINE q == IF p.then \in {"idle", "release"} THEN NoPass ELSE p
  <2>2. Moves(w, p.then, q) /\ q \in Passes /\ p.then \in Pcs
    BY <1>2, <2>1, GotoMoves, NoPassTyped DEF Pcs
  <2>3. p.then = "launch" => q = p
    OBVIOUS
  <2> HIDE DEF q
  <2>4. /\ walk'[w].pc = p.then /\ walk'[w].pass = q /\ walk'[w].cancelled = walk[w].cancelled
        /\ \A v \in Slot \ {w} : walk'[v] = walk[v]
    BY <1>2, <2>2, MovesOnly
  <2>5. QED
    BY <1>1, <1>2, <2>1, <2>3, <2>4
<1>4. CASE RunCommitFails(w)
  <2>1. Goto(w, "idle", NoPass) /\ playbook' = mutex.old
    BY <1>4 DEF RunCommitFails, RolledBack
  <2>2. Moves(w, "idle", NoPass)
    BY <2>1, GotoMoves, NoPassTyped
  <2>3. /\ walk'[w].pc = "idle" /\ walk'[w].cancelled = walk[w].cancelled
        /\ \A v \in Slot \ {w} : walk'[v] = walk[v]
    BY <1>2, <2>2, MovesOnly, NoPassTyped DEF Pcs
  <2>4. QED
    BY <1>1, <2>1, <2>3
<1>5. QED
  BY <1>3, <1>4

-----------------------------------------------------------------------------
(* An active run has a walker, which does not let go of it.                 *)

LEMMA WalkedInit == Init => Walked /\ Pending
BY DEF Init, Blank, NoRun, Unlocked, Walked, Pending, Active

LEMMA WalkedStep ==
    ASSUME Typed, \A w \in Slot : Decided(w), Registry, Uncancelled, Locks, Walked, [Next]_vars
    PROVE  Walked'
<1> DEFINE Calling(pc) == pc \in {"playCommit", "stopCommit", "ensure"}
           Owed == Active(playbook.run) \/ mutex.by = "walker"
<1>1. /\ walk \in [Slot -> Walks] /\ walker \in Slot \cup {0} /\ 0 \notin Slot
      /\ control \in Controls
  BY RunAssumption DEF Typed
<1>2. ASSUME closed' => closed, closed => closed', walker' = walker, Owed' => Owed,
             Calling(control.pc) => Calling(control'.pc),
             walker # 0 /\ walk'[walker].pc = "release" =>
                walk[walker].pc = "release" /\ walk'[walker].nudge = walk[walker].nudge
      PROVE  Walked'
  BY <1>1, <1>2 DEF Walked, Active
<1>3. ASSUME ~Owed' \/ Calling(control'.pc) PROVE Walked'
  BY <1>3 DEF Walked, Active
<1>4. ASSUME NEW w \in Slot, Passing(w) PROVE Walked'
  <2>1. /\ walk'[w].pc # "release" /\ \A v \in Slot \ {w} : walk'[v] = walk[v]
        /\ UNCHANGED <<playbook, mutex, walker, control, closed>>
    BY <1>4, PassingOnly
  <2>2. QED
    BY <1>1, <1>2, <2>1 DEF Active
<1>5. ASSUME NEW w \in Slot, Deciding(w) PROVE Walked'
  <2>1. CASE Return(w) \/ (Release(w) /\ ~walk[w].nudge)
    <3>1. /\ Exit(w) /\ UNCHANGED <<playbook, mutex, closed>>
          /\ walk[w].cancelled \/ (walk[w].pc = "release" /\ ~walk[w].nudge)
      BY <2>1 DEF Return, Release, At
    <3>2. /\ walker' = IF walker = w THEN 0 ELSE walker
          /\ control'.pc = control.pc
          /\ \A v \in Slot \ {w} : walk'[v].pc = walk[v].pc /\ walk'[v].nudge = walk[v].nudge
      BY <1>1, <3>1, ExitOnly DEF Controls
    <3>3. CASE walker = w
      <4>1. closed \/ ~Owed \/ Calling(control.pc)
        BY <1>1, <3>1, <3>3 DEF Walked, Uncancelled, Active
      <4>2. QED
        BY <3>1, <3>2, <4>1 DEF Walked, Active
    <3>4. CASE walker # w
      BY <1>1, <1>2, <3>1, <3>2, <3>4 DEF Active
    <3>5. QED
      BY <3>3, <3>4
  <2>2. CASE Release(w) /\ walk[w].nudge
    BY <1>1, <1>2, <2>2, ReleaseOnly DEF Active
  <2>3. CASE PassRead(w)
    <3>1. /\ UNCHANGED <<playbook, mutex, walker, control, closed>>
          /\ \A v \in Slot \ {w} : walk'[v] = walk[v]
          /\ walk[w].pc = "idle" /\ walk[w].prev = 0
          /\ walk'[w].pc = "release" => ~Active(playbook.run)
      BY <2>3, PassReadOnly DEF PassRead
    <3>2. mutex.by # "walker"
      BY <3>1, OneInPass DEF Locks, Exists, MidPass
    <3>3. CASE walk'[w].pc = "release"
      BY <1>3, <3>1, <3>2, <3>3 DEF Active
    <3>4. CASE walk'[w].pc # "release"
      BY <1>1, <1>2, <3>1, <3>4 DEF Active
    <3>5. QED
      BY <3>3, <3>4
  <2>4. CASE RunWrite(w)
    <3>1. PICK pass \in Passes : Unchanged(w) /\ Moves(w, "commit", pass)
      BY <2>4, RunWriteOnly
    <3>2. Owed /\ UNCHANGED <<walker, control, closed>>
      BY <2>4, <3>1 DEF RunWrite, PassUnchanged, Unchanged
    <3>3. walk'[w].pc = "commit" /\ \A v \in Slot \ {w} : walk'[v] = walk[v]
      BY <1>1, <3>1, MovesOnly DEF Pcs
    <3>4. QED
      BY <1>1, <1>2, <3>2, <3>3 DEF Active
  <2>5. CASE RunCommitted(w) \/ RunCommitFails(w)
    <3>1. /\ walk[w].pc = "commit" /\ mutex'.by = "nobody"
          /\ UNCHANGED <<walker, control, closed>>
          /\ \A v \in Slot \ {w} : walk'[v] = walk[v]
          /\ \/ playbook' = playbook /\ walk'[w].pc = walk[w].pass.then
             \/ walk'[w].pc = "idle"
      BY <2>5, AnsweredOnly, RunOfUnlocked
    <3>2. Owed
      BY <3>1 DEF Locks
    <3>3. CASE walk'[w].pc = "release"
      <4>1. playbook' = playbook /\ ~Active(playbook.run)
        BY <3>1, <3>3 DEF Decided, Active
      <4>2. QED
        BY <1>3, <3>1, <4>1 DEF Active
    <3>4. CASE walk'[w].pc # "release"
      BY <1>1, <1>2, <3>1, <3>2, <3>4 DEF Active
    <3>5. QED
      BY <3>3, <3>4
  <2>6. QED
    BY <1>5, <2>1, <2>2, <2>3, <2>4, <2>5 DEF Deciding
<1>6. CASE CardOnly
  BY <1>2, <1>6 DEF CardOnly, Active
<1>7. CASE EditStep
  BY <1>2, <1>7 DEF EditStep, Active
<1>8. CASE EditAnswered
  <2>1. /\ mutex.by = "edit" /\ mutex'.by = "nobody" /\ playbook' \in {playbook, mutex.old}
        /\ UNCHANGED <<walker, walk, control, closed>>
    BY <1>8, RunOfUnlocked DEF EditAnswered, Committed, RolledBack, runnerVars
  <2>2. Active(playbook'.run) => playbook'.run = playbook.run
    BY <2>1 DEF Locks
  <2>3. QED
    BY <1>2, <2>1, <2>2 DEF Active
<1>9. CASE Play \/ Stop
  <2>1. Calling(control'.pc)
    BY <1>1, <1>9, StopOnly DEF Play, Control, Controls
  <2>2. QED
    BY <1>3, <2>1
<1>10. CASE ControlStep
  <2>1. CASE PlayCommitted \/ StopWriteFails
    <3>1. control'.pc = "ensure"
      BY <1>1, <2>1 DEF PlayCommitted, StopWriteFails, Control, Controls, Quiet
    <3>2. QED
      BY <1>3, <3>1
  <2>2. CASE PlayFails \/ StopCommitted
    <3>1. ~Active(playbook'.run) /\ mutex'.by = "nobody"
      BY <2>2, RunOfUnlocked DEF PlayFails, StopCommitted, Control, Committed, RolledBack, Locks,
         Active
    <3>2. QED
      BY <1>3, <3>1 DEF Active
  <2>3. CASE CallEnsure
    <3>1. Ensure /\ closed' = closed
      BY <2>3 DEF CallEnsure
    <3>2. QED
      BY <1>1, <3>1, EnsureOnly DEF Walked
  <2>4. CASE CancelWalker \/ Joined \/ StopWaitExpires \/ StopReturns
             \/ \E c \in Card : Kill(c) \/ KillFails(c)
    <3>1. /\ control.pc \in {"cancel", "join", "kill"} /\ UNCHANGED <<playbook, mutex>>
      BY <2>4 DEF CancelWalker, Joined, StopWaitExpires, StopReturns, Kill, KillFails, Control
    <3>2. ~Owed
      BY <3>1 DEF Locks
    <3>3. QED
      BY <1>3, <3>1, <3>2 DEF Active
  <2>5. QED
    BY <1>10, <2>1, <2>2, <2>3, <2>4 DEF ControlStep
<1>11. CASE Shutdown
  BY <1>11 DEF Shutdown, Walked
<1>12. CASE Restart
  <2>1. /\ mutex'.by = "nobody" /\ playbook' = playbook /\ walker' \in Slot \cup {0}
        /\ walker' # 0 <=> Active(playbook.run)
        /\ walker' # 0 => walk'[walker'].pc = "idle"
    BY <1>12, RestartOnly, RunOfUnlocked
  <2>2. QED
    BY <2>1 DEF Walked, Active
<1>13. QED
  BY <1>4, <1>5, <1>6, <1>7, <1>8, <1>9, <1>10, <1>11, <1>12, StepKinds

-----------------------------------------------------------------------------
(* A card that is queued and has no container has a trigger under way.      *)

LEMMA PendingStep ==
    ASSUME Typed, \A w \in Slot : Decided(w), Pending, [Next]_vars
    PROVE  Pending'
<1>1. walk \in [Slot -> Walks] /\ walker \in Slot \cup {0} /\ 0 \notin Slot /\ crashed \in BOOLEAN
  BY RunAssumption DEF Typed
<1>2. ASSUME \A c \in Card : card'[c].box = "pending" => card[c].box = "pending",
             \A v \in Slot : walk[v].pc = "trigger" =>
                walk'[v].pc = "trigger" /\ walk'[v].pass = walk[v].pass,
             crashed' = crashed
      PROVE  Pending'
  <2> SUFFICES ASSUME ~crashed, NEW c \in Card, card[c].box = "pending"
               PROVE  \E v \in Slot : walk'[v].pc = "trigger" /\ Frontier(v)' = c
    BY <1>2 DEF Pending
  <2>1. PICK v \in Slot : walk[v].pc = "trigger" /\ Frontier(v) = c
    BY DEF Pending
  <2>2. QED
    BY <1>2, <2>1 DEF Frontier
<1>3. ASSUME NEW w \in Slot, Passing(w) PROVE Pending'
  <2> SUFFICES ASSUME ~crashed', NEW c \in Card, card'[c].box = "pending"
               PROVE  \E v \in Slot : walk'[v].pc = "trigger" /\ Frontier(v)' = c
    BY DEF Pending
  <2>1. crashed' = crashed /\ \A v \in Slot \ {w} : walk'[v] = walk[v]
    BY <1>3, PassingOnly
  <2>2. \/ card[c].box = "pending" /\ (walk[w].pc = "trigger" => c # Frontier(w))
        \/ Queue(w) /\ c = Frontier(w)
    BY <1>3, PassLaunches
  <2>3. CASE card[c].box = "pending" /\ (walk[w].pc = "trigger" => c # Frontier(w))
    <3>1. PICK v \in Slot : walk[v].pc = "trigger" /\ Frontier(v) = c
      BY <2>1, <2>3 DEF Pending
    <3>2. v # w
      BY <2>3, <3>1
    <3>3. QED
      BY <2>1, <3>1, <3>2 DEF Frontier
  <2>4. CASE Queue(w) /\ c = Frontier(w)
    <3>1. Goto(w, "trigger", walk[w].pass) /\ walk[w].pass \in Passes
      BY <1>1, <2>4 DEF Queue, Walks
    <3>2. Moves(w, "trigger", walk[w].pass)
      BY <3>1, GotoMoves
    <3>3. walk'[w].pc = "trigger" /\ walk'[w].pass = walk[w].pass
      BY <1>1, <3>1, <3>2, MovesOnly DEF Pcs
    <3>4. QED
      BY <2>4, <3>3 DEF Frontier
  <2>5. QED
    BY <2>2, <2>3, <2>4
<1>4. ASSUME NEW w \in Slot, Deciding(w) PROVE Pending'
  <2>1. CASE Return(w) \/ (Release(w) /\ ~walk[w].nudge)
    <3>1. Exit(w) /\ UNCHANGED <<card, crashed>> /\ walk[w].pc # "trigger"
      BY <2>1 DEF Return, Release, At, history
    <3>2. \A v \in Slot \ {w} : walk'[v].pc = walk[v].pc /\ walk'[v].pass = walk[v].pass
      BY <3>1, ExitOnly
    <3>3. QED
      BY <1>2, <3>1, <3>2
  <2>2. CASE Release(w) /\ walk[w].nudge
    BY <1>2, <2>2, ReleaseOnly
  <2>3. CASE PassRead(w)
    BY <1>2, <2>3, PassReadOnly DEF PassRead, history
  <2>4. CASE RunWrite(w)
    <3>1. PICK pass \in Passes : walk[w].pc = "write" /\ Moves(w, "commit", pass)
      BY <2>4, RunWriteOnly
    <3>2. UNCHANGED <<card, crashed>>
      BY <2>4 DEF RunWrite, PassUnchanged, history
    <3>3. QED
      BY <1>1, <1>2, <3>1, <3>2, MovesOnly DEF Pcs
  <2>5. CASE RunCommitted(w) \/ RunCommitFails(w)
    BY <1>2, <2>5, AnsweredOnly
  <2>6. QED
    BY <1>4, <2>1, <2>2, <2>3, <2>4, <2>5 DEF Deciding
<1>5. CASE CardOnly
  BY <1>2, <1>5 DEF CardOnly, NoNewLaunch
<1>6. CASE EditStep \/ EditAnswered \/ Play \/ Stop
  BY <1>2, <1>6 DEF EditStep, EditAnswered, Play, Stop, runnerVars, history
<1>7. CASE ControlStep
  <2>1. CASE PlayCommitted \/ PlayFails \/ StopCommitted \/ StopWriteFails \/ Joined
             \/ StopWaitExpires \/ StopReturns
    BY <1>2, <2>1 DEF PlayCommitted, PlayFails, StopCommitted, StopWriteFails, Joined,
       StopWaitExpires, StopReturns, runnerVars, history
  <2>2. CASE CallEnsure
    <3>1. Ensure /\ UNCHANGED <<card, crashed>>
      BY <2>2 DEF CallEnsure, history
    <3>2. QED
      BY <1>1, <1>2, <3>1, EnsureOnly
  <2>3. CASE CancelWalker
    <3>1. UNCHANGED <<card, crashed>>
      BY <2>3 DEF CancelWalker, history
    <3>2. QED
      BY <1>1, <1>2, <2>3, <3>1, CancelOnly
  <2>4. ASSUME NEW c \in Card, Kill(c) \/ KillFails(c) PROVE Pending'
    <3>1. NoNewLaunch /\ UNCHANGED <<walk, crashed>>
      BY <2>4, KillsOnly DEF Kill, KillFails, runnerVars, history
    <3>2. QED
      BY <1>2, <3>1 DEF NoNewLaunch
  <2>5. QED
    BY <1>7, <2>1, <2>2, <2>3, <2>4 DEF ControlStep
<1>8. CASE Shutdown
  <2>1. /\ walk' = [w \in Slot |-> [walk[w] EXCEPT !.cancelled = walk[w].pc # "none"]]
        /\ UNCHANGED <<card, crashed>>
    BY <1>8 DEF Shutdown, history
  <2>2. \A v \in Slot : walk'[v].pc = walk[v].pc /\ walk'[v].pass = walk[v].pass
    BY <1>1, <2>1 DEF Walks
  <2>3. QED
    BY <1>2, <2>1, <2>2
<1>9. CASE Restart
  <2>1. card' = card /\ crashed' = (crashed \/ \E w \in Slot : walk[w].pc = "trigger")
    BY <1>9, RestartOnly
  <2>2. QED
    BY <2>1 DEF Pending
<1>10. QED
  BY <1>3, <1>4, <1>5, <1>6, <1>7, <1>8, <1>9, StepKinds

-----------------------------------------------------------------------------
(* What the entries, the runs and the launched workers refer to.            *)

\* The steps of a walker that read or write the store, or end it.
LEMMA DecidingOnly ==
    ASSUME Typed, NEW w \in Slot, Deciding(w)
    PROVE  /\ Exists(w) /\ walk[w].prev = 0
           /\ UNCHANGED <<card, closed, undone, slipped, stopOk, crashed>>
           /\ control'.pc = control.pc /\ control'.targets = control.targets
           /\ control'.excused = control.excused
           /\ walker' \in {walker, 0} /\ exiting' \in {exiting, 0}
           /\ control.join = exiting => control'.join = exiting'
           /\ \A v \in Slot \ {w} : /\ walk'[v].pc = walk[v].pc /\ walk'[v].pass = walk[v].pass
                                    /\ walk'[v].cancelled = walk[v].cancelled
           /\ walk'[w].pc # "none" => walk'[w].cancelled = walk[w].cancelled
           /\ \/ ~MidPass(w)' /\ UNCHANGED <<playbook, mutex>>
              \/ /\ Active(playbook.run) /\ walk'[w].pc = "hold"
                 /\ walk'[w].pass.run = playbook.run /\ walk'[w].pass.entries = playbook.entries
                 /\ UNCHANGED <<playbook, mutex>>
              \/ /\ walk[w].pc = "write" /\ Unchanged(w) /\ mutex.by = "nobody"
                 /\ mutex' = [by |-> "walker", old |-> playbook]
                 /\ playbook' = [playbook EXCEPT !.run = playbook'.run]
                 /\ playbook'.run.entry = walk[w].pass.want[2] /\ walk'[w].pc = "commit"
                 /\ walk'[w].pass.run = playbook'.run
                 /\ walk'[w].pass.entries = walk[w].pass.entries
                 /\ walk'[w].pass.then = walk[w].pass.then
              \/ /\ walk[w].pc = "commit" /\ mutex' = Unlocked
                 /\ \/ playbook' \in {playbook, mutex.old} /\ ~MidPass(w)'
                    \/ /\ playbook' = playbook /\ walk'[w].pc = "launch"
                       /\ walk'[w].pass = walk[w].pass /\ walk[w].pass.then = "launch"
<1>1. walk \in [Slot -> Walks] /\ control \in Controls /\ playbook \in Books
  BY DEF Typed
<1>2. CASE Return(w) \/ (Release(w) /\ ~walk[w].nudge)
  <2>1. /\ Exit(w)
        /\ UNCHANGED <<card, playbook, mutex, closed, undone, slipped, stopOk, crashed>>
        /\ walk[w].prev = 0 /\ Exists(w)
    BY <1>2 DEF Return, Release, At, Exists, history
  <2>2. /\ walk'[w].pc = "none"
        /\ \A v \in Slot \ {w} : /\ walk'[v].pc = walk[v].pc /\ walk'[v].pass = walk[v].pass
                                 /\ walk'[v].cancelled = walk[v].cancelled
        /\ walker' \in {walker, 0} /\ exiting' \in {exiting, 0}
        /\ control.join = exiting => control'.join = exiting'
        /\ control' = [control EXCEPT !.join = control'.join]
    BY <2>1, ExitOnly DEF Gone
  <2>3. /\ control'.pc = control.pc /\ control'.targets = control.targets
        /\ control'.excused = control.excused
    BY <1>1, <2>2 DEF Controls
  <2>4. ~MidPass(w)'
    BY <2>2 DEF MidPass
  <2>5. QED
    BY <2>1, <2>2, <2>3, <2>4
<1>3. CASE Release(w) /\ walk[w].nudge
  <2>1. walk'[w].pc = "idle" /\ walk'[w].cancelled = walk[w].cancelled
    BY <1>1, <1>3 DEF Release, Walks
  <2>2. QED
    BY <1>3, <2>1, ReleaseOnly DEF MidPass, Exists
<1>4. CASE PassRead(w)
  <2>1. UNCHANGED <<card, playbook, mutex, walker, exiting, control, closed, undone, slipped,
                    stopOk, crashed>>
    BY <1>4 DEF PassRead, history
  <2>2. QED
    BY <1>4, <2>1, PassReadOnly DEF MidPass, Exists
<1>5. CASE RunWrite(w)
  <2>1. PICK run \in Runs, pass \in Passes :
              /\ walk[w].pc = "write" /\ walk[w].prev = 0 /\ Unchanged(w)
              /\ mutex.by = "nobody" /\ mutex' = [by |-> "walker", old |-> playbook]
              /\ playbook' = [playbook EXCEPT !.run = run] /\ playbook'.run = run
              /\ run.status = walk[w].pass.want[1] /\ run.entry = walk[w].pass.want[2]
              /\ pass = [walk[w].pass EXCEPT !.run = run]
              /\ Moves(w, "commit", pass)
    BY <1>5, RunWriteOnly
  <2>2. /\ walk'[w].pc = "commit" /\ walk'[w].pass = pass
        /\ walk'[w].cancelled = walk[w].cancelled
        /\ \A v \in Slot \ {w} : walk'[v] = walk[v]
    BY <1>1, <2>1, MovesOnly DEF Pcs
  <2>3. pass.run = run /\ pass.entries = walk[w].pass.entries /\ pass.then = walk[w].pass.then
    BY <1>1, <2>1 DEF Walks, Passes
  <2>4. UNCHANGED <<card, walker, exiting, control, closed, undone, slipped, stopOk, crashed>>
    BY <1>5 DEF RunWrite, PassUnchanged, history
  <2>5. QED
    BY <2>1, <2>2, <2>3, <2>4 DEF Exists
<1>6. CASE RunCommitted(w) \/ RunCommitFails(w)
  <2>1. /\ walk[w].pc = "commit" /\ walk[w].prev = 0 /\ mutex' = Unlocked
        /\ UNCHANGED <<card, walker, exiting, control, closed, undone, slipped, stopOk, crashed>>
        /\ walk'[w].cancelled = walk[w].cancelled
        /\ \A v \in Slot \ {w} : walk'[v] = walk[v]
    BY <1>6, AnsweredOnly
  <2>2. \/ playbook' \in {playbook, mutex.old} /\ ~MidPass(w)'
        \/ /\ playbook' = playbook /\ walk'[w].pc = "launch"
           /\ walk'[w].pass = walk[w].pass /\ walk[w].pass.then = "launch"
    BY <1>6, AnsweredOnly DEF MidPass
  <2>3. QED
    BY <2>1, <2>2 DEF Exists
<1>7. QED
  BY <1>2, <1>3, <1>4, <1>5, <1>6 DEF Deciding

\* Only a walker in a pass launches a card: the one the run points at.
LEMMA LaunchesOnly ==
    ASSUME Typed, \A w \in Slot : Decided(w), [Next]_vars, NEW c \in Card, LaunchedLive(c)',
           ~LaunchedLive(c)
    PROVE  \E w \in Slot : /\ Passing(w) /\ walk[w].pc \in {"queue", "trigger"}
                           /\ walk[w].pass.run.entry = c /\ Frontier(w) = c
<1>1. CASE \E w \in Slot : Passing(w)
  <2>1. PICK w \in Slot : Passing(w)
    BY <1>1
  <2>2. walk[w].pc \in {"queue", "trigger"} /\ c = Frontier(w)
    BY <2>1, PassLaunches
  <2>3. walk[w].pass.run.entry = Frontier(w)
    BY <2>2 DEF Decided
  <2>4. QED
    BY <2>1, <2>2, <2>3
<1>2. ASSUME UNCHANGED card PROVE FALSE
  BY <1>2 DEF LaunchedLive, Live, Terminal, InFlight
<1>3. ASSUME NoNewLaunch PROVE FALSE
  BY <1>3 DEF NoNewLaunch
<1>4. CASE \E w \in Slot : Deciding(w)
  BY <1>2, <1>4, DecidingOnly
<1>5. CASE CardOnly
  BY <1>3, <1>5 DEF CardOnly
<1>6. CASE EditStep \/ EditAnswered \/ Play \/ Stop \/ Shutdown \/ Restart
  BY <1>2, <1>6, RestartOnly DEF EditStep, EditAnswered, Play, Stop, Shutdown
<1>7. CASE ControlStep
  <2>1. CASE \E d \in Card : Kill(d) \/ KillFails(d)
    BY <1>3, <2>1, KillsOnly
  <2>2. CASE PlayCommitted \/ PlayFails \/ CallEnsure \/ StopCommitted \/ StopWriteFails
             \/ CancelWalker \/ Joined \/ StopWaitExpires \/ StopReturns
    BY <1>2, <2>2 DEF PlayCommitted, PlayFails, CallEnsure, StopCommitted, StopWriteFails,
       CancelWalker, Joined, StopWaitExpires, StopReturns
  <2>3. QED
    BY <1>7, <2>1, <2>2 DEF ControlStep
<1>8. QED
  BY <1>1, <1>4, <1>5, <1>6, <1>7, StepKinds

\* What a call, the control steps, a shutdown and a restart do to the passes.
LEMMA OthersOnly ==
    ASSUME Typed, CardOnly \/ EditStep \/ EditAnswered \/ Play \/ Stop \/ ControlStep \/ Shutdown
                  \/ Restart,
           NEW w \in Slot, MidPass(w)'
    PROVE  /\ MidPass(w) /\ walk'[w].pc = walk[w].pc /\ walk'[w].pass = walk[w].pass
           /\ ~walk'[w].cancelled => ~walk[w].cancelled
<1>1. walk \in [Slot -> Walks] /\ walker \in Slot \cup {0} /\ 0 \notin Slot
  BY RunAssumption DEF Typed
<1>2. CASE walk' = walk
  BY <1>2 DEF MidPass
<1>3. CASE CallEnsure
  <2>1. Ensure
    BY <1>3 DEF CallEnsure
  <2>2. QED
    BY <1>1, <2>1, EnsureOnly DEF MidPass
<1>4. CASE CancelWalker
  BY <1>1, <1>4, CancelOnly DEF MidPass
<1>5. CASE Shutdown
  <2>1. walk' = [v \in Slot |-> [walk[v] EXCEPT !.cancelled = walk[v].pc # "none"]]
    BY <1>5 DEF Shutdown
  <2>2. /\ walk'[w].pc = walk[w].pc /\ walk'[w].pass = walk[w].pass
        /\ walk'[w].cancelled = (walk[w].pc # "none")
    BY <1>1, <2>1 DEF Walks
  <2>3. QED
    BY <2>2 DEF MidPass
<1>6. CASE Restart
  <2>1. walk'[w].pc \in {"none", "idle"}
    BY <1>6, RestartOnly
  <2>2. QED
    BY <2>1 DEF MidPass
<1>7. QED
  BY <1>2, <1>3, <1>4, <1>5, <1>6 DEF CardOnly, EditStep, EditAnswered, Play, Stop, ControlStep,
     PlayCommitted, PlayFails, StopCommitted, StopWriteFails, Joined, StopWaitExpires,
     StopReturns, Kill, KillFails, runnerVars

\* What a call and the answer to it do to the store.
LEMMA StoreOnly ==
    ASSUME Typed, Locks,
           CardOnly \/ EditStep \/ EditAnswered \/ Play \/ Stop \/ ControlStep \/ Shutdown
           \/ Restart
    PROVE  \/ UNCHANGED <<playbook, mutex>>
           \/ EditStep
           \/ /\ mutex.by = "nobody" /\ mutex'.by \in {"play", "stop"} /\ mutex'.old = playbook
              /\ playbook' = [playbook EXCEPT !.run = playbook'.run]
              /\ playbook'.run.entry \in ToSet(playbook.entries) \cup {NoEntry}
           \/ mutex' = Unlocked /\ playbook' = playbook
           \/ mutex' = Unlocked /\ playbook' = mutex.old /\ mutex.by \in {"edit", "play", "stop"}
<1>1. CASE CardOnly \/ CallEnsure \/ CancelWalker \/ Joined \/ StopWaitExpires \/ StopReturns
           \/ (\E c \in Card : Kill(c) \/ KillFails(c)) \/ Shutdown
  BY <1>1 DEF CardOnly, CallEnsure, CancelWalker, Joined, StopWaitExpires, StopReturns, Kill,
     KillFails, Shutdown
<1>2. CASE EditAnswered \/ PlayCommitted \/ PlayFails \/ StopCommitted \/ StopWriteFails
  BY <1>2 DEF EditAnswered, PlayCommitted, PlayFails, StopCommitted, StopWriteFails, Committed,
     RolledBack, Control, Locks
<1>3. CASE Play
  <2>1. PICK run \in Runs :
              /\ mutex.by = "nobody" /\ mutex' = [by |-> "play", old |-> playbook]
              /\ playbook' = [playbook EXCEPT !.run = run] /\ playbook'.run = run
              /\ run.entry \in ToSet(playbook.entries) \cup {NoEntry}
    BY <1>3, PlayOnly
  <2>2. QED
    BY <2>1
<1>4. CASE Stop
  <2>1. PICK run \in Runs :
              /\ mutex.by = "nobody" /\ mutex' = [by |-> "stop", old |-> playbook]
              /\ playbook' = [playbook EXCEPT !.run = run] /\ playbook'.run = run
              /\ run.entry = playbook.run.entry
    BY <1>4, StopOnly
  <2>2. QED
    BY <2>1 DEF Typed, Sound
<1>5. CASE Restart
  BY <1>5, RestartOnly
<1>6. QED
  BY <1>1, <1>2, <1>3, <1>4, <1>5 DEF ControlStep

LEMMA KnownInit == Init => Known
BY DEF Init, Blank, NoRun, Unlocked, Gone, Known, MidPass, LaunchedLive, Live, InFlight

LEMMA KnownStep ==
    ASSUME Typed, \A w \in Slot : Decided(w), Registry, Locks, Known, [Next]_vars
    PROVE  Known'
<1> DEFINE Points(e) == e \in Ids \cup {NoEntry}
<1>1. /\ playbook \in Books /\ Sound(playbook) /\ mutex.old \in Books
      /\ mutex \in [by : {"nobody", "play", "stop", "edit", "walker"}, old : Books]
  BY DEF Typed
<1>2. ASSUME Ids \subseteq Ids', Points(playbook'.run.entry),
             mutex'.by # "nobody" => Points(mutex'.old.run.entry),
             \A v \in Slot : MidPass(v)' => Points(walk'[v].pass.run.entry)
      PROVE  Known'
  <2>1. ASSUME NEW c \in Card, LaunchedLive(c)' PROVE c \in Ids
    <3>1. CASE LaunchedLive(c)
      BY <3>1 DEF Known
    <3>2. CASE ~LaunchedLive(c)
      <4>1. PICK w \in Slot : /\ walk[w].pc \in {"queue", "trigger"}
                              /\ walk[w].pass.run.entry = c
        BY <2>1, <3>2, LaunchesOnly
      <4>2. c # NoEntry
        BY RunAssumption DEF Entry
      <4>3. QED
        BY <4>1, <4>2 DEF Known, MidPass
    <3>3. QED
      BY <3>1, <3>2
  <2>2. QED
    BY <1>2, <2>1 DEF Known
<1>3. ASSUME NEW w \in Slot, Passing(w) PROVE Known'
  <2>1. /\ UNCHANGED <<playbook, mutex>> /\ walk[w].pc \in InPass
        /\ walk'[w].pc # "idle" => walk'[w].pass.run = walk[w].pass.run
        /\ \A v \in Slot \ {w} : walk'[v] = walk[v]
    BY <1>3, PassingOnly
  <2>2. Ids' = Ids /\ Points(playbook.run.entry)
        /\ (mutex.by # "nobody" => Points(mutex.old.run.entry))
    BY <2>1 DEF Ids, Known
  <2>3. \A v \in Slot : MidPass(v)' => Points(walk'[v].pass.run.entry)
    BY <2>1 DEF MidPass, InPass, Known
  <2>4. QED
    BY <1>2, <2>1, <2>2, <2>3
<1>4. ASSUME NEW w \in Slot, Deciding(w) PROVE Known'
  <2>1. \A v \in Slot \ {w} : MidPass(v)' => Points(walk'[v].pass.run.entry)
    <3>1. \A v \in Slot \ {w} : walk'[v].pc = walk[v].pc /\ walk'[v].pass = walk[v].pass
      BY <1>4, DecidingOnly
    <3>2. QED
      BY <3>1 DEF MidPass, Known
  <2>2. CASE UNCHANGED <<playbook, mutex>>
    <3>1. Ids' = Ids /\ Points(playbook.run.entry)
          /\ (mutex.by # "nobody" => Points(mutex.old.run.entry))
      BY <2>2 DEF Ids, Known
    <3>2. MidPass(w)' => walk'[w].pass.run \in {playbook.run, walk[w].pass.run}
          /\ (walk'[w].pass.run = playbook.run \/ MidPass(w))
      BY <1>4, <2>2, DecidingOnly DEF MidPass
    <3>3. MidPass(w)' => Points(walk'[w].pass.run.entry)
      BY <3>1, <3>2 DEF Known
    <3>4. QED
      BY <1>2, <2>1, <2>2, <3>1, <3>3
  <2>3. CASE /\ Unchanged(w) /\ mutex.by = "nobody"
             /\ mutex' = [by |-> "walker", old |-> playbook]
             /\ playbook' = [playbook EXCEPT !.run = playbook'.run]
             /\ playbook'.run.entry = walk[w].pass.want[2]
             /\ walk'[w].pass.run = playbook'.run
    <3>1. playbook'.ids = playbook.ids /\ Ids = playbook.ids /\ Ids' = playbook'.ids
      BY <1>1, <2>3 DEF Books, Ids
    <3>2. Points(playbook'.run.entry)
      BY <1>1, <2>3, <3>1 DEF Unchanged, Sound
    <3>3. Points(playbook.run.entry)
      BY DEF Known
    <3>4. QED
      BY <1>2, <2>1, <2>3, <3>1, <3>2, <3>3
  <2>4. CASE walk[w].pc = "commit" /\ mutex' = Unlocked /\ playbook' \in {playbook, mutex.old}
             /\ (MidPass(w)' => walk'[w].pass = walk[w].pass)
    <3>1. mutex.by = "walker" /\ [mutex.old EXCEPT !.run = playbook.run] = playbook
      BY <2>4 DEF Locks
    <3>2. playbook.ids = mutex.old.ids
      BY <1>1, <3>1 DEF Books
    <3>3. Ids = playbook.ids /\ Ids' = playbook'.ids /\ Ids' = Ids
      BY <2>4, <3>1, <3>2, RunOfUnlocked DEF Ids
    <3>4. Points(playbook'.run.entry) /\ Points(walk[w].pass.run.entry)
      BY <2>4, <3>1 DEF Known, MidPass
    <3>5. QED
      BY <1>2, <2>1, <2>4, <3>3, <3>4, RunOfUnlocked
  <2>5. QED
    BY <1>4, <2>2, <2>3, <2>4, DecidingOnly
<1>5. CASE CardOnly \/ EditStep \/ EditAnswered \/ Play \/ Stop \/ ControlStep \/ Shutdown
           \/ Restart
  <2>1. \A v \in Slot : MidPass(v)' => Points(walk'[v].pass.run.entry)
    <3>1. \A v \in Slot : MidPass(v)' => MidPass(v) /\ walk'[v].pass = walk[v].pass
      BY <1>5, OthersOnly
    <3>2. QED
      BY <3>1 DEF Known
  <2>2. CASE UNCHANGED <<playbook, mutex>>
    BY <1>2, <2>1, <2>2 DEF Ids, Known
  <2>3. CASE EditStep
    <3>1. Ids = playbook.ids /\ Ids' = playbook.ids
      BY <2>3 DEF EditStep, Ids
    <3>2. Points(playbook.run.entry) /\ playbook'.run.entry \in {playbook.run.entry, NoEntry}
          /\ mutex'.old = playbook
      BY <2>3 DEF EditStep, Known
    <3>3. QED
      BY <1>2, <2>1, <3>1, <3>2
  <2>4. CASE /\ mutex.by = "nobody" /\ mutex'.by \in {"play", "stop"} /\ mutex'.old = playbook
             /\ playbook' = [playbook EXCEPT !.run = playbook'.run]
             /\ playbook'.run.entry \in ToSet(playbook.entries) \cup {NoEntry}
    <3>1. playbook'.ids = playbook.ids /\ Ids = playbook.ids /\ Ids' = playbook'.ids
      BY <1>1, <2>4 DEF Books, Ids
    <3>2. Points(playbook'.run.entry) /\ Points(playbook.run.entry)
      BY <1>1, <2>4, <3>1 DEF Sound, Known
    <3>3. QED
      BY <1>2, <2>1, <2>4, <3>1, <3>2
  <2>5. CASE mutex' = Unlocked /\ playbook' = playbook
    <3>1. mutex'.by = "nobody" /\ Ids' = playbook.ids
      BY <2>5, RunOfUnlocked DEF Ids
    <3>2. Ids \subseteq playbook.ids
      BY DEF Ids, Locks
    <3>3. QED
      BY <1>2, <2>1, <2>5, <3>1, <3>2 DEF Known
  <2>6. CASE /\ mutex' = Unlocked /\ playbook' = mutex.old
             /\ mutex.by \in {"edit", "play", "stop"}
    <3>1. mutex'.by = "nobody" /\ Ids' = mutex.old.ids
      BY <2>6, RunOfUnlocked DEF Ids
    <3>2. mutex.by # "edit" => playbook.ids = mutex.old.ids
      <4>1. mutex.by # "edit" => [mutex.old EXCEPT !.run = playbook.run] = playbook
        BY <2>6 DEF Locks
      <4>2. QED
        BY <1>1, <4>1 DEF Books
    <3>3. Ids = mutex.old.ids /\ Points(mutex.old.run.entry)
      BY <2>6, <3>2 DEF Ids, Known
    <3>4. QED
      BY <1>2, <2>1, <2>6, <3>1, <3>3
  <2>7. QED
    BY <1>5, <2>2, <2>3, <2>4, <2>5, <2>6, StoreOnly
<1>6. QED
  BY <1>3, <1>4, <1>5, StepKinds

-----------------------------------------------------------------------------
(* A run has one worker at a time.                                          *)

\* A walker that is in a pass keeps every other one out of it.
LEMMA InPassAlone ==
    ASSUME Typed, Registry, NEW w \in Slot, Exists(w), walk[w].prev = 0,
           NEW v \in Slot, MidPass(v)
    PROVE  v = w
BY OneInPass

\* An edit adds no launched card to the entries.
LEMMA EditAddsNone ==
    ASSUME Typed, Known, EditStep, NEW c \in Card \cap ToSet(playbook'.entries), LaunchedLive(c)'
    PROVE  c \in ToSet(playbook.entries) /\ LaunchedLive(c)
<1>1. LaunchedLive(c) /\ Ids = playbook.ids
  BY DEF EditStep, Ids, LaunchedLive, Live, Terminal, InFlight
<1>2. c \in playbook.ids
  BY <1>1 DEF Known
<1>3. QED
  BY <1>1, <1>2 DEF EditStep

LEMMA AloneInit == Init => Alone
BY DEF Init, Gone, Alone, PastHold, Launching, MidPass, Unlocked

LEMMA AloneStep ==
    ASSUME Typed, \A w \in Slot : Decided(w), Registry, Uncancelled, Locks, Known, Alone,
           [Next]_vars
    PROVE  Alone'
<1> DEFINE Here(w) == Among(playbook.entries, ToSet(walk[w].pass.entries))
           There(w) == Among(mutex.old.entries, ToSet(walk[w].pass.entries))
           Forgiven(w) == undone /\ \/ Active(playbook.run)
                                    \/ control.pc \in {"stopCommit", "cancel"}
                                    \/ walk[w].pc = "commit"
           Going(w) == MidPass(w) /\ ~walk[w].cancelled
<1>1. /\ playbook \in Books /\ mutex.old \in Books /\ control \in Controls
      /\ mutex \in [by : {"nobody", "play", "stop", "edit", "walker"}, old : Books]
  BY DEF Typed
<1>2. ASSUME \A w \in Slot : PastHold(w)' => Among(walk[w].pass.entries, {})',
             \A w \in Slot : Going(w)' => Here(w)' \/ Forgiven(w)',
             mutex'.by = "edit" => \A w \in Slot : Going(w)' =>
                There(w)' \/ Active(mutex'.old.run) \/ control'.pc = "cancel"
      PROVE  Alone'
  BY <1>2 DEF Alone, Active
<1>3. ASSUME NEW w \in Slot, Passing(w) PROVE Alone'
  <2>1. /\ walk[w].prev = 0 /\ walk[w].pc \in InPass
        /\ UNCHANGED <<playbook, mutex, control, undone>>
        /\ walk'[w].cancelled = walk[w].cancelled
        /\ walk'[w].pc # "idle" => walk'[w].pass.entries = walk[w].pass.entries
        /\ \A v \in Slot \ {w} : walk'[v] = walk[v]
        /\ PastHold(w)' =>
             /\ walk[w].pc \notin {"queue", "trigger"} \/ walk'[w].pc = "queue"
             /\ PastHold(w) \/ \A c \in Card \cap ToSet(walk[w].pass.entries) : ~Live(c)
    BY <1>3, PassingOnly
  <2>2. \A v \in Slot \ {w} : ~MidPass(v) /\ ~MidPass(v)' /\ ~PastHold(v)'
    <3>1. Exists(w)
      BY <2>1 DEF Exists, InPass
    <3>2. \A v \in Slot \ {w} : ~MidPass(v)
      BY <2>1, <3>1, InPassAlone
    <3>3. QED
      BY <2>1, <3>2 DEF MidPass, PastHold, Launching
  <2>3. \A c \in Card : LaunchedLive(c)' =>
          LaunchedLive(c) \/ (walk[w].pc \in {"queue", "trigger"} /\ c = Frontier(w))
    BY <1>3, PassLaunches
  <2>4. PastHold(w)' => Among(walk[w].pass.entries, {})'
    <3> SUFFICES ASSUME PastHold(w)', NEW c \in Card \cap ToSet(walk[w].pass.entries),
                        LaunchedLive(c)'
                 PROVE  FALSE
      BY <2>1 DEF Among, PastHold, Launching
    <3>1. walk[w].pc \notin {"queue", "trigger"}
      <4>1. ~(walk[w].pc \in {"queue", "trigger"} /\ walk'[w].pc = "queue")
        <5>1. PICK pc \in Pcs, pass \in Passes : Moves(w, pc, pass) /\ Advance(w, pc, pass)
          BY <1>3, PassingIsPassStep DEF PassStep
        <5>2. walk'[w].pc = pc
          BY <5>1, MovesOnly DEF Typed
        <5>3. QED
          BY <5>1, <5>2 DEF Advance
      <4>2. QED
        BY <2>1, <4>1
    <3>2. LaunchedLive(c)
      BY <2>3, <3>1
    <3>3. QED
      BY <2>1, <3>2 DEF Alone, Among, LaunchedLive
  <2>5. Going(w)' => Here(w)' \/ Forgiven(w)'
    <3> SUFFICES ASSUME Going(w)' PROVE Here(w)' \/ Forgiven(w)'
      OBVIOUS
    <3>1. Going(w) /\ walk'[w].pass.entries = walk[w].pass.entries
      BY <2>1 DEF MidPass, InPass
    <3>2. CASE Forgiven(w)
      BY <2>1, <3>2 DEF InPass, Active
    <3>3. CASE Here(w)
      <4>1. walk[w].pc \in {"queue", "trigger"} => Frontier(w) \in ToSet(walk[w].pass.entries)
        <5>1. walk[w].pass.entries \in Seq(Entry)
          BY DEF Typed, Walks, Passes
        <5>2. QED
          BY <5>1, ToSetTyped DEF Decided, Launching, Frontier
      <4>2. QED
        BY <2>1, <2>3, <3>1, <3>3, <4>1 DEF Among
    <3>4. QED
      BY <3>1, <3>2, <3>3 DEF Alone
  <2>6. mutex.by = "edit" /\ Going(w)' =>
          There(w)' \/ Active(mutex.old.run) \/ control.pc = "cancel"
    <3> SUFFICES ASSUME mutex.by = "edit", Going(w)'
                 PROVE  There(w)' \/ Active(mutex.old.run) \/ control.pc = "cancel"
      OBVIOUS
    <3>1. Going(w) /\ walk'[w].pass.entries = walk[w].pass.entries
      BY <2>1 DEF MidPass, InPass
    <3>2. CASE There(w)
      <4>1. walk[w].pc \in {"queue", "trigger"} => Frontier(w) \in ToSet(walk[w].pass.entries)
        <5>1. walk[w].pass.entries \in Seq(Entry)
          BY DEF Typed, Walks, Passes
        <5>2. QED
          BY <5>1, ToSetTyped DEF Decided, Launching, Frontier
      <4>2. QED
        BY <2>1, <2>3, <3>1, <3>2, <4>1 DEF Among
    <3>3. QED
      BY <3>1, <3>2 DEF Alone
  <2>7. QED
    BY <1>2, <2>1, <2>2, <2>4, <2>5, <2>6
<1>4. ASSUME NEW w \in Slot, Deciding(w) PROVE Alone'
  <2>1. /\ Exists(w) /\ walk[w].prev = 0 /\ UNCHANGED <<card, undone>>
        /\ control'.pc = control.pc
        /\ \A v \in Slot \ {w} : walk'[v].pc = walk[v].pc /\ walk'[v].pass = walk[v].pass
        /\ walk'[w].pc # "none" => (walk'[w].cancelled <=> walk[w].cancelled)
    BY <1>4, DecidingOnly
  <2>2. \A v \in Slot \ {w} : ~MidPass(v)' /\ ~PastHold(v)'
    BY <2>1, InPassAlone DEF MidPass, PastHold, Launching
  <2>3. \A c \in Card : LaunchedLive(c)' <=> LaunchedLive(c)
    BY <2>1 DEF LaunchedLive, Live, Terminal, InFlight
  <2>4. ASSUME ~MidPass(w)' PROVE Alone'
    BY <1>2, <2>2, <2>4 DEF MidPass, PastHold, Launching
  <2>5. CASE /\ walk'[w].pc = "hold" /\ walk'[w].pass.entries = playbook.entries
             /\ Active(playbook.run) /\ UNCHANGED <<playbook, mutex>>
    <3>1. ~PastHold(w)' /\ Here(w)'
      BY <2>5 DEF PastHold, Launching, Among
    <3>2. mutex.by = "edit" => Active(mutex.old.run)
      BY <2>5 DEF Locks
    <3>3. QED
      BY <1>2, <2>2, <2>5, <3>1, <3>2 DEF Active
  <2>6. CASE /\ walk[w].pc = "write" /\ Unchanged(w)
             /\ mutex' = [by |-> "walker", old |-> playbook]
             /\ playbook' = [playbook EXCEPT !.run = playbook'.run]
             /\ walk'[w].pc = "commit" /\ walk'[w].pass.entries = walk[w].pass.entries
             /\ walk'[w].pass.then = walk[w].pass.then
    <3>1. playbook'.entries = playbook.entries /\ mutex'.by = "walker"
      BY <1>1, <2>6 DEF Books
    <3>2. PastHold(w)' => PastHold(w)
      BY <2>6 DEF PastHold, Launching
    <3>3. PastHold(w)' => Among(walk[w].pass.entries, {})'
      BY <2>3, <2>6, <3>2 DEF Alone, Among
    <3>4. Going(w)' => Here(w)' \/ Forgiven(w)'
      <4> SUFFICES ASSUME Going(w)' PROVE Here(w)' \/ Forgiven(w)'
        OBVIOUS
      <4>1. Going(w)
        BY <2>1, <2>6 DEF MidPass
      <4>2. Here(w) \/ undone
        BY <4>1 DEF Alone
      <4>3. Here(w) => Here(w)'
        BY <2>3, <2>6, <3>1 DEF Among
      <4>4. QED
        BY <2>1, <2>6, <4>2, <4>3
    <3>5. QED
      BY <1>2, <2>2, <3>1, <3>3, <3>4
  <2>7. CASE /\ walk[w].pc = "commit" /\ mutex' = Unlocked /\ playbook' = playbook
             /\ walk'[w].pc = "launch" /\ walk'[w].pass = walk[w].pass
             /\ walk[w].pass.then = "launch"
    <3>1. mutex'.by = "nobody"
      BY <2>7, RunOfUnlocked
    <3>2. PastHold(w)' => Among(walk[w].pass.entries, {})'
      BY <2>3, <2>7 DEF Alone, Among, PastHold, Launching
    <3>3. Active(playbook.run)
      BY <2>7 DEF Decided, Active
    <3>4. Going(w)' => Here(w)' \/ Forgiven(w)'
      <4> SUFFICES ASSUME Going(w)' PROVE Here(w)' \/ Forgiven(w)'
        OBVIOUS
      <4>1. Going(w)
        BY <2>1, <2>7 DEF MidPass
      <4>2. Here(w) \/ undone
        BY <4>1 DEF Alone
      <4>3. Here(w) => Here(w)'
        BY <2>3, <2>7 DEF Among
      <4>4. QED
        BY <2>1, <2>7, <3>3, <4>2, <4>3 DEF Active
    <3>5. QED
      BY <1>2, <2>2, <3>1, <3>2, <3>4
  <2>8. QED
    BY <1>4, <2>4, <2>5, <2>6, <2>7, DecidingOnly
<1>5. ASSUME CardOnly \/ EditStep \/ EditAnswered \/ Play \/ Stop \/ ControlStep \/ Shutdown
             \/ Restart,
             ~\E w \in Slot : Passing(w)
      PROVE  Alone'
  <2>1. \A c \in Card : LaunchedLive(c)' => LaunchedLive(c)
    BY <1>5, LaunchesOnly
  <2>2. \A w \in Slot : MidPass(w)' =>
          /\ MidPass(w) /\ walk'[w].pc = walk[w].pc /\ walk'[w].pass = walk[w].pass
          /\ ~walk'[w].cancelled => ~walk[w].cancelled
    BY <1>5, OthersOnly
  <2>3. \A w \in Slot : PastHold(w)' => Among(walk[w].pass.entries, {})'
    <3>1. \A w \in Slot : PastHold(w)' => MidPass(w)' /\ (MidPass(w) /\ walk'[w].pc = walk[w].pc
                             /\ walk'[w].pass = walk[w].pass => PastHold(w))
      BY DEF PastHold, Launching, MidPass
    <3>2. QED
      BY <2>1, <2>2, <3>1 DEF Alone, Among
  <2>4. \A w \in Slot : Going(w)' => Going(w) /\ walk'[w].pc = walk[w].pc
                                              /\ walk'[w].pass = walk[w].pass
    BY <2>2
  <2>5. ASSUME playbook'.entries = playbook.entries, mutex'.by # "edit",
               \A w \in Slot : Going(w)' /\ Forgiven(w) => Forgiven(w)'
        PROVE  Alone'
    <3>1. \A w \in Slot : Here(w) /\ Going(w)' => Here(w)'
      BY <2>1, <2>4, <2>5 DEF Among
    <3>2. \A w \in Slot : Going(w) => Here(w) \/ Forgiven(w)
      BY DEF Alone
    <3>3. QED
      BY <1>2, <2>3, <2>4, <2>5, <3>1, <3>2
  <2>6. ASSUME UNCHANGED <<playbook, mutex>>, undone' = undone,
               control.pc \in {"stopCommit", "cancel"} => control'.pc = control.pc
        PROVE  Alone'
    <3>1. \A w \in Slot : Going(w)' /\ Here(w) => Here(w)'
      BY <2>1, <2>4, <2>6 DEF Among
    <3>2. \A w \in Slot : Going(w)' /\ There(w) => There(w)'
      BY <2>1, <2>4, <2>6 DEF Among
    <3>3. \A w \in Slot : Going(w) => Here(w) \/ Forgiven(w)
      BY DEF Alone
    <3>4. mutex.by = "edit" => \A w \in Slot : Going(w) =>
            There(w) \/ Active(mutex.old.run) \/ control.pc = "cancel"
      BY DEF Alone
    <3>5. \A w \in Slot : Going(w)' /\ Forgiven(w) => Forgiven(w)'
      BY <2>4, <2>6 DEF Active
    <3>6. QED
      BY <1>2, <2>3, <2>4, <2>6, <3>1, <3>2, <3>3, <3>4, <3>5
  <2>7. ASSUME \A w \in Slot : ~Going(w)' PROVE Alone'
    BY <1>2, <2>3, <2>7
  <2>8. CASE CardOnly
    BY <2>6, <2>8 DEF CardOnly
  <2>9. CASE EditStep
    <3>1. /\ mutex.by = "nobody" /\ mutex'.old = playbook /\ UNCHANGED <<walk, control, undone>>
          /\ Active(playbook.run) => playbook'.run = playbook.run
      BY <2>9 DEF EditStep
    <3>2. \A w \in Slot : walk[w].pc # "commit"
      BY <3>1 DEF Locks
    <3>3. \A w \in Slot : Here(w) => Here(w)' /\ There(w)'
      <4> SUFFICES ASSUME NEW w \in Slot, Here(w) PROVE Here(w)' /\ There(w)'
        OBVIOUS
      <4>1. Here(w)'
        <5> SUFFICES ASSUME NEW c \in Card \cap ToSet(playbook'.entries), LaunchedLive(c)'
                     PROVE  c \in ToSet(walk[w].pass.entries)
          BY <3>1 DEF Among
        <5>1. c \in Card \cap ToSet(playbook.entries) /\ LaunchedLive(c)
          BY <2>9, EditAddsNone
        <5>2. QED
          BY <5>1 DEF Among
      <4>2. There(w)'
        BY <2>1, <3>1 DEF Among
      <4>3. QED
        BY <4>1, <4>2
    <3>4. control.pc # "stopCommit"
      BY <3>1 DEF Locks
    <3>5. \A w \in Slot : Forgiven(w) => /\ Forgiven(w)'
                                         /\ Active(mutex'.old.run) \/ control'.pc = "cancel"
      BY <3>1, <3>2, <3>4 DEF Active
    <3>6. \A w \in Slot : Going(w) => Here(w) \/ Forgiven(w)
      BY DEF Alone
    <3>7. QED
      BY <1>2, <2>3, <2>4, <3>3, <3>5, <3>6
  <2>10. CASE EditAnswered
    <3>1. /\ mutex.by = "edit" /\ mutex'.by = "nobody" /\ UNCHANGED <<walk, control>>
          /\ \/ playbook' = playbook /\ undone' = undone
             \/ playbook' = mutex.old /\ undone' = TRUE
      BY <2>10, RunOfUnlocked DEF EditAnswered, Committed, RolledBack, runnerVars
    <3>2. CASE playbook' = playbook /\ undone' = undone
      BY <2>5, <3>1, <3>2 DEF Active
    <3>3. CASE playbook' = mutex.old /\ undone' = TRUE
      <4>1. \A w \in Slot : Going(w) =>
              There(w) \/ Active(mutex.old.run) \/ control.pc = "cancel"
        BY <3>1 DEF Alone
      <4>2. \A w \in Slot : There(w) => Here(w)'
        BY <2>1, <3>1, <3>3 DEF Among
      <4>3. \A w \in Slot : Going(w)' => Here(w)' \/ Forgiven(w)'
        BY <2>4, <3>1, <3>3, <4>1, <4>2 DEF Active
      <4>4. QED
        BY <1>2, <2>3, <3>1, <4>3
    <3>4. QED
      BY <3>1, <3>2, <3>3
  <2>11. CASE Play
    <3>1. PICK run \in Runs : /\ mutex.by = "nobody" /\ mutex' = [by |-> "play", old |-> playbook]
                              /\ playbook' = [playbook EXCEPT !.run = run]
      BY <2>11, PlayOnly
    <3>2. ~Active(playbook.run) /\ control.pc = "idle"
      BY <2>11 DEF Play, Control
    <3>3. \A w \in Slot : ~Forgiven(w)
      BY <3>1, <3>2 DEF Locks
    <3>4. playbook'.entries = playbook.entries /\ mutex'.by = "play"
      BY <1>1, <3>1 DEF Books
    <3>5. QED
      BY <2>5, <3>3, <3>4
  <2>12. CASE Stop
    <3>1. PICK run \in Runs : /\ mutex' = [by |-> "stop", old |-> playbook]
                              /\ playbook' = [playbook EXCEPT !.run = run]
                              /\ control'.pc = "stopCommit"
      BY <2>12, StopOnly
    <3>2. playbook'.entries = playbook.entries /\ mutex'.by = "stop" /\ undone' = undone
      BY <1>1, <2>12, <3>1 DEF Books, Stop, history
    <3>3. \A w \in Slot : Forgiven(w) => Forgiven(w)'
      BY <3>1, <3>2
    <3>4. QED
      BY <2>5, <3>2, <3>3
  <2>13. CASE ControlStep
    <3>1. CASE PlayCommitted \/ StopCommitted
      <4>1. /\ mutex' = Unlocked /\ UNCHANGED <<playbook, walk, undone>>
            /\ control.pc = "playCommit" \/ control'.pc = "cancel"
        BY <1>1, <3>1 DEF PlayCommitted, StopCommitted, Committed, runnerVars, history, Control,
           Controls
      <4>2. \A w \in Slot : Forgiven(w) => Forgiven(w)'
        BY <4>1 DEF Active
      <4>3. QED
        BY <2>5, <4>1, <4>2, RunOfUnlocked
    <3>2. CASE PlayFails \/ StopWriteFails
      <4>1. /\ mutex' = Unlocked /\ playbook' = mutex.old
            /\ \/ mutex.by = "play" /\ undone' = undone
               \/ mutex.by = "stop" /\ undone' = TRUE
        BY <3>2 DEF PlayFails, StopWriteFails, RolledBack, runnerVars, history, Control, Locks
      <4>2. playbook'.entries = playbook.entries
        <5>1. [mutex.old EXCEPT !.run = playbook.run] = playbook
          BY <4>1 DEF Locks
        <5>2. QED
          BY <1>1, <4>1, <5>1 DEF Books
      <4>3. \A w \in Slot : Forgiven(w) => Forgiven(w)'
        BY <4>1 DEF Locks, Active
      <4>4. QED
        BY <2>5, <4>1, <4>2, <4>3, RunOfUnlocked
    <3>3. CASE CancelWalker
      <4>1. Uncancelled' /\ walker' = 0
        BY <3>3, UncancelledStep, CancelOnly
      <4>2. \A w \in Slot : ~Going(w)'
        BY <4>1, RunAssumption DEF Uncancelled, MidPass, Exists
      <4>3. QED
        BY <2>7, <4>2
    <3>4. CASE CallEnsure \/ Joined \/ StopWaitExpires \/ StopReturns
               \/ \E c \in Card : Kill(c) \/ KillFails(c)
      <4>1. UNCHANGED <<playbook, mutex, undone>> /\ control.pc \in {"ensure", "join", "kill"}
        BY <3>4 DEF CallEnsure, Joined, StopWaitExpires, StopReturns, Kill, KillFails, Control,
           history
      <4>2. QED
        BY <2>6, <4>1
    <3>5. QED
      BY <2>13, <3>1, <3>2, <3>3, <3>4 DEF ControlStep
  <2>14. CASE Shutdown \/ Restart
    <3>1. \A w \in Slot : ~Going(w)'
      <4>1. CASE Shutdown
        <5>1. walk' = [w \in Slot |-> [walk[w] EXCEPT !.cancelled = walk[w].pc # "none"]]
          BY <4>1 DEF Shutdown
        <5>2. \A w \in Slot : walk'[w].pc = walk[w].pc /\ walk'[w].cancelled = (walk[w].pc # "none")
          BY <5>1 DEF Typed, Walks
        <5>3. QED
          BY <5>2 DEF MidPass
      <4>2. CASE Restart
        BY <4>2, RestartOnly DEF MidPass
      <4>3. QED
        BY <2>14, <4>1, <4>2
    <3>2. QED
      BY <2>7, <3>1
  <2>15. QED
    BY <1>5, <2>8, <2>9, <2>10, <2>11, <2>12, <2>13, <2>14
<1>6. QED
  BY <1>3, <1>4, <1>5, StepKinds

-----------------------------------------------------------------------------
(* A hand run holds the pass back too.                                      *)

\* A run block that Play or Stop writes is none that a pass has read.
LEMMA NewBlock ==
    ASSUME Typed, Play \/ Stop, NEW w \in Slot
    PROVE  walk[w].pass.run # playbook'.run
<1>1. playbook \in Books /\ walk \in [Slot -> Walks] /\ playbook.run \in Runs
  BY DEF Typed, Books
<1>2. Fresh # walk[w].pass.run.stamp
  BY <1>1, FreshTyped DEF Books, Walks, Passes, Runs
<1>3. playbook'.run.stamp = Fresh
  <2>1. CASE Play
    <3>1. playbook' = [playbook EXCEPT !.run =
              [status |-> "running", stamp |-> Fresh,
               entry |-> LiveEntry(playbook.entries, playbook.run.entry)]]
      BY <2>1 DEF Play, Save
    <3>2. QED
      BY <1>1, <3>1 DEF Books
  <2>2. CASE Stop
    <3>1. playbook' = [playbook EXCEPT !.run.status = "stopped", !.run.stamp = Fresh]
      BY <2>2 DEF Stop, Save
    <3>2. QED
      BY <1>1, <3>1 DEF Books, Runs
  <2>3. QED
    BY <2>1, <2>2
<1>4. QED
  BY <1>2, <1>3

\* What gives a card a live worker: the run's launch, and what a person does to
\* a card that is no entry of an active run.
LEMMA CardWakes ==
    ASSUME Typed, NEW d \in Card, PersonOrWorker(d), NEW c \in Card, Live(c)', ~Live(c)
    PROVE  slipped' \/ ~(Active(playbook.run) /\ c \in ToSet(playbook.entries))
<1>1. /\ card \in [Card -> Cards] /\ card[d] \in Cards
      /\ Active(playbook.run) => playbook.runnable
  BY DEF Typed, Sound
<1>2. CASE d # c
  <2>1. card'[c] = card[c]
    BY <1>1, <1>2 DEF PersonOrWorker, HandRun, HandQueue, MoveToTodo, Reopen, ReopenWrite, Moved,
       MoveToDone, StallSweep, CardAct, WorkerClaims, WorkerFinishes, WorkerEnds, WorkerLost
  <2>2. QED
    BY <2>1 DEF Live, Terminal, InFlight
<1>3. CASE d = c
  <2>1. CASE HandRun(c) \/ HandQueue(c) \/ Reopen(c)
    BY <1>1, <2>1 DEF HandRun, HandQueue, Reopen, Live, Terminal, InFlight
  <2>2. CASE MoveToTodo(c)
    <3>1. ~Terminal(c) /\ card' = [card EXCEPT ![c].state = "todo",
                                       ![c].worker = IF @ = "failed" THEN "none" ELSE @]
      BY <2>2 DEF MoveToTodo, Moved, Terminal
    <3>2. card'[c].worker = IF card[c].worker = "failed" THEN "none" ELSE card[c].worker
      BY <1>1, <1>3, <3>1 DEF Cards
    <3>3. QED
      BY <3>1, <3>2 DEF Live, Terminal, InFlight
  <2>3. CASE ReopenWrite(c)
    BY <2>3 DEF ReopenWrite
  <2>4. CASE MoveToDone(c) \/ WorkerFinishes(c)
    <3>1. card'[c].state = "done"
      BY <1>1, <1>3, <2>4 DEF MoveToDone, WorkerFinishes, Cards
    <3>2. QED
      BY <3>1 DEF Live, Terminal
  <2>5. CASE StallSweep(c)
    <3>1. card[c].state # "done" /\ (InFlight(c) => card'[c].worker = "failed")
          /\ (~InFlight(c) => card'[c].worker = card[c].worker)
      BY <1>1, <1>3, <2>5 DEF StallSweep, Cards
    <3>2. QED
      BY <3>1 DEF Live, Terminal, InFlight
  <2>6. CASE WorkerClaims(c)
    BY <2>6 DEF WorkerClaims, Live, Terminal, InFlight
  <2>7. CASE WorkerEnds(c)
    <3>1. PICK last \in {"failed", "parked", "none"} :
            card' = [card EXCEPT ![c].box = "none",
                                 ![c].worker = IF Terminal(c) THEN "none"
                                               ELSE IF InFlight(c) THEN last ELSE @]
      BY <2>7 DEF WorkerEnds
    <3>2. /\ card'[c].worker = IF Terminal(c) THEN "none"
                               ELSE IF InFlight(c) THEN last ELSE card[c].worker
          /\ card'[c].state = card[c].state
      BY <1>1, <1>3, <3>1 DEF Cards
    <3>3. QED
      BY <3>2 DEF Live, Terminal, InFlight
  <2>8. CASE WorkerLost(c)
    <3>1. card'[c].worker \in {"none", "failed"}
      BY <1>1, <1>3, <2>8 DEF WorkerLost, Cards
    <3>2. QED
      BY <3>1 DEF Live, InFlight
  <2>9. QED
    BY <1>3, <2>1, <2>2, <2>3, <2>4, <2>5, <2>6, <2>7, <2>8 DEF PersonOrWorker, CardAct
<1>4. QED
  BY <1>2, <1>3

LEMMA PassWakes ==
    ASSUME Typed, NEW w \in Slot, Decided(w), Passing(w), NEW c \in Card, Live(c)', ~Live(c)
    PROVE  walk[w].pc = "queue" /\ walk'[w].pc = "trigger"
<1> DEFINE e == Frontier(w)
<1>1. card \in [Card -> Cards] /\ walk \in [Slot -> Walks]
  BY DEF Typed
<1>2. walk[w].pc \in {"prepare", "queue", "trigger"} => e \in Card /\ card[e] \in Cards
  BY <1>1 DEF Decided, Launching
<1>3. CASE Queue(w)
  <2>1. walk[w].pc = "queue" /\ Goto(w, "trigger", walk[w].pass)
    BY <1>3 DEF Queue, At
  <2>2. QED
    BY <1>1, <2>1 DEF Goto, Walks
<1>4. CASE Trigger(w)
  <2>1. e \in Card /\ card' = [card EXCEPT ![e].box = "run"]
    BY <1>2, <1>4 DEF Trigger, At
  <2>2. card'[c].state = card[c].state /\ card'[c].worker = card[c].worker
    BY <1>1, <2>1 DEF Cards
  <2>3. QED
    BY <2>2 DEF Live, Terminal, InFlight
<1>5. CASE TriggerFails(w)
  <2>1. /\ e \in Card
        /\ card' = [card EXCEPT ![e].box = "none",
                                ![e].worker = IF Terminal(e) THEN "none" ELSE "failed"]
    BY <1>2, <1>5 DEF TriggerFails, At
  <2>2. /\ card'[c].state = card[c].state
        /\ card'[c].worker \in {card[c].worker, "none", "failed"}
    BY <1>1, <2>1 DEF Cards
  <2>3. QED
    BY <2>2 DEF Live, Terminal, InFlight
<1>6. CASE Prepare(w) \/ (PrepareFails(w) /\ ~Terminal(e) /\ card' = Moved(e, "todo"))
  <2>1. /\ e \in Card /\ ~Terminal(e)
        /\ card' = [card EXCEPT ![e].state = "todo",
                                ![e].worker = IF @ = "failed" THEN "none" ELSE @]
    BY <1>2, <1>6 DEF Prepare, PrepareFails, At, Moved
  <2>2. /\ card'[c].worker \in {card[c].worker, "none"}
        /\ c # e => card'[c].state = card[c].state
    BY <1>1, <2>1 DEF Cards
  <2>3. QED
    BY <2>1, <2>2 DEF Live, Terminal, InFlight
<1>7. CASE UNCHANGED card
  BY <1>7 DEF Live, Terminal, InFlight
<1>8. QED
  BY <1>3, <1>4, <1>5, <1>6, <1>7 DEF Passing, Hold, Skip, AllComplete, Consider, PrepareFails,
     RunWriteRefused, Launch, QueueFails

LEMMA LiveOnly ==
    ASSUME Typed, \A w \in Slot : Decided(w), [Next]_vars, NEW c \in Card, Live(c)', ~Live(c)
    PROVE  \/ \E w \in Slot : Passing(w) /\ walk[w].pc = "queue" /\ walk'[w].pc = "trigger"
           \/ slipped' \/ ~(Active(playbook.run) /\ c \in ToSet(playbook.entries))
<1>1. ASSUME UNCHANGED card PROVE FALSE
  BY <1>1 DEF Live, Terminal, InFlight
<1>2. CASE \E w \in Slot : Passing(w)
  BY <1>2, PassWakes
<1>3. CASE \E d \in Card : PersonOrWorker(d)
  BY <1>3, CardWakes
<1>4. CASE \E d \in Card : Kill(d) \/ KillFails(d)
  <2>1. card \in [Card -> Cards]
    BY DEF Typed
  <2>2. PICK d \in Card : Kill(d) \/ KillFails(d)
    BY <1>4
  <2>3. card'[c].state = card[c].state /\ card'[c].worker \in {card[c].worker, "failed"}
    BY <2>1, <2>2 DEF Kill, KillFails, Cards
  <2>4. QED
    BY <2>3 DEF Live, Terminal, InFlight
<1>5. CASE \E w \in Slot : Deciding(w)
  BY <1>1, <1>5, DecidingOnly
<1>6. CASE \/ UNCHANGED vars \/ Play \/ Stop \/ EditAnswered \/ Shutdown \/ Restart
           \/ \E e \in Entry : AddEntry(e) \/ RemoveEntry(e)
           \/ \E m \in Manual : CheckOff(m)
           \/ SetRunnable
  BY <1>1, <1>6 DEF vars, Play, Stop, EditAnswered, Shutdown, Restart, AddEntry, RemoveEntry,
     CheckOff, SetRunnable, Edit
<1>7. CASE PlayCommitted \/ PlayFails \/ CallEnsure \/ StopCommitted \/ StopWriteFails
           \/ CancelWalker \/ Joined \/ StopWaitExpires \/ StopReturns
  BY <1>1, <1>7 DEF PlayCommitted, PlayFails, CallEnsure, StopCommitted, StopWriteFails,
     CancelWalker, Joined, StopWaitExpires, StopReturns
<1>8. QED
  BY <1>2, <1>3, <1>4, <1>5, <1>6, <1>7 DEF Next, WalkerStep, ControlStep, Passing, Deciding,
     PersonOrWorker

LEMMA HeldInit == Init => Held
BY DEF Init, Held, MidPass, Gone

LEMMA HeldStep ==
    ASSUME Typed, \A w \in Slot : Decided(w), Registry, Locks, Held, [Next]_vars
    PROVE  Held'
<1> USE DEF Excused
<1> DEFINE Reads(w) == MidPass(w) /\ walk[w].pass.run = playbook.run
           Own(w) == ToSet(walk[w].pass.entries) \cap ToSet(playbook.entries)
<1>1. playbook \in Books /\ Sound(playbook) /\ mutex.old \in Books
  BY DEF Typed
<1>2. ASSUME NEW w \in Slot, MidPass(w), PastHold(w) PROVE Active(walk[w].pass.run)
  BY <1>2 DEF Decided, PastHold, Launching, Active
<1>3. ASSUME NEW w \in Slot, Passing(w) PROVE Held'
  <2>1. /\ walk[w].prev = 0 /\ walk[w].pc \in InPass /\ UNCHANGED <<playbook, undone, slipped>>
        /\ walk'[w].pc # "idle" => /\ walk'[w].pass.run = walk[w].pass.run
                                   /\ walk'[w].pass.entries = walk[w].pass.entries
        /\ \A v \in Slot \ {w} : walk'[v] = walk[v]
        /\ PastHold(w)' => \/ PastHold(w)
                           \/ \A c \in Card \cap ToSet(walk[w].pass.entries) : ~Live(c)
    BY <1>3, PassingOnly
  <2>2. \A v \in Slot \ {w} : ~MidPass(v) /\ ~MidPass(v)'
    <3>1. Exists(w)
      BY <2>1 DEF Exists, InPass
    <3>2. \A v \in Slot \ {w} : ~MidPass(v)
      BY <2>1, <3>1, InPassAlone
    <3>3. QED
      BY <2>1, <3>2 DEF MidPass
  <2> SUFFICES ASSUME ~Excused', Reads(w)'
               PROVE  /\ ToSet(walk'[w].pass.entries) \subseteq playbook'.ids
                      /\ PastHold(w)' => \A c \in Card \cap Own(w)' : ~Live(c)'
    BY <2>2 DEF Held
  <2>3. Reads(w) /\ walk'[w].pass.entries = walk[w].pass.entries
    BY <2>1 DEF MidPass, InPass
  <2>4. ToSet(walk[w].pass.entries) \subseteq playbook.ids
    BY <2>1, <2>3 DEF Held
  <2>5. ASSUME PastHold(w)', NEW c \in Card \cap Own(w), Live(c)' PROVE FALSE
    <3>1. ~Live(c)
      BY <2>1, <2>3, <2>5 DEF Held
    <3>2. Active(playbook.run)
      BY <2>1, <2>3 DEF Decided, InPass
    <3>3. ASSUME NEW v \in Slot, Passing(v), walk[v].pc = "queue", walk'[v].pc = "trigger"
          PROVE  FALSE
      <4>1. v = w
        BY <2>2, <3>3 DEF MidPass
      <4>2. QED
        BY <2>5, <3>3, <4>1 DEF PastHold, Launching
    <3>4. QED
      BY <2>5, <3>1, <3>2, <3>3, LiveOnly
  <2>6. QED
    BY <2>1, <2>3, <2>4, <2>5
<1>4. ASSUME NEW w \in Slot, Deciding(w) PROVE Held'
  <2>1. /\ Exists(w) /\ walk[w].prev = 0 /\ UNCHANGED <<card, undone, slipped>>
        /\ \A v \in Slot \ {w} : walk'[v].pc = walk[v].pc /\ walk'[v].pass = walk[v].pass
    BY <1>4, DecidingOnly
  <2>2. \A v \in Slot \ {w} : ~MidPass(v)'
    BY <2>1, InPassAlone DEF MidPass
  <2>3. \A c \in Card : Live(c)' <=> Live(c)
    BY <2>1 DEF Live, Terminal, InFlight
  <2>4. CASE ~MidPass(w)'
    BY <2>2, <2>4 DEF Held
  <2>5. CASE /\ walk'[w].pc = "hold" /\ walk'[w].pass.entries = playbook.entries
             /\ UNCHANGED playbook
    <3>1. ~PastHold(w)'
      BY <2>5 DEF PastHold, Launching
    <3>2. QED
      BY <1>1, <2>2, <2>5, <3>1 DEF Held, Sound
  <2>6. CASE /\ walk[w].pc = "write" /\ Unchanged(w)
             /\ playbook' = [playbook EXCEPT !.run = playbook'.run]
             /\ walk'[w].pc = "commit" /\ walk'[w].pass.entries = walk[w].pass.entries
             /\ walk'[w].pass.then = walk[w].pass.then
    <3>1. playbook'.entries = playbook.entries /\ playbook'.ids = playbook.ids
      BY <1>1, <2>6 DEF Books
    <3>2. Reads(w) /\ (PastHold(w)' => PastHold(w))
      BY <2>6 DEF MidPass, Unchanged, PastHold, Launching
    <3>3. QED
      BY <2>1, <2>2, <2>3, <2>6, <3>1, <3>2 DEF Held
  <2>7. CASE /\ walk[w].pc = "commit" /\ playbook' = playbook
             /\ walk'[w].pc = "launch" /\ walk'[w].pass = walk[w].pass
             /\ walk[w].pass.then = "launch"
    <3>1. MidPass(w) /\ PastHold(w)
      BY <2>7 DEF MidPass, PastHold, Launching
    <3>2. QED
      BY <2>1, <2>2, <2>3, <2>7, <3>1 DEF Held
  <2>8. QED
    BY <1>4, <2>4, <2>5, <2>6, <2>7, DecidingOnly
<1>5. ASSUME CardOnly \/ EditStep \/ EditAnswered \/ Play \/ Stop \/ ControlStep \/ Shutdown
             \/ Restart,
             ~\E w \in Slot : Passing(w)
      PROVE  Held'
  <2>1. \A w \in Slot : MidPass(w)' =>
          /\ MidPass(w) /\ walk'[w].pc = walk[w].pc /\ walk'[w].pass = walk[w].pass
    BY <1>5, OthersOnly
  <2>2. \A w \in Slot : MidPass(w)' /\ PastHold(w)' => PastHold(w)
    BY <2>1 DEF PastHold, Launching
  <2>3. ASSUME UNCHANGED playbook, ~Excused' => ~Excused PROVE Held'
    <3> SUFFICES ASSUME ~Excused', NEW w \in Slot, Reads(w)'
                 PROVE  /\ ToSet(walk'[w].pass.entries) \subseteq playbook'.ids
                        /\ PastHold(w)' => \A c \in Card \cap Own(w)' : ~Live(c)'
      BY DEF Held
    <3>1. Reads(w) /\ walk'[w].pass = walk[w].pass
      BY <2>1, <2>3
    <3>2. ToSet(walk[w].pass.entries) \subseteq playbook.ids
      BY <2>3, <3>1 DEF Held
    <3>3. ASSUME PastHold(w)', NEW c \in Card \cap Own(w), Live(c)' PROVE FALSE
      <4>1. PastHold(w) /\ ~Live(c)
        BY <2>2, <2>3, <3>1, <3>3 DEF Held
      <4>2. Active(playbook.run)
        BY <1>2, <3>1, <4>1
      <4>3. QED
        BY <1>5, <3>3, <4>1, <4>2, LiveOnly
    <3>4. QED
      BY <2>3, <3>1, <3>2, <3>3
  <2>4. ASSUME Excused' PROVE Held'
    BY <2>4 DEF Held
  <2>5. CASE CardOnly \/ Shutdown \/ Restart
    BY <2>3, <2>5, RestartOnly DEF CardOnly, Shutdown, history
  <2>6. CASE EditStep
    <3>1. /\ mutex.by = "nobody" /\ UNCHANGED <<card, undone, slipped>>
          /\ playbook.ids \subseteq playbook'.ids
          /\ Active(playbook'.run) => playbook'.run = playbook.run
          /\ \A e \in ToSet(playbook'.entries) : e \in ToSet(playbook.entries)
                                                 \/ e \notin playbook.ids
      BY <2>6 DEF EditStep
    <3> SUFFICES ASSUME ~Excused', NEW w \in Slot, Reads(w)'
                 PROVE  /\ ToSet(walk'[w].pass.entries) \subseteq playbook'.ids
                        /\ PastHold(w)' => \A c \in Card \cap Own(w)' : ~Live(c)'
      BY DEF Held
    <3>2. MidPass(w) /\ walk'[w].pass = walk[w].pass
      BY <2>1
    <3>3. walk[w].pc # "commit"
      BY <3>1 DEF Locks
    <3>4. Active(walk[w].pass.run)
      BY <3>2, <3>3 DEF Decided
    <3>5. Reads(w)
      BY <3>1, <3>2, <3>4
    <3>6. ToSet(walk[w].pass.entries) \subseteq playbook.ids
      BY <3>1, <3>5 DEF Held
    <3>7. ToSet(walk[w].pass.entries) \cap ToSet(playbook'.entries) \subseteq Own(w)
      BY <3>1, <3>6
    <3>8. PastHold(w)' => \A c \in Card \cap Own(w) : ~Live(c)
      BY <2>2, <3>1, <3>5 DEF Held
    <3>9. \A c \in Card : Live(c)' <=> Live(c)
      BY <3>1 DEF Live, Terminal, InFlight
    <3>10. QED
      BY <3>1, <3>2, <3>6, <3>7, <3>8, <3>9
  <2>7. CASE Play \/ Stop
    <3>1. \A w \in Slot : ~Reads(w)'
      BY <2>1, <2>7, NewBlock
    <3>2. QED
      BY <3>1 DEF Held
  <2>8. CASE PlayFails
    <3>1. mutex.by = "play" /\ ~Active(mutex.old.run) /\ playbook' = mutex.old
      BY <2>8 DEF PlayFails, Control, RolledBack, Locks
    <3>2. ASSUME NEW w \in Slot, Reads(w)' PROVE FALSE
      <4>1. MidPass(w) /\ walk'[w].pass = walk[w].pass /\ walk[w].pc # "commit"
        BY <2>1, <3>1, <3>2 DEF Locks
      <4>2. Active(walk[w].pass.run)
        BY <4>1 DEF Decided
      <4>3. QED
        BY <3>1, <3>2, <4>1, <4>2
    <3>3. QED
      BY <3>2 DEF Held
  <2>9. CASE EditAnswered \/ StopWriteFails
    BY <2>3, <2>4, <2>9 DEF EditAnswered, StopWriteFails, Committed
  <2>10. CASE PlayCommitted \/ CallEnsure \/ StopCommitted \/ CancelWalker \/ Joined
              \/ StopWaitExpires \/ StopReturns \/ \E c \in Card : Kill(c) \/ KillFails(c)
    BY <2>3, <2>10 DEF PlayCommitted, CallEnsure, StopCommitted, CancelWalker, Joined,
       StopWaitExpires, StopReturns, Kill, KillFails, Committed, history
  <2>11. QED
    BY <1>5, <2>5, <2>6, <2>7, <2>8, <2>9, <2>10 DEF ControlStep
<1>6. QED
  BY <1>3, <1>4, <1>5, StepKinds

-----------------------------------------------------------------------------
(* What a Stop that is not excused waits for and kills.                     *)

\* With no walker that could be registered or was cancelled, none is in a pass.
LEMMA NobodyInPass ==
    ASSUME Typed, Registry, walker = 0, exiting = 0, NEW w \in Slot
    PROVE  ~MidPass(w)
BY DEF Registry, Newest, MidPass, Exists

LEMMA QuietingInit == Init => Quieting /\ Settled
BY DEF Init, Quiet, Quieting, Settled

\* What a step owes the cards that are launched.
LEMMA AmongKept ==
    ASSUME Typed, Locks, Known, [Next]_vars,
           \A w \in Slot : ~RunWrite(w),
           NEW c \in Card, LaunchedLive(c)', LaunchedLive(c),
           c \in ToSet(playbook'.entries) \/ (mutex'.by = "edit" /\ c \in ToSet(mutex'.old.entries))
    PROVE  c \in ToSet(playbook.entries) \/ (mutex.by = "edit" /\ c \in ToSet(mutex.old.entries))
<1>1. playbook \in Books /\ mutex.old \in Books
  BY DEF Typed
<1>2. CASE UNCHANGED <<playbook, mutex>>
  BY <1>2
<1>3. ASSUME mutex' = Unlocked, playbook' = playbook PROVE c \in ToSet(playbook.entries)
  BY <1>3, RunOfUnlocked
<1>4. ASSUME mutex' = Unlocked, playbook' = mutex.old,
             mutex.by \in {"edit", "play", "stop", "walker"}
      PROVE  c \in ToSet(playbook.entries) \/ (mutex.by = "edit" /\ c \in ToSet(mutex.old.entries))
  <2>1. mutex.by # "edit" => playbook.entries = mutex.old.entries
    <3>1. mutex.by # "edit" => [mutex.old EXCEPT !.run = playbook.run] = playbook
      BY <1>4 DEF Locks
    <3>2. QED
      BY <1>1, <3>1 DEF Books
  <2>2. QED
    BY <1>4, <2>1, RunOfUnlocked
<1>5. CASE EditStep
  <2>1. c \in ToSet(playbook'.entries) => c \in ToSet(playbook.entries)
    BY <1>5, EditAddsNone
  <2>2. QED
    BY <1>5, <2>1 DEF EditStep
<1>6. ASSUME mutex'.by \in {"play", "stop"}, playbook' = [playbook EXCEPT !.run = playbook'.run]
      PROVE  c \in ToSet(playbook.entries)
  BY <1>1, <1>6 DEF Books
<1>7. ASSUME NEW w \in Slot, Deciding(w)
      PROVE  \/ UNCHANGED <<playbook, mutex>>
             \/ /\ mutex' = Unlocked /\ playbook' \in {playbook, mutex.old}
                /\ mutex.by = "walker"
  <2>1. CASE RunCommitted(w) \/ RunCommitFails(w)
    BY <2>1, AnsweredOnly DEF Locks
  <2>2. CASE Return(w) \/ PassRead(w) \/ Release(w)
    BY <2>2 DEF Return, PassRead, Release
  <2>3. QED
    BY <1>7, <2>1, <2>2 DEF Deciding
<1>8. CASE \E w \in Slot : Passing(w)
  <2>1. UNCHANGED <<playbook, mutex>>
    BY <1>8 DEF Passing, Hold, Skip, AllComplete, Consider, Prepare, PrepareFails,
       RunWriteRefused, Launch, Queue, QueueFails, Trigger, TriggerFails
  <2>2. QED
    BY <1>2, <2>1
<1>9. CASE \E w \in Slot : Deciding(w)
  BY <1>2, <1>3, <1>4, <1>7, <1>9
<1>10. CASE CardOnly \/ EditStep \/ EditAnswered \/ Play \/ Stop \/ ControlStep \/ Shutdown
            \/ Restart
  BY <1>2, <1>3, <1>4, <1>5, <1>6, <1>10, StoreOnly
<1>11. QED
  BY <1>8, <1>9, <1>10, StepKinds

LEMMA QuietingStep ==
    ASSUME Typed, \A w \in Slot : Decided(w), Registry, Locks, Known, Quieting, [Next]_vars
    PROVE  Quieting'
<1> DEFINE Stopping(pc) == pc \in {"stopCommit", "cancel", "join", "kill"}
           Owing == Stopping(control.pc) /\ ~control.excused
           Aims == \A v \in Slot : MidPass(v) => walk[v].pass.run.entry \notin Card \ control.targets
           Chain == /\ control.pc \in {"stopCommit", "cancel"} => exiting = 0
                    /\ control.pc = "join" => walker = 0 /\ control.join = exiting
                    /\ control.pc = "kill" => walker = 0 /\ exiting = 0
<1>1. /\ walk \in [Slot -> Walks] /\ control \in Controls /\ playbook \in Books
      /\ walker \in Slot \cup {0} /\ exiting \in Slot \cup {0} /\ 0 \notin Slot
  BY RunAssumption DEF Typed
<1>2. ASSUME ~Stopping(control'.pc) \/ control'.excused PROVE Quieting'
  BY <1>2 DEF Quieting
<1>3. ASSUME Owing => AmongAll(control.targets)' /\ Aims' /\ Chain', Owing' => Owing,
             control'.targets = control.targets
      PROVE  Quieting'
  BY <1>3 DEF Quieting, AmongAll, Among
<1>4. Owing => AmongAll(control.targets) /\ Aims /\ Chain
  BY DEF Quieting
<1>5. Owing => \A v \in Slot : ~RunWrite(v)
  BY DEF RunWrite, Unchanged, Locks
\* While such a Stop goes on, only its targets are launched.
<1>6. ASSUME Owing, NEW c \in Card, LaunchedLive(c)',
             c \in ToSet(playbook'.entries) \/ (mutex'.by = "edit" /\ c \in ToSet(mutex'.old.entries))
      PROVE  c \in control.targets
  <2>1. CASE LaunchedLive(c)
    <3>1. c \in ToSet(playbook.entries) \/ (mutex.by = "edit" /\ c \in ToSet(mutex.old.entries))
      BY <1>5, <1>6, <2>1, AmongKept
    <3>2. QED
      BY <1>4, <1>6, <2>1, <3>1 DEF AmongAll, Among
  <2>2. CASE ~LaunchedLive(c)
    <3>1. PICK w \in Slot : walk[w].pc \in {"queue", "trigger"} /\ walk[w].pass.run.entry = c
      BY <1>6, <2>2, LaunchesOnly
    <3>2. QED
      BY <1>4, <1>6, <3>1 DEF MidPass
  <2>3. QED
    BY <2>1, <2>2
<1>7. Owing /\ control'.targets = control.targets => AmongAll(control.targets)'
  BY <1>6 DEF AmongAll, Among
<1>8. ASSUME NEW w \in Slot, Passing(w) PROVE Quieting'
  <2>1. /\ walk[w].pc \in InPass /\ UNCHANGED <<walker, exiting, control>>
        /\ walk'[w].pc # "idle" => walk'[w].pass.run = walk[w].pass.run
        /\ \A v \in Slot \ {w} : walk'[v] = walk[v]
    BY <1>8, PassingOnly
  <2>2. Owing => Aims'
    BY <1>4, <2>1 DEF MidPass, InPass
  <2>3. QED
    BY <1>3, <1>4, <1>7, <2>1, <2>2
<1>9. ASSUME NEW w \in Slot, Deciding(w) PROVE Quieting'
  <2>1. /\ control'.pc = control.pc /\ control'.targets = control.targets
        /\ control'.excused = control.excused
        /\ walker' \in {walker, 0} /\ exiting' \in {exiting, 0}
        /\ control.join = exiting => control'.join = exiting'
        /\ \A v \in Slot \ {w} : walk'[v].pc = walk[v].pc /\ walk'[v].pass = walk[v].pass
    BY <1>9, DecidingOnly
  <2>2. Owing => ~MidPass(w)'
    <3> SUFFICES ASSUME Owing PROVE ~MidPass(w)'
      OBVIOUS
    <3>1. ~Active(playbook.run) /\ mutex.by # "walker"
      BY DEF Locks
    <3>2. walk[w].pc # "commit"
      BY <3>1 DEF Locks
    <3>3. QED
      BY <1>9, <3>1, <3>2, DecidingOnly DEF Unchanged
  <2>3. Owing => Aims'
    BY <1>4, <2>1, <2>2 DEF MidPass
  <2>4. Owing => Chain'
    BY <1>4, <2>1
  <2>5. QED
    BY <1>3, <1>7, <2>1, <2>3, <2>4
<1>10. ASSUME CardOnly \/ EditStep \/ EditAnswered \/ Play \/ Stop \/ ControlStep \/ Shutdown
              \/ Restart
       PROVE  Quieting'
  <2>1. \A v \in Slot : MidPass(v)' => MidPass(v) /\ walk'[v].pass = walk[v].pass
    BY <1>10, OthersOnly
  <2>2. control'.targets = control.targets /\ Owing => Aims'
    BY <1>4, <2>1
  <2>3. CASE CardOnly \/ EditStep \/ EditAnswered \/ Shutdown
    <3>1. UNCHANGED <<walker, exiting, control>>
      BY <2>3 DEF CardOnly, EditStep, EditAnswered, Shutdown, runnerVars
    <3>2. QED
      BY <1>3, <1>4, <1>7, <2>2, <3>1
  <2>4. CASE Play
    <3>1. control'.pc = "playCommit"
      BY <1>1, <2>4 DEF Play, Control, Controls
    <3>2. QED
      BY <1>2, <3>1
  <2>5. CASE Stop
    <3>1. PICK run \in Runs :
              /\ mutex.by = "nobody" /\ mutex' = [by |-> "stop", old |-> playbook]
              /\ playbook' = [playbook EXCEPT !.run = run]
              /\ control'.pc = "stopCommit" /\ control'.targets = StopTargets
              /\ control'.excused = (Stray = TRUE)
      BY <2>5, StopOnly
    <3>2. UNCHANGED <<card, walker, exiting, walk>>
      BY <2>5 DEF Stop, runnerVars
    <3>3. CASE Stray
      BY <1>2, <3>1, <3>3
    <3>4. CASE ~Stray
      <4>1. exiting = 0 /\ \A v \in Slot : MidPass(v) => walk[v].pass.run = playbook.run
        BY <3>4 DEF Stray
      <4>2. playbook.run.entry \in Card => playbook.run.entry \in StopTargets
        <5>1. playbook.run.entry \in ToSet(playbook.entries) \cup {NoEntry} /\ NoEntry \notin Card
          BY RunAssumption DEF Typed, Sound, Entry
        <5>2. QED
          BY <5>1 DEF StopTargets
      <4>3. Aims'
        BY <2>1, <3>1, <4>1, <4>2
      <4>4. Chain'
        BY <3>1, <3>2, <4>1
      <4>5. AmongAll(control.targets)'
        <5>1. playbook'.entries = playbook.entries /\ mutex'.by # "edit"
          BY <1>1, <3>1 DEF Books
        <5>2. \A c \in Card \cap ToSet(playbook.entries) : LaunchedLive(c)' => c \in StopTargets
          BY <3>2 DEF StopTargets, LaunchedLive, Live, Terminal, InFlight
        <5>3. QED
          BY <3>1, <5>1, <5>2 DEF AmongAll, Among
      <4>6. QED
        BY <4>3, <4>4, <4>5 DEF Quieting
    <3>5. QED
      BY <3>3, <3>4
  <2>6. CASE ControlStep
    <3>1. CASE PlayCommitted \/ PlayFails \/ CallEnsure \/ StopWriteFails \/ StopWaitExpires
               \/ StopReturns
      <4>1. control'.pc \in {"ensure", "idle"}
        BY <1>1, <3>1 DEF PlayCommitted, PlayFails, CallEnsure, StopWriteFails, StopWaitExpires,
           StopReturns, Control, Controls, Quiet
      <4>2. QED
        BY <1>2, <4>1
    <3>2. CASE StopCommitted \/ Joined
      <4>1. /\ UNCHANGED <<walker, exiting>> /\ control'.targets = control.targets
            /\ control'.excused = control.excused /\ control'.join = control.join
            /\ \/ control.pc = "stopCommit" /\ control'.pc = "cancel"
               \/ control.pc = "join" /\ control.join = 0 /\ control'.pc = "kill"
        BY <1>1, <3>2 DEF StopCommitted, Joined, Control, Controls, runnerVars
      <4>2. Owing => Chain'
        BY <1>4, <4>1
      <4>3. QED
        BY <1>3, <1>7, <2>2, <4>1, <4>2
    <3>3. CASE CancelWalker
      <4>1. /\ control.pc = "cancel" /\ control'.pc = "join" /\ control'.join = walker
            /\ control'.excused = control.excused /\ control'.targets = control.targets
            /\ walker' = 0 /\ exiting' = IF walker = 0 THEN exiting ELSE walker
        BY <1>1, <3>3, CancelOnly
      <4>2. Owing => Chain'
        BY <1>4, <4>1
      <4>3. QED
        BY <1>3, <1>7, <2>2, <4>1, <4>2
    <3>4. ASSUME NEW c \in Card, KillFails(c) PROVE Quieting'
      <4>1. control'.excused = TRUE
        BY <1>1, <3>4 DEF KillFails, Controls
      <4>2. QED
        BY <1>2, <4>1
    <3>5. ASSUME NEW c \in Card, Kill(c) PROVE Quieting'
      <4>1. /\ control.pc = "kill" /\ control'.pc = "kill"
            /\ control'.targets = control.targets \ {c}
            /\ control'.excused = control.excused
            /\ UNCHANGED <<walker, exiting, walk, playbook, mutex>>
        BY <1>1, <3>5 DEF Kill, Controls, runnerVars
      <4>2. ASSUME Owing
            PROVE  AmongAll(control.targets)' /\ Aims' /\ Chain'
        <5>1. walker = 0 /\ exiting = 0
          BY <1>4, <4>1, <4>2
        <5>2. \A v \in Slot : ~MidPass(v)'
          BY <2>1, <5>1, NobodyInPass
        <5>3. ~LaunchedLive(c)'
          BY <3>5, KillsOnly
        <5>4. AmongAll(control.targets)'
          BY <1>6, <4>1, <4>2, <5>3 DEF AmongAll, Among
        <5>5. QED
          BY <4>1, <5>1, <5>2, <5>4
      <4>3. QED
        BY <4>1, <4>2 DEF Quieting
    <3>6. QED
      BY <2>6, <3>1, <3>2, <3>3, <3>4, <3>5 DEF ControlStep
  <2>7. CASE Restart
    <3>1. control'.pc = "idle"
      BY <2>7, RestartOnly DEF Quiet
    <3>2. QED
      BY <1>2, <3>1
  <2>8. QED
    BY <1>10, <2>3, <2>4, <2>5, <2>6, <2>7
<1>11. QED
  BY <1>8, <1>9, <1>10, StepKinds

LEMMA SettledStep ==
    ASSUME Typed, \A w \in Slot : Decided(w), Registry, Locks, Known, Quieting, Settled,
           [Next]_vars
    PROVE  Settled'
<1>1. /\ control \in Controls /\ playbook \in Books /\ stopOk \in BOOLEAN
  BY DEF Typed
<1>2. ASSUME stopOk' = stopOk, \A v \in Slot : ~MidPass(v)' \/ MidPass(v),
             \A v \in Slot : ~RunWrite(v),
             stopOk => /\ control'.pc = "idle" /\ ~Active(playbook'.run)
                       /\ mutex'.by \in {"nobody", "edit"}
      PROVE  Settled'
  <2> SUFFICES ASSUME stopOk PROVE AmongAll({})' /\ \A v \in Slot : ~MidPass(v)'
    BY <1>2 DEF Settled, Active
  <2>1. \A v \in Slot : ~MidPass(v) /\ ~MidPass(v)'
    BY <1>2 DEF Settled
  <2>2. ASSUME NEW c \in Card, LaunchedLive(c)',
               c \in ToSet(playbook'.entries) \/ (mutex'.by = "edit" /\ c \in ToSet(mutex'.old.entries))
        PROVE  FALSE
    <3>1. LaunchedLive(c)
      BY <2>1, <2>2, LaunchesOnly DEF MidPass
    <3>2. c \in ToSet(playbook.entries) \/ (mutex.by = "edit" /\ c \in ToSet(mutex.old.entries))
      BY <1>2, <2>2, <3>1, AmongKept
    <3>3. QED
      BY <3>1, <3>2 DEF Settled, AmongAll, Among
  <2>3. QED
    BY <2>1, <2>2 DEF AmongAll, Among
<1>3. ASSUME ~stopOk' PROVE Settled'
  BY <1>3 DEF Settled
<1>4. stopOk => \A v \in Slot : ~RunWrite(v)
  BY DEF RunWrite, At, Settled, MidPass
<1>5. ASSUME NEW w \in Slot, Passing(w) PROVE Settled'
  <2>1. walk[w].pc \in InPass /\ stopOk' = stopOk
    BY <1>5, PassingOnly
  <2>2. ~stopOk
    BY <2>1 DEF Settled, MidPass, InPass
  <2>3. QED
    BY <1>3, <2>1, <2>2
<1>6. ASSUME NEW w \in Slot, Deciding(w) PROVE Settled'
  <2>1. stopOk' = stopOk
    BY <1>6, DecidingOnly
  <2>2. CASE stopOk
    <3>1. /\ control'.pc = control.pc
          /\ \A v \in Slot \ {w} : walk'[v].pc = walk[v].pc
      BY <1>6, DecidingOnly
    <3>2. ~Active(playbook.run) /\ walk[w].pc # "commit" /\ walk[w].pc # "write"
      BY <2>2 DEF Settled, MidPass
    <3>3. ~MidPass(w)' /\ UNCHANGED <<playbook, mutex>>
      BY <1>6, <3>2, DecidingOnly
    <3>4. QED
      BY <1>2, <1>4, <2>1, <2>2, <3>1, <3>3 DEF Settled, MidPass, Active
  <2>3. QED
    BY <1>3, <2>1, <2>2
<1>7. ASSUME CardOnly \/ EditStep \/ EditAnswered \/ Play \/ Stop \/ ControlStep \/ Shutdown
             \/ Restart
      PROVE  Settled'
  <2>1. \A v \in Slot : ~MidPass(v)' \/ MidPass(v)
    BY <1>7, OthersOnly
  <2>2. CASE CardOnly \/ Shutdown
    BY <1>2, <1>3, <1>4, <2>1, <2>2 DEF CardOnly, Shutdown, history, Settled, Active
  <2>3. CASE EditStep
    BY <1>2, <1>3, <1>4, <2>1, <2>3 DEF EditStep, Settled, Active
  <2>4. CASE EditAnswered
    <3>1. /\ mutex.by = "edit" /\ mutex'.by = "nobody" /\ playbook' \in {playbook, mutex.old}
          /\ UNCHANGED <<control, stopOk>>
      BY <2>4, RunOfUnlocked DEF EditAnswered, Committed, RolledBack
    <3>2. Active(playbook'.run) => Active(playbook.run)
      BY <3>1 DEF Locks
    <3>3. QED
      BY <1>2, <1>3, <1>4, <2>1, <3>1, <3>2 DEF Settled
  <2>5. CASE Play \/ Stop
    <3>1. ~stopOk'
      BY <2>5 DEF Play, Stop, Settled, history
    <3>2. QED
      BY <1>3, <3>1
  <2>6. CASE ControlStep
    <3>1. CASE StopReturns
      <4>1. /\ control.pc = "kill" /\ control.targets = {} /\ control'.pc = "idle"
            /\ stopOk' = ~control.excused /\ UNCHANGED <<card, playbook, mutex, walk>>
        BY <3>1 DEF StopReturns, Quiet, runnerVars
      <4>2. CASE ~control.excused
        <5>1. AmongAll({}) /\ walker = 0 /\ exiting = 0
          BY <4>1, <4>2 DEF Quieting
        <5>2. \A v \in Slot : ~MidPass(v)
          BY <5>1, NobodyInPass
        <5>3. ~Active(playbook.run) /\ mutex.by \in {"nobody", "edit"}
          BY <4>1 DEF Locks
        <5>4. AmongAll({})'
          BY <4>1, <5>1 DEF AmongAll, Among, LaunchedLive, Live, Terminal, InFlight
        <5>5. QED
          BY <4>1, <5>2, <5>3, <5>4 DEF Settled, MidPass, Active
      <4>3. QED
        BY <1>3, <4>1, <4>2
    <3>2. CASE ~StopReturns
      <4>1. control.pc # "idle" /\ stopOk' = stopOk
        BY <2>6, <3>2 DEF ControlStep, PlayCommitted, PlayFails, CallEnsure, StopCommitted,
           StopWriteFails, CancelWalker, Joined, StopWaitExpires, Kill, KillFails, Control,
           history
      <4>2. QED
        BY <1>3, <4>1 DEF Settled
    <3>3. QED
      BY <3>1, <3>2
  <2>7. CASE Restart
    <3>1. /\ control'.pc = "idle" /\ mutex'.by = "nobody" /\ UNCHANGED <<playbook, stopOk>>
      BY <2>7, RestartOnly, RunOfUnlocked DEF Quiet
    <3>2. QED
      BY <1>2, <1>3, <1>4, <2>1, <3>1 DEF Settled
  <2>8. QED
    BY <1>7, <2>2, <2>3, <2>4, <2>5, <2>6, <2>7
<1>8. QED
  BY <1>5, <1>6, <1>7, StepKinds

-----------------------------------------------------------------------------
(* Who writes a card while another is being reopened.                       *)

LEMMA RequestedInit == Init => Requested
BY DEF Init, Requested

\* The steps that write no state of a card need no lock.
LEMMA StateKept ==
    ASSUME card \in [Card -> Cards], Requested, UNCHANGED requests,
           Writable \/ \A c \in Card : card'[c].state = card[c].state
    PROVE  Requested'
BY DEF Requested, requests, Writable, Terminal

LEMMA RequestedStep ==
    ASSUME Typed, \A w \in Slot : Decided(w), Requested, [Next]_vars
    PROVE  Requested'
<1>1. card \in [Card -> Cards] /\ NoEntry \notin Card
  BY RunAssumption DEF Typed, Entry
<1>2. ASSUME UNCHANGED <<card, requests>> PROVE Requested'
  BY <1>1, <1>2, StateKept
<1>3. ASSUME NEW w \in Slot, Passing(w) \/ Deciding(w) PROVE Requested'
  <2>1. UNCHANGED requests
    BY <1>3 DEF Passing, Deciding, Hold, Skip, AllComplete, Consider, Prepare, PrepareFails,
       RunWriteRefused, Launch, Queue, QueueFails, Trigger, TriggerFails, Return, PassRead,
       RunWrite, RunCommitted, RunCommitFails, Release, PassUnchanged
  <2>2. Writable \/ Trigger(w) \/ UNCHANGED card
    BY <1>3 DEF Passing, Deciding, Hold, Skip, AllComplete, Consider, Prepare, PrepareFails,
       RunWriteRefused, Launch, Queue, QueueFails, Trigger, TriggerFails, Return, PassRead,
       RunWrite, RunCommitted, RunCommitFails, Release
  <2>3. CASE Trigger(w)
    <3>1. card' = [card EXCEPT ![Frontier(w)].box = "run"]
      BY <2>3 DEF Trigger
    <3>2. \A c \in Card : card'[c].state = card[c].state
      BY <1>1, <3>1 DEF Cards
    <3>3. QED
      BY <1>1, <2>1, <3>2, StateKept
  <2>4. QED
    BY <1>1, <1>2, <2>1, <2>2, <2>3, StateKept
<1>4. ASSUME NEW c \in Card, PersonOrWorker(c) PROVE Requested'
  <2>1. CASE HandRun(c) \/ Reopen(c)
    BY <1>1, <2>1 DEF HandRun, Reopen, Requested, Terminal
  <2>2. CASE HandQueue(c)
    BY <1>1, <2>2 DEF HandQueue, Requested, Writable
  <2>3. CASE ReopenWrite(c)
    BY <1>1, <2>3 DEF ReopenWrite, Requested
  <2>4. CASE MoveToTodo(c) \/ MoveToDone(c) \/ StallSweep(c) \/ CardAct(c)
    <3>1. CardStep
      BY <2>4 DEF MoveToTodo, MoveToDone, StallSweep, CardAct, WorkerClaims, WorkerFinishes,
         WorkerEnds, WorkerLost
    <3>2. QED
      BY <1>1, <3>1, StateKept DEF CardStep
  <2>5. QED
    BY <1>4, <2>1, <2>2, <2>3, <2>4 DEF PersonOrWorker
<1>5. CASE ControlStep
  <2>1. CASE PlayCommitted \/ PlayFails \/ CallEnsure \/ StopCommitted \/ StopWriteFails
             \/ CancelWalker \/ Joined \/ StopWaitExpires \/ StopReturns
    BY <1>2, <2>1 DEF PlayCommitted, PlayFails, CallEnsure, StopCommitted, StopWriteFails,
       CancelWalker, Joined, StopWaitExpires, StopReturns
  <2>2. ASSUME NEW c \in Card, Kill(c) PROVE Requested'
    BY <1>1, <2>2, StateKept DEF Kill
  <2>3. ASSUME NEW c \in Card, KillFails(c) PROVE Requested'
    <3>1. UNCHANGED requests /\ \E box \in {card[c].box, "none"} :
                                   card' = [card EXCEPT ![c].box = box]
      BY <2>3 DEF KillFails
    <3>2. \A d \in Card : card'[d].state = card[d].state
      BY <1>1, <3>1 DEF Cards
    <3>3. QED
      BY <1>1, <3>1, <3>2, StateKept
  <2>4. QED
    BY <1>5, <2>1, <2>2, <2>3 DEF ControlStep
<1>6. CASE Restart
  BY <1>1, <1>6 DEF Restart, Requested
<1>7. CASE \/ UNCHANGED vars \/ Play \/ Stop \/ EditAnswered \/ Shutdown
           \/ \E e \in Entry : AddEntry(e) \/ RemoveEntry(e)
           \/ \E m \in Manual : CheckOff(m)
           \/ SetRunnable
  BY <1>2, <1>7 DEF vars, Play, Stop, EditAnswered, Shutdown, AddEntry, RemoveEntry, CheckOff,
     SetRunnable, Edit
<1>8. QED
  BY <1>3, <1>4, <1>5, <1>6, <1>7 DEF Next, WalkerStep, Passing, Deciding, PersonOrWorker

-----------------------------------------------------------------------------
(* The inductive invariant and what follows from it.                        *)

IInv ==
    /\ Typed /\ \A w \in Slot : Decided(w)
    /\ Registry /\ Uncancelled /\ Locks
    /\ Walked /\ Pending
    /\ Known /\ Alone /\ Held
    /\ Quieting /\ Settled
    /\ Requested

LEMMA Inductive == Spec => []IInv
<1>1. Init => IInv
  BY TypedInit, DecidedInit, RegistryInit, LocksInit, WalkedInit, KnownInit, AloneInit,
     HeldInit, QuietingInit, RequestedInit DEF IInv
<1>2. IInv /\ [Next]_vars => IInv'
  <2> SUFFICES ASSUME IInv, [Next]_vars PROVE IInv'
    OBVIOUS
  <2>1. Typed' /\ \A w \in Slot : Decided(w)'
    BY TypedStep, DecidedStep DEF IInv
  <2>2. Registry' /\ Uncancelled' /\ Locks'
    BY RegistryStep, UncancelledStep, LocksStep DEF IInv
  <2>3. Walked' /\ Pending'
    BY WalkedStep, PendingStep DEF IInv
  <2>4. Known' /\ Alone' /\ Held'
    BY KnownStep, AloneStep, HeldStep DEF IInv
  <2>5. Quieting' /\ Settled'
    BY QuietingStep, SettledStep DEF IInv
  <2>6. Requested'
    BY RequestedStep DEF IInv
  <2>7. QED
    BY <2>1, <2>2, <2>3, <2>4, <2>5, <2>6 DEF IInv
<1>3. QED
  BY <1>1, <1>2, PTL DEF Spec

\* The state of the runner has the shape the code gives it, and a run's block
\* points at an entry of its playbook, whatever edits, calls, passes, failed
\* commits and restarts came before (playbookrun/runner.go, service/playbooks.go).
THEOREM PlaybookRunTyped == Spec => []PTypeOK
<1>1. IInv => PTypeOK
  <2> SUFFICES ASSUME IInv PROVE PTypeOK
    OBVIOUS
  <2>1. Typed
    BY DEF IInv
  <2>2. /\ card \in [Card -> [state : {"todo", "busy", "stalled", "done"},
                          worker : {"none", "queued", "running", "failed", "parked"},
                          box : {"none", "pending", "run", "hand"}]]
        /\ playbook.run \in Runs
        /\ ToSet(playbook.entries) \subseteq playbook.ids /\ playbook.ids \subseteq Entry
        /\ playbook.run.entry \in ToSet(playbook.entries) \cup {NoEntry}
        /\ Active(playbook.run) => playbook.runnable
    BY <2>1 DEF Typed, Cards, Books, Sound
  <2>3. /\ mutex.by \in {"nobody", "play", "stop", "edit", "walker"}
        /\ walker \in Slot \cup {0} /\ exiting \in Slot \cup {0}
    BY <2>1 DEF Typed
  <2>4. \A w \in Slot :
          /\ walk[w].pc \in {"none", "idle", "hold", "walk", "prepare", "write", "commit",
                             "launch", "queue", "trigger", "release"}
          /\ walk[w].prev \in Slot \cup {0} /\ walk[w].pass.run \in Runs
    BY <2>1 DEF Typed, Walks, Passes, Pcs
  <2>5. /\ control.pc \in {"idle", "playCommit", "ensure", "stopCommit", "cancel", "join", "kill"}
        /\ control.targets \subseteq Card
    BY <2>1 DEF Typed, Controls
  <2>6. Requested
    BY DEF IInv
  <2>7. QED
    BY <2>2, <2>3, <2>4, <2>5, <2>6 DEF PTypeOK, Requested
<1>2. QED
  BY <1>1, Inductive, PTL

\* A playbook is walked by one goroutine at a time: a walker that Play starts
\* while a cancelled one is still going begins no pass before that one returned
\* (ensureWalker's prev, walk's wait for it).
THEOREM OneWalkerInPass ==
    Spec => [](\A v, w \in Slot : MidPass(v) /\ MidPass(w) => v = w)
<1>1. IInv => \A v, w \in Slot : MidPass(v) /\ MidPass(w) => v = w
  BY DEF IInv, Registry, MidPass, Exists
<1>2. QED
  BY <1>1, Inductive, PTL

\* walker.go: "such a Play can never be left without a walker": outside a call
\* and a shutdown, an active run has a registered walker that nobody cancelled,
\* however the release of a walker, Play's nudge, Stop and rollbacks interleave.
THEOREM ActiveRunWalked == Spec => []ActiveRunIsWalked
<1>1. IInv => ActiveRunIsWalked
  BY DEF IInv, Walked, Uncancelled, ActiveRunIsWalked
<1>2. QED
  BY <1>1, Inductive, PTL

\* After a Stop that returned no error, and until the next Play, no card of the
\* playbook shows a worker in flight that the run launched, whatever the walker it
\* cancelled was doing.
THEOREM StoppedQuiet == Spec => []StoppedRunIsQuiet
<1>1. IInv => StoppedRunIsQuiet
  BY DEF IInv, Settled, AmongAll, Among, StoppedRunIsQuiet
<1>2. QED
  BY <1>1, Inductive, PTL

\* "While any of its cards has a queued or running worker, the run starts no other
\* card": also for cards that were added, removed, moved or run by hand while the
\* pass was under way, and across Stop, Play and a restart.
THEOREM OneWorker == Spec => OneWorkerAtATime
<1> DEFINE Launches ==
        \A w \in Slot :
            /\ walk[w].pc = "queue" /\ walk'[w].pc = "trigger"
            /\ ~walk[w].cancelled /\ ~Excused
            => ~\E d \in Card \cap ToSet(playbook.entries) :
                  /\ d # Frontier(w)
                  /\ \/ LaunchedLive(d)
                     \/ /\ Live(d) /\ d \in ToSet(walk[w].pass.entries)
                        /\ walk[w].pass.run = playbook.run
<1>1. IInv => Launches
  <2> SUFFICES ASSUME IInv, NEW w \in Slot, walk[w].pc = "queue", ~walk[w].cancelled, ~Excused,
                      NEW d \in Card \cap ToSet(playbook.entries)
               PROVE  /\ ~LaunchedLive(d)
                      /\ d \in ToSet(walk[w].pass.entries)
                         /\ walk[w].pass.run = playbook.run => ~Live(d)
    OBVIOUS
  <2>1. MidPass(w) /\ PastHold(w)
    BY DEF MidPass, PastHold, Launching
  <2>2. LaunchedLive(d) => d \in ToSet(walk[w].pass.entries)
    BY <2>1 DEF Excused, IInv, Alone, Among
  <2>3. ~LaunchedLive(d)
    BY <2>1, <2>2 DEF IInv, Alone, Among
  <2>4. d \in ToSet(walk[w].pass.entries) /\ walk[w].pass.run = playbook.run => ~Live(d)
    BY <2>1 DEF IInv, Held
  <2>5. QED
    BY <2>3, <2>4
<1>2. Spec => [][Launches]_vars
  BY <1>1, Inductive, PTL
<1>3. QED
  BY <1>2 DEF OneWorkerAtATime

\* A shutdown that waited for its walkers leaves no card queued for a worker that
\* nobody asked for: every trigger under way was answered or reverted.
THEOREM NothingStranded == Spec => []ShutdownStrandsNothing
<1>1. IInv => ShutdownStrandsNothing
  BY DEF IInv, Pending, ShutdownStrandsNothing
<1>2. QED
  BY <1>1, Inductive, PTL

-----------------------------------------------------------------------------
(* A card is launched once.                                                 *)

\* Everything before c in entries is in S.
Leads(entries, c, S) ==
    \E j \in DOMAIN entries : entries[j] = c /\ \A i \in 1..(j - 1) : entries[i] \in S

\* What precedes an entry of t in s precedes it in t.
Ordered(s, t) ==
    \A i, j \in DOMAIN s : i < j /\ s[j] \in ToSet(t) =>
        \E k, l \in DOMAIN t : k < l /\ t[k] = s[i] /\ t[l] = s[j]

\* Cards queued for the run since the last Play and not done.
Spent == {c \in sent : ~Terminal(c)}
Finished == {e \in Entry : Complete(e)}

\* The entry a pass is about to point the run at, or has.
Target(w) == IF walk[w].pc \in {"write", "commit"} THEN walk[w].pass.want[2] ELSE Frontier(w)

Distinct ==
    /\ IsInjective(playbook.entries) /\ IsInjective(mutex.old.entries)
    /\ \A w \in Slot : MidPass(w) => IsInjective(walk[w].pass.entries)

Placed(w) ==
    LET p == walk[w].pass IN
    MidPass(w) =>
        /\ p.at <= Len(p.entries) + 1 /\ (walk[w].pc = "hold" => p.at = 1)
        /\ p.complete \subseteq ToSet(p.entries)
        /\ Launching(w) => Frontier(w) \notin p.complete

\* A pass goes no further than the spent card of its snapshot, on which the run
\* stands; so it launches none.
Aimed(w) ==
    LET p == walk[w].pass
        S == Spent \cap ToSet(p.entries)
    IN  /\ sent \cap ToSet(playbook.entries) \subseteq ToSet(p.entries)
        /\ p.complete \cap Spent = {}
        /\ \A c \in S : p.run.entry = c
        /\ walk[w].pc \in {"hold", "walk"} => \A c \in S : Leads(p.entries, c, p.complete)
        /\ walk[w].pc = "walk" => \A i \in 1..(p.at - 1) : p.entries[i] \notin Spent
        /\ walk[w].pc \notin {"hold", "walk"} => \A c \in S : c = Target(w)
        /\ walk[w].pc \in {"write", "commit"} /\ p.then = "release" => S = {}
        /\ Launching(w) /\ walk[w].pc # "trigger" => Frontier(w) \notin sent

\* As long as the run is the one the pass read, what the pass skipped is finished.
Abreast(w) ==
    LET p == walk[w].pass IN
    p.run = playbook.run /\ Active(p.run) =>
        /\ Ordered(playbook.entries, p.entries)
        /\ ToSet(playbook.entries) \cap p.complete \subseteq Finished
        /\ walk[w].pc = "walk" \/ Launching(w) =>
              \A i \in 1..(p.at - 1) : p.entries[i] \in ToSet(playbook.entries) =>
                                           p.entries[i] \in Finished

\* The worker of a card that was queued for the run is there or has failed.
Tried(c) == card[c].state = "todo" => card[c].worker \in {"queued", "failed"}

Stands ==
    \A c \in Spent \cap ToSet(playbook.entries) :
        /\ Active(playbook.run) => playbook.run.entry = c /\ Leads(playbook.entries, c, Finished)
        /\ mutex.by = "walker" => mutex.old.run.entry = c /\ Active(playbook.run)

Once ==
    ~Excused => /\ sent \subseteq playbook.ids /\ \A c \in sent : Tried(c)
                /\ Stands
                /\ \A w \in Slot : MidPass(w) => Aimed(w) /\ Abreast(w)

-----------------------------------------------------------------------------
\* Entries are added at the end and removed: neither changes an order.
LEMMA LeadsAppend ==
    ASSUME NEW S, NEW s \in Seq(S), NEW e \in S, NEW c, NEW D, Leads(s, c, D)
    PROVE  Leads(Append(s, e), c, D)
<1>1. /\ \A i \in 1..Len(s) : Append(s, e)[i] = s[i]
      /\ DOMAIN Append(s, e) = 1..(Len(s) + 1) /\ DOMAIN s = 1..Len(s) /\ Len(s) \in Nat
  BY AppendProperties, LenProperties
<1>2. QED
  BY <1>1 DEF Leads

LEMMA LeadsRemove ==
    ASSUME NEW S, NEW s \in Seq(S), NEW i \in DOMAIN s, NEW c, NEW D, Leads(s, c, D), s[i] # c
    PROVE  Leads(RemoveAt(s, i), c, D)
<1> DEFINE r == RemoveAt(s, i)
<1>1. /\ DOMAIN s = 1..Len(s) /\ Len(s) \in Nat /\ i \in 1..Len(s) /\ DOMAIN r = 1..(Len(s) - 1)
      /\ \A j \in 1..(Len(s) - 1) : r[j] = IF j < i THEN s[j] ELSE s[j + 1]
  BY RemoveAtElements
<1> HIDE DEF r
<1>2. PICK j \in 1..Len(s) : s[j] = c /\ \A k \in 1..(j - 1) : s[k] \in D
  BY <1>1 DEF Leads
<1>3. CASE i < j
  <2>1. j - 1 \in DOMAIN r /\ r[j - 1] = c
    BY <1>1, <1>2, <1>3
  <2>2. ASSUME NEW k \in 1..((j - 1) - 1) PROVE r[k] \in D
    BY <1>1, <1>2, <1>3, <2>2
  <2>3. QED
    BY <2>1, <2>2 DEF Leads, r
<1>4. CASE j < i
  <2>1. j \in DOMAIN r /\ r[j] = c
    BY <1>1, <1>2, <1>4
  <2>2. ASSUME NEW k \in 1..(j - 1) PROVE r[k] \in D
    BY <1>1, <1>2, <1>4, <2>2
  <2>3. QED
    BY <2>1, <2>2 DEF Leads, r
<1>5. QED
  BY <1>1, <1>2, <1>3, <1>4

LEMMA LeadsMore ==
    ASSUME NEW S, NEW s \in Seq(S), NEW c, NEW D, NEW E, Leads(s, c, D),
           ToSet(s) \cap D \subseteq E
    PROVE  Leads(s, c, E)
BY LenProperties DEF Leads, ToSet

LEMMA OrderedAppend ==
    ASSUME NEW S, NEW s \in Seq(S), NEW e \in S, NEW t, e \notin ToSet(t), Ordered(s, t)
    PROVE  Ordered(Append(s, e), t)
<1>1. /\ \A i \in 1..Len(s) : Append(s, e)[i] = s[i]
      /\ Append(s, e)[Len(s) + 1] = e
      /\ DOMAIN Append(s, e) = 1..(Len(s) + 1) /\ DOMAIN s = 1..Len(s) /\ Len(s) \in Nat
  BY AppendProperties, LenProperties
<1>2. QED
  BY <1>1 DEF Ordered

LEMMA OrderedRemove ==
    ASSUME NEW S, NEW s \in Seq(S), NEW i \in DOMAIN s, NEW t, Ordered(s, t)
    PROVE  Ordered(RemoveAt(s, i), t)
<1> DEFINE r == RemoveAt(s, i)
           f(j) == IF j < i THEN j ELSE j + 1
<1>1. /\ DOMAIN s = 1..Len(s) /\ Len(s) \in Nat /\ i \in 1..Len(s) /\ DOMAIN r = 1..(Len(s) - 1)
      /\ \A j \in 1..(Len(s) - 1) : r[j] = s[f(j)]
  BY RemoveAtElements
<1> HIDE DEF r
<1>2. ASSUME NEW j \in DOMAIN r, NEW k \in DOMAIN r, j < k
      PROVE  f(j) \in DOMAIN s /\ f(k) \in DOMAIN s /\ f(j) < f(k) /\ r[j] = s[f(j)] /\ r[k] = s[f(k)]
  BY <1>1, <1>2
<1> HIDE DEF f
<1>3. QED
  BY <1>2 DEF Ordered, r

LEMMA InjectiveAppend ==
    ASSUME NEW S, NEW s \in Seq(S), NEW e \in S, e \notin ToSet(s), IsInjective(s)
    PROVE  IsInjective(Append(s, e))
<1>1. /\ \A i \in 1..Len(s) : Append(s, e)[i] = s[i]
      /\ Append(s, e)[Len(s) + 1] = e
      /\ DOMAIN Append(s, e) = 1..(Len(s) + 1) /\ DOMAIN s = 1..Len(s) /\ Len(s) \in Nat
  BY AppendProperties, LenProperties
<1>2. \A i \in 1..Len(s) : s[i] # e
  BY <1>1 DEF ToSet
<1>3. QED
  BY <1>1, <1>2 DEF IsInjective

LEMMA InjectiveRemove ==
    ASSUME NEW S, NEW s \in Seq(S), NEW i \in DOMAIN s, IsInjective(s)
    PROVE  IsInjective(RemoveAt(s, i))
<1> DEFINE r == RemoveAt(s, i)
           f(j) == IF j < i THEN j ELSE j + 1
<1>1. /\ DOMAIN s = 1..Len(s) /\ Len(s) \in Nat /\ i \in 1..Len(s) /\ DOMAIN r = 1..(Len(s) - 1)
      /\ \A j \in 1..(Len(s) - 1) : r[j] = s[f(j)]
  BY RemoveAtElements
<1> HIDE DEF r
<1>2. ASSUME NEW j \in DOMAIN r, NEW k \in DOMAIN r, r[j] = r[k] PROVE j = k
  <2>1. f(j) \in DOMAIN s /\ f(k) \in DOMAIN s /\ s[f(j)] = s[f(k)]
    BY <1>1, <1>2
  <2>2. f(j) = f(k)
    BY <2>1 DEF IsInjective
  <2>3. QED
    BY <1>1, <2>2
<1>3. QED
  BY <1>2 DEF IsInjective, r

-----------------------------------------------------------------------------
(* What the steps do to the cards queued for the run.                       *)

Requeued(c) == \E w \in Slot : Queue(w) /\ c = Frontier(w) /\ walk[w].pass.run = playbook.run

Stays(c) == c \in sent /\ Tried(c)' /\ (Terminal(c) => Terminal(c)')

\* A step on another card, or one that leaves state and worker alone.
LEMMA SameStays ==
    ASSUME NEW c \in Card, c \in sent, Tried(c), card'[c].state = card[c].state,
           card'[c].worker = card[c].worker
    PROVE  Stays(c)
BY DEF Stays, Tried, Terminal

\* A worker that ends before it claimed its card has failed, or the card is one
\* that the run may launch again.
LEMMA CardStays ==
    ASSUME Typed, NEW d \in Card, PersonOrWorker(d),
           NEW c \in Card, c \in sent', c \in sent => Tried(c)
    PROVE  Stays(c)
<1>1. /\ card \in [Card -> Cards] /\ card[d] \in Cards
  BY DEF Typed
<1>2. c \in sent /\ Tried(c)
  BY DEF PersonOrWorker, HandRun, HandQueue, MoveToTodo, Reopen, ReopenWrite, MoveToDone,
     StallSweep, CardAct, WorkerClaims, WorkerFinishes, WorkerEnds, WorkerLost, history
<1>3. CASE d # c
  <2>1. card'[c] = card[c]
    BY <1>1, <1>3 DEF PersonOrWorker, HandRun, HandQueue, MoveToTodo, Moved, Reopen, ReopenWrite,
       MoveToDone, StallSweep, CardAct, WorkerClaims, WorkerFinishes, WorkerEnds, WorkerLost
  <2>2. QED
    BY <1>2, <2>1, SameStays
<1>4. CASE d = c
  <2>1. CASE HandRun(c) \/ Reopen(c)
    BY <1>2, <2>1, SameStays DEF HandRun, Reopen
  <2>2. CASE HandQueue(c)
    <3>1. \/ card' = card
          \/ card'[c].worker = "queued" /\ card'[c].state = card[c].state
      BY <1>1, <1>4, <2>2 DEF HandQueue, Cards
    <3>2. QED
      BY <1>2, <3>1, SameStays DEF Stays, Tried, Terminal
  <2>3. CASE MoveToTodo(c) \/ ReopenWrite(c)
    BY <2>3 DEF MoveToTodo, ReopenWrite
  <2>4. CASE MoveToDone(c) \/ WorkerFinishes(c)
    <3>1. card'[c].state = "done"
      BY <1>1, <1>4, <2>4 DEF MoveToDone, WorkerFinishes, Cards
    <3>2. QED
      BY <1>2, <3>1 DEF Stays, Tried, Terminal
  <2>5. CASE StallSweep(c)
    <3>1. card[c].state = "busy" /\ card'[c].state = "stalled"
      BY <1>1, <1>4, <2>5 DEF StallSweep, Cards
    <3>2. QED
      BY <1>2, <3>1 DEF Stays, Tried, Terminal
  <2>6. CASE WorkerClaims(c)
    <3>1. card[c].state = "todo" /\ card'[c].state = "busy"
      BY <1>1, <1>4, <2>6 DEF WorkerClaims, Cards
    <3>2. QED
      BY <1>2, <3>1 DEF Stays, Tried, Terminal
  <2>7. CASE WorkerEnds(c)
    <3>1. PICK last \in {"failed", "parked", "none"} :
            /\ last = "parked" => card[c].worker = "running"
            /\ card' = [card EXCEPT ![c].box = "none",
                                    ![c].worker = IF Terminal(c) THEN "none"
                                                  ELSE IF InFlight(c) THEN last ELSE @]
            /\ sent' = IF last = "none" /\ InFlight(c) /\ card[c].state = "todo"
                       THEN sent \ {c} ELSE sent
      BY <2>7 DEF WorkerEnds
    <3>2. /\ card'[c].worker = IF Terminal(c) THEN "none"
                               ELSE IF InFlight(c) THEN last ELSE card[c].worker
          /\ card'[c].state = card[c].state
      BY <1>1, <1>4, <3>1 DEF Cards
    <3>3. ~(last = "none" /\ InFlight(c) /\ card[c].state = "todo")
      BY <3>1
    <3>4. card[c].state = "todo" /\ InFlight(c) => last = "failed" \/ card[c].worker = "running"
      BY <3>1, <3>3
    <3>5. QED
      BY <1>2, <3>2, <3>4 DEF Stays, Tried, Terminal, InFlight
  <2>8. CASE WorkerLost(c)
    <3>1. /\ card'[c].worker = IF Terminal(c) THEN "none" ELSE "failed"
          /\ card'[c].state = card[c].state
      BY <1>1, <1>4, <2>8 DEF WorkerLost, Cards
    <3>2. QED
      BY <1>2, <3>1 DEF Stays, Tried, Terminal
  <2>9. QED
    BY <1>4, <2>1, <2>2, <2>3, <2>4, <2>5, <2>6, <2>7, <2>8 DEF CardAct, PersonOrWorker
<1>5. QED
  BY <1>3, <1>4

\* A pass queues the card it stands at, and prepares none that was queued before.
LEMMA PassStays ==
    ASSUME Typed, NEW w \in Slot, Decided(w), Passing(w),
           MidPass(w) => Aimed(w), NEW c \in Card, c \in sent', c \in sent => Tried(c)
    PROVE  Stays(c) \/ (Requeued(c) /\ Tried(c)')
<1> DEFINE e == Frontier(w)
<1>1. card \in [Card -> Cards] /\ card[c] \in Cards
  BY DEF Typed
<1>2. walk[w].pc \in {"prepare", "queue", "trigger"} => e \in Card /\ card[e] \in Cards
  BY <1>1 DEF Decided, Launching
<1>3. CASE Queue(w)
  <2>1. /\ walk[w].pc = "queue"
        /\ card' = [card EXCEPT ![e].worker = "queued", ![e].box = "pending"]
        /\ sent' = IF walk[w].pass.run = playbook.run THEN sent \cup {e} ELSE sent
    BY <1>3 DEF Queue, At
  <2>2. CASE c = e
    <3>1. card'[c].worker = "queued" /\ card'[c].state = card[c].state
      BY <1>1, <2>1, <2>2 DEF Cards
    <3>2. c \notin sent => Requeued(c)
      BY <1>3, <2>1, <2>2 DEF Requeued
    <3>3. QED
      BY <3>1, <3>2 DEF Stays, Tried, Terminal
  <2>3. CASE c # e
    <3>1. c \in sent /\ card'[c] = card[c]
      BY <1>1, <1>2, <2>1, <2>3
    <3>2. QED
      BY <3>1, SameStays
  <2>4. QED
    BY <2>2, <2>3
<1>4. CASE Trigger(w)
  <2>1. e \in Card /\ card' = [card EXCEPT ![e].box = "run"] /\ sent' = sent
    BY <1>2, <1>4 DEF Trigger, At, PassUnchanged, history
  <2>2. card'[c].state = card[c].state /\ card'[c].worker = card[c].worker
    BY <1>1, <2>1 DEF Cards
  <2>3. QED
    BY <2>1, <2>2, SameStays
<1>5. CASE TriggerFails(w)
  <2>1. /\ e \in Card /\ sent' = sent
        /\ card' = [card EXCEPT ![e].box = "none",
                                ![e].worker = IF Terminal(e) THEN "none" ELSE "failed"]
    BY <1>2, <1>5 DEF TriggerFails, At, PassUnchanged, history
  <2>2. CASE c = e
    <3>1. /\ card'[c].state = card[c].state
          /\ card'[c].worker = IF Terminal(c) THEN "none" ELSE "failed"
      BY <1>1, <2>1, <2>2 DEF Cards
    <3>2. QED
      BY <2>1, <3>1 DEF Stays, Tried, Terminal
  <2>3. CASE c # e
    <3>1. card'[c] = card[c]
      BY <1>1, <2>1, <2>3
    <3>2. QED
      BY <2>1, <3>1, SameStays
  <2>4. QED
    BY <2>2, <2>3
<1>6. CASE Prepare(w) \/ (PrepareFails(w) /\ card' = Moved(e, "todo"))
  <2>1. /\ walk[w].pc = "prepare" /\ e \in Card /\ sent' = sent
        /\ card' = [card EXCEPT ![e].state = "todo",
                                ![e].worker = IF @ = "failed" THEN "none" ELSE @]
    BY <1>2, <1>6 DEF Prepare, PrepareFails, At, Moved, PassUnchanged, history
  <2>2. e \notin sent
    BY <2>1 DEF MidPass, Aimed, Launching
  <2>3. card'[c] = card[c]
    BY <1>1, <2>1, <2>2
  <2>4. QED
    BY <2>1, <2>3, SameStays
<1>7. CASE UNCHANGED <<card, sent>>
  BY <1>7, SameStays
<1>8. QED
  BY <1>3, <1>4, <1>5, <1>6, <1>7 DEF Passing, Hold, Skip, AllComplete, Consider, PrepareFails,
     RunWriteRefused, Launch, QueueFails, PassUnchanged, history

LEMMA SentOnly ==
    ASSUME Typed, \A w \in Slot : Decided(w), ~Excused, Once, [Next]_vars,
           NEW c \in sent'
    PROVE  c \in Card /\ (Stays(c) \/ (Requeued(c) /\ Tried(c)'))
<1>1. /\ card \in [Card -> Cards] /\ sent \in SUBSET Card /\ \A d \in sent : Tried(d)
      /\ \A w \in Slot : MidPass(w) => Aimed(w)
  BY DEF Typed, Once
<1>2. ASSUME UNCHANGED <<card, sent>> PROVE c \in Card /\ Stays(c)
  BY <1>1, <1>2, SameStays
<1>3. c \in Card
  BY TypedStep DEF Typed
<1>4. CASE \E w \in Slot : Passing(w)
  BY <1>1, <1>3, <1>4, PassStays
<1>5. CASE \E d \in Card : PersonOrWorker(d)
  BY <1>1, <1>3, <1>5, CardStays
<1>6. CASE \E d \in Card : Kill(d) \/ KillFails(d)
  <2>1. PICK d \in Card : Kill(d) \/ KillFails(d)
    BY <1>6
  <2>2. c \in sent
    BY <2>1 DEF Kill, KillFails, history
  <2>3. /\ card'[c].state = card[c].state
        /\ \/ card'[c].worker = card[c].worker
           \/ card'[c].worker = "failed"
    BY <1>1, <2>1, <1>3 DEF Kill, KillFails, Cards
  <2>4. QED
    BY <1>1, <1>3, <2>2, <2>3 DEF Stays, Tried, Terminal
<1>7. CASE Play
  BY <1>7 DEF Play
<1>8. CASE \E w \in Slot : Deciding(w)
  BY <1>2, <1>8 DEF Deciding, Return, PassRead, RunWrite, RunCommitted, RunCommitFails, Release,
     PassUnchanged, history
<1>9. CASE \/ UNCHANGED vars \/ Stop \/ EditAnswered \/ Shutdown \/ Restart
           \/ \E e \in Entry : AddEntry(e) \/ RemoveEntry(e)
           \/ \E m \in Manual : CheckOff(m)
           \/ SetRunnable
  BY <1>2, <1>9 DEF vars, Stop, EditAnswered, Shutdown, Restart, AddEntry, RemoveEntry,
     CheckOff, SetRunnable, Edit, history
<1>10. CASE PlayCommitted \/ PlayFails \/ CallEnsure \/ StopCommitted \/ StopWriteFails
           \/ CancelWalker \/ Joined \/ StopWaitExpires \/ StopReturns
  BY <1>2, <1>10 DEF PlayCommitted, PlayFails, CallEnsure, StopCommitted, StopWriteFails,
     CancelWalker, Joined, StopWaitExpires, StopReturns, history
<1>11. QED
  BY <1>4, <1>5, <1>6, <1>7, <1>8, <1>9, <1>10 DEF Next, WalkerStep, ControlStep, Passing,
     Deciding, PersonOrWorker

-----------------------------------------------------------------------------
(* What the steps do to the entries.                                        *)

\* The edits, with what the checks of an active run let them do.
EntriesEdited ==
    \/ \E e \in Entry \ playbook.ids :
        /\ playbook'.entries = Append(playbook.entries, e) /\ playbook'.done = playbook.done
        /\ playbook'.ids = playbook.ids \cup {e}
    \/ \E i \in DOMAIN playbook.entries :
        /\ Active(playbook.run) => playbook.run.entry # playbook.entries[i]
        /\ playbook'.entries = RemoveAt(playbook.entries, i) /\ playbook'.done = playbook.done
        /\ playbook'.ids = playbook.ids
    \/ /\ playbook'.entries = playbook.entries /\ playbook'.ids = playbook.ids
       /\ Active(playbook.run) => playbook.done \subseteq playbook'.done

EntriesKept ==
    /\ playbook'.entries = playbook.entries /\ playbook'.ids = playbook.ids
    /\ playbook'.done = playbook.done
    /\ mutex'.old \in {mutex.old, playbook, Blank}

EditUndone ==
    /\ mutex.by = "edit" /\ playbook' = mutex.old /\ mutex' = Unlocked /\ undone' = TRUE
    /\ UNCHANGED <<card, walk, sent>>

LEMMA EditsOnly ==
    ASSUME Typed,
           \/ \E e \in Entry : AddEntry(e) \/ RemoveEntry(e)
           \/ \E m \in Manual : CheckOff(m)
           \/ SetRunnable
    PROVE  EditStep /\ EntriesEdited
<1>1. playbook \in Books /\ EditStep /\ (Active(playbook.run) => playbook.runnable)
  BY EditsAreSteps DEF Typed, Sound
<1>2. ASSUME NEW e \in Entry, AddEntry(e) PROVE EntriesEdited
  <2>1. /\ e \notin playbook.ids
        /\ playbook' = [playbook EXCEPT !.entries = Append(@, e), !.ids = @ \cup {e}]
    BY <1>2 DEF AddEntry, Edit, Save
  <2>2. QED
    BY <1>1, <2>1 DEF Books, EntriesEdited
<1>3. ASSUME NEW e \in Entry, RemoveEntry(e) PROVE EntriesEdited
  <2>1. PICK i \in DOMAIN playbook.entries :
          /\ playbook.entries[i] = e
          /\ playbook' = [playbook EXCEPT !.entries = RemoveAt(@, i),
                                          !.run.entry = IF @ = e THEN NoEntry ELSE @]
    BY <1>3 DEF RemoveEntry, Edit, Save
  <2>2. Active(playbook.run) => playbook.run.entry # e
    BY <1>3 DEF RemoveEntry
  <2>3. /\ playbook'.entries = RemoveAt(playbook.entries, i) /\ playbook'.done = playbook.done
        /\ playbook'.ids = playbook.ids
    BY <1>1, <2>1 DEF Books
  <2>4. QED
    BY <2>1, <2>2, <2>3 DEF EntriesEdited
<1>4. ASSUME NEW m \in Manual, CheckOff(m) PROVE EntriesEdited
  <2>1. /\ playbook' = [playbook EXCEPT !.done = SymDiff(@, {m})]
        /\ m \in playbook.done => ~Active(playbook.run)
    BY <1>4 DEF CheckOff, Edit, Save
  <2>2. /\ playbook'.entries = playbook.entries /\ playbook'.ids = playbook.ids
        /\ playbook'.done = SymDiff(playbook.done, {m})
    BY <1>1, <2>1 DEF Books
  <2>3. Active(playbook.run) => playbook.done \subseteq playbook'.done
    BY <2>1, <2>2 DEF SymDiff
  <2>4. QED
    BY <2>2, <2>3 DEF EntriesEdited
<1>5. CASE SetRunnable
  <2>1. playbook' = [playbook EXCEPT !.runnable = ~@,
                                     !.run = IF playbook.runnable THEN NoRun ELSE @]
    BY <1>5 DEF SetRunnable, Edit, Save
  <2>2. QED
    BY <1>1, <2>1 DEF Books, EntriesEdited
<1>6. QED
  BY <1>1, <1>2, <1>3, <1>4, <1>5

LEMMA EntriesOnly ==
    ASSUME Typed, \A w \in Slot : Decided(w), Locks, [Next]_vars
    PROVE  EntriesKept \/ (EditStep /\ EntriesEdited) \/ EditUndone
<1>1. /\ playbook \in Books /\ mutex.old \in Books /\ Unlocked.old = Blank
  BY DEF Typed, Unlocked
<1>2. ASSUME UNCHANGED <<playbook, mutex>> PROVE EntriesKept
  BY <1>2 DEF EntriesKept
<1>3. ASSUME mutex' = Unlocked, playbook' = playbook PROVE EntriesKept
  BY <1>1, <1>3 DEF EntriesKept
<1>4. ASSUME mutex' = Unlocked, playbook' = mutex.old, mutex.by \in {"play", "stop", "walker"}
      PROVE  EntriesKept
  <2>1. [mutex.old EXCEPT !.run = playbook.run] = playbook
    BY <1>4 DEF Locks
  <2>2. /\ mutex.old.entries = playbook.entries /\ mutex.old.ids = playbook.ids
        /\ mutex.old.done = playbook.done
    BY <1>1, <2>1 DEF Books
  <2>3. QED
    BY <1>1, <1>4, <2>2 DEF EntriesKept
<1>5. ASSUME mutex'.old = playbook, playbook' = [playbook EXCEPT !.run = playbook'.run]
      PROVE  EntriesKept
  <2>1. /\ playbook'.entries = playbook.entries /\ playbook'.ids = playbook.ids
        /\ playbook'.done = playbook.done
    BY <1>1, <1>5 DEF Books
  <2>2. QED
    BY <1>5, <2>1 DEF EntriesKept
<1>6. CASE \E w \in Slot : Passing(w)
  BY <1>2, <1>6, PassingOnly
<1>7. ASSUME NEW w \in Slot, Deciding(w) PROVE EntriesKept
  <2>1. walk[w].pc = "commit" => mutex.by = "walker"
    BY DEF Locks
  <2>2. \/ UNCHANGED <<playbook, mutex>>
        \/ mutex'.old = playbook /\ playbook' = [playbook EXCEPT !.run = playbook'.run]
        \/ /\ walk[w].pc = "commit" /\ mutex' = Unlocked /\ playbook' \in {playbook, mutex.old}
    BY <1>7, DecidingOnly
  <2>3. QED
    BY <1>2, <1>3, <1>4, <1>5, <2>1, <2>2
<1>8. CASE \/ \E e \in Entry : AddEntry(e) \/ RemoveEntry(e)
           \/ \E m \in Manual : CheckOff(m)
           \/ SetRunnable
  BY <1>8, EditsOnly
<1>9. CASE EditAnswered
  BY <1>3, <1>9 DEF EditAnswered, Committed, RolledBack, runnerVars, EditUndone
<1>10. CASE Play
  <2>1. PICK run \in Runs : /\ mutex' = [by |-> "play", old |-> playbook]
                           /\ playbook' = [playbook EXCEPT !.run = run] /\ playbook'.run = run
    BY <1>10, PlayOnly
  <2>2. QED
    BY <1>5, <2>1
<1>11. CASE Stop
  <2>1. PICK run \in Runs : /\ mutex' = [by |-> "stop", old |-> playbook]
                           /\ playbook' = [playbook EXCEPT !.run = run] /\ playbook'.run = run
    BY <1>11, StopOnly
  <2>2. QED
    BY <1>5, <2>1
<1>12. CASE PlayCommitted \/ PlayFails \/ StopCommitted \/ StopWriteFails
  BY <1>3, <1>4, <1>12 DEF PlayCommitted, PlayFails, StopCommitted, StopWriteFails, Committed,
     RolledBack, Control, Locks
<1>13. CASE \/ CallEnsure \/ CancelWalker \/ Joined \/ StopWaitExpires \/ StopReturns \/ Shutdown
            \/ UNCHANGED vars \/ \E c \in Card : Kill(c) \/ KillFails(c)
  BY <1>2, <1>13 DEF CallEnsure, CancelWalker, Joined, StopWaitExpires, StopReturns, Shutdown,
     Kill, KillFails, vars
<1>14. CASE \E c \in Card : PersonOrWorker(c)
  BY <1>2, <1>14, CardStepsOnly DEF CardOnly
<1>15. CASE Restart
  BY <1>3, <1>15, RestartOnly
<1>16. QED
  BY <1>6, <1>7, <1>8, <1>9, <1>10, <1>11, <1>12, <1>13, <1>14, <1>15 DEF Next, WalkerStep,
     ControlStep, Passing, Deciding, PersonOrWorker

LEMMA DistinctInit == Init => Distinct
BY RunAssumption DEF Init, Blank, Unlocked, Gone, Distinct, MidPass

LEMMA DistinctStep ==
    ASSUME Typed, \A w \in Slot : Decided(w), Locks, Distinct, [Next]_vars
    PROVE  Distinct'
<1>1. /\ playbook \in Books /\ Sound(playbook) /\ playbook.entries \in Seq(Entry)
  BY DEF Typed, Books
<1>2. IsInjective(Blank.entries) /\ Unlocked.old = Blank
  BY RunAssumption DEF Blank, Unlocked
<1>3. IsInjective(playbook'.entries) /\ IsInjective(mutex'.old.entries)
  <2>1. CASE EntriesKept
    BY <1>2, <2>1 DEF EntriesKept, Distinct
  <2>2. CASE EditStep /\ EntriesEdited
    <3>1. mutex'.old = playbook
      BY <2>2 DEF EditStep
    <3>2. ASSUME NEW e \in Entry \ playbook.ids,
                 playbook'.entries = Append(playbook.entries, e)
          PROVE  IsInjective(playbook'.entries)
      BY <1>1, <3>2, InjectiveAppend DEF Distinct, Sound
    <3>3. ASSUME NEW i \in DOMAIN playbook.entries,
                 playbook'.entries = RemoveAt(playbook.entries, i)
          PROVE  IsInjective(playbook'.entries)
      BY <1>1, <3>3, InjectiveRemove DEF Distinct
    <3>4. QED
      BY <2>2, <3>1, <3>2, <3>3 DEF EntriesEdited, Distinct
  <2>3. CASE EditUndone
    BY <1>2, <2>3 DEF EditUndone, Distinct
  <2>4. QED
    BY <2>1, <2>2, <2>3, EntriesOnly
<1>4. ASSUME NEW w \in Slot, MidPass(w)'
      PROVE  \/ MidPass(w) /\ walk'[w].pass.entries = walk[w].pass.entries
             \/ walk'[w].pass.entries = playbook.entries
  <2>1. ASSUME NEW v \in Slot, Passing(v)
        PROVE  MidPass(w) /\ walk'[w].pass.entries = walk[w].pass.entries
    <3>1. CASE v = w
      BY <1>4, <2>1, <3>1, PassingOnly DEF MidPass, InPass
    <3>2. CASE v # w
      BY <1>4, <2>1, <3>2, PassingOnly DEF MidPass
    <3>3. QED
      BY <3>1, <3>2
  <2>2. ASSUME NEW v \in Slot, Deciding(v)
        PROVE  \/ MidPass(w) /\ walk'[w].pass.entries = walk[w].pass.entries
               \/ walk'[w].pass.entries = playbook.entries
    <3>1. CASE v = w
      BY <1>4, <2>2, <3>1, DecidingOnly DEF MidPass
    <3>2. CASE v # w
      BY <1>4, <2>2, <3>2, DecidingOnly DEF MidPass
    <3>3. QED
      BY <3>1, <3>2
  <2>3. CASE CardOnly \/ EditStep \/ EditAnswered \/ Play \/ Stop \/ ControlStep \/ Shutdown
             \/ Restart
    BY <1>4, <2>3, OthersOnly
  <2>4. QED
    BY <2>1, <2>2, <2>3, StepKinds
<1>5. QED
  BY <1>3, <1>4 DEF Distinct

-----------------------------------------------------------------------------
(* What a pass skips stays finished while the run is active.                *)

LEMMA DoneStays ==
    ASSUME Typed, \A w \in Slot : Decided(w), Locks, [Next]_vars, Active(playbook.run),
           ~Excused', NEW e \in ToSet(playbook.entries), e \in Finished
    PROVE  e \in Finished'
<1>1. /\ card \in [Card -> Cards] /\ Card \cap Manual = {} /\ e \in Entry
  BY RunAssumption DEF Typed, Finished
<1>2. CASE e \notin Card
  <2>1. e \in playbook.done
    BY <1>2 DEF Finished, Complete
  <2>2. e \in playbook'.done
    BY <2>1, EntriesOnly DEF EntriesKept, EntriesEdited, EditUndone, Excused
  <2>3. QED
    BY <1>1, <1>2, <2>2 DEF Finished, Complete
<1>3. CASE e \in Card
  <2>1. card[e].state = "done"
    BY <1>3 DEF Finished, Complete, Terminal
  <2>2. card'[e].state = "done"
    <3>1. CASE UNCHANGED card
      BY <2>1, <3>1
    <3>2. ASSUME NEW w \in Slot, Passing(w) PROVE card'[e].state = "done"
      <4>1. CASE UNCHANGED card
        BY <2>1, <4>1
      <4>2. walk[w].pc \in {"prepare", "queue", "trigger"} => Frontier(w) \in Card
        BY DEF Decided, Launching
      <4>3. CASE \/ Prepare(w)
                 \/ /\ PrepareFails(w) /\ ~Terminal(Frontier(w))
                    /\ card' = Moved(Frontier(w), "todo")
        <5>1. /\ Frontier(w) \in Card /\ Frontier(w) # e
              /\ card' = [card EXCEPT ![Frontier(w)].state = "todo",
                                      ![Frontier(w)].worker = IF @ = "failed" THEN "none" ELSE @]
          BY <2>1, <4>2, <4>3 DEF Prepare, PrepareFails, At, Moved, Terminal
        <5>2. QED
          BY <1>1, <1>3, <2>1, <5>1
      <4>4. CASE Queue(w) \/ Trigger(w) \/ TriggerFails(w)
        <5>1. /\ Frontier(w) \in Card
              /\ \E worker, box :
                    card' = [card EXCEPT ![Frontier(w)].worker = worker, ![Frontier(w)].box = box]
                    \/ card' = [card EXCEPT ![Frontier(w)].box = box]
                    \/ card' = [card EXCEPT ![Frontier(w)].box = box, ![Frontier(w)].worker = worker]
          BY <4>2, <4>4 DEF Queue, Trigger, TriggerFails, At
        <5>2. QED
          BY <1>1, <1>3, <2>1, <5>1 DEF Cards
      <4>5. QED
        BY <3>2, <4>1, <4>3, <4>4 DEF Passing, Hold, Skip, AllComplete, Consider, PrepareFails,
           RunWriteRefused, Launch, QueueFails
    <3>3. ASSUME NEW d \in Card, PersonOrWorker(d) PROVE card'[e].state = "done"
      <4>1. CASE d # e
        <5>1. card'[e] = card[e]
          BY <1>1, <1>3, <3>3, <4>1 DEF PersonOrWorker, HandRun, HandQueue, MoveToTodo, Moved,
             Reopen, ReopenWrite, MoveToDone, StallSweep, CardAct, WorkerClaims, WorkerFinishes,
             WorkerEnds, WorkerLost
        <5>2. QED
          BY <2>1, <5>1
      <4>2. CASE d = e
        <5>1. ~ReopenWrite(e)
          BY DEF ReopenWrite, Excused
        <5>2. \/ HandRun(e) \/ HandQueue(e) \/ Reopen(e) \/ WorkerEnds(e) \/ WorkerLost(e)
          BY <2>1, <3>3, <4>2, <5>1 DEF PersonOrWorker, MoveToTodo, MoveToDone, StallSweep,
             CardAct, WorkerClaims, WorkerFinishes, Terminal
        <5>3. card'[e].state = card[e].state
          BY <1>1, <1>3, <5>2 DEF HandRun, HandQueue, Reopen, WorkerEnds, WorkerLost, Cards
        <5>4. QED
          BY <2>1, <5>3
      <4>3. QED
        BY <4>1, <4>2
    <3>4. ASSUME NEW d \in Card, Kill(d) \/ KillFails(d) PROVE card'[e].state = "done"
      <4>1. card'[e].state = card[e].state
        BY <1>1, <1>3, <3>4 DEF Kill, KillFails, Cards
      <4>2. QED
        BY <2>1, <4>1
    <3>5. CASE \E w \in Slot : Deciding(w)
      BY <3>1, <3>5, DecidingOnly
    <3>6. CASE \/ UNCHANGED vars \/ Play \/ Stop \/ EditAnswered \/ Shutdown \/ Restart
               \/ \E x \in Entry : AddEntry(x) \/ RemoveEntry(x)
               \/ \E m \in Manual : CheckOff(m)
               \/ SetRunnable
      BY <3>1, <3>6 DEF vars, Play, Stop, EditAnswered, Shutdown, Restart, AddEntry, RemoveEntry,
         CheckOff, SetRunnable, Edit
    <3>7. CASE PlayCommitted \/ PlayFails \/ CallEnsure \/ StopCommitted \/ StopWriteFails
               \/ CancelWalker \/ Joined \/ StopWaitExpires \/ StopReturns
      BY <3>1, <3>7 DEF PlayCommitted, PlayFails, CallEnsure, StopCommitted, StopWriteFails,
         CancelWalker, Joined, StopWaitExpires, StopReturns
    <3>8. QED
      BY <3>2, <3>3, <3>4, <3>5, <3>6, <3>7 DEF Next, WalkerStep, ControlStep, Passing, Deciding,
         PersonOrWorker
  <2>3. QED
    BY <1>1, <1>3, <2>2 DEF Finished, Complete, Terminal
<1>4. QED
  BY <1>2, <1>3

-----------------------------------------------------------------------------
(* How a pass goes on.                                                      *)

\* The card a pass is about to launch needs no one.
Unspoilt(w) ==
    LET e == Frontier(w) IN
    /\ e \in Card /\ ~Terminal(e) /\ ~InFlight(e)
    /\ ~(NeedsHuman(e) /\ walk[w].pass.run.entry = e)
    /\ card[e].state = "todo" \/ NeedsHuman(e)

Goes(w, pc, q) ==
    LET p == walk[w].pass IN
    /\ q.run = p.run /\ q.entries = p.entries /\ q.complete = p.complete
    /\ \/ walk[w].pc = "hold" /\ pc = "walk" /\ q = p
       \/ /\ walk[w].pc = "hold" /\ pc = "write" /\ q.then = "idle" /\ q.at = p.at
          /\ \/ q.want[2] = p.run.entry
             \/ p.run.entry \notin ToSet(p.entries) \/ p.run.entry \in p.complete
       \/ /\ walk[w].pc = "walk" /\ pc = "walk" /\ p.at \in DOMAIN p.entries /\ q.at = p.at + 1
          /\ Frontier(w) \in p.complete \/ Frontier(w) \in Finished
       \/ /\ walk[w].pc = "walk" /\ pc = "write" /\ q.then = "release" /\ q.at = p.at
          /\ p.at > Len(p.entries)
       \/ /\ walk[w].pc = "walk" /\ q.at = p.at /\ p.at \in DOMAIN p.entries
          /\ Frontier(w) \notin p.complete
          /\ \/ pc = "write" /\ q.then = "idle" /\ q.want[2] = Frontier(w)
             \/ /\ Unspoilt(w)
                /\ \/ pc \in {"prepare", "launch"}
                   \/ pc = "write" /\ q.then = "launch" /\ q.want[2] = Frontier(w)
       \/ /\ walk[w].pc = "prepare" /\ q.at = p.at
          /\ \/ pc = "launch"
             \/ pc = "write" /\ q.then = "launch" /\ q.want[2] = Frontier(w)
       \/ /\ walk[w].pc \in {"prepare", "launch", "queue", "trigger"} /\ q.at = p.at
          /\ pc = "write" /\ q.then = "idle" /\ q.want[2] = Frontier(w)
       \/ walk[w].pc = "launch" /\ pc = "queue" /\ q = p
       \/ walk[w].pc = "queue" /\ pc = "trigger" /\ q = p

LEMMA SetRunGoes ==
    ASSUME walk \in [Slot -> Walks], NEW w \in Slot, NEW status \in Statuses,
           NEW e \in Entry \cup {NoEntry}, NEW then \in {"idle", "launch", "release"},
           SetRun(w, status, e, then), MidPass(w)'
    PROVE  /\ walk'[w].pass.run = walk[w].pass.run /\ walk'[w].pass.at = walk[w].pass.at
           /\ walk'[w].pass.entries = walk[w].pass.entries
           /\ walk'[w].pass.complete = walk[w].pass.complete
           /\ \/ walk'[w].pc = "launch" /\ then = "launch"
              \/ /\ walk'[w].pc = "write" /\ walk'[w].pass.then = then
                 /\ walk'[w].pass.want[2] = e
<1> DEFINE p == walk[w].pass
           r == [p EXCEPT !.want = <<status, e>>, !.then = then]
<1>1. walk[w].pass \in Passes
  BY DEF Walks
<1>2. /\ r \in Passes /\ r.run = p.run /\ r.at = p.at /\ r.entries = p.entries
      /\ r.complete = p.complete /\ r.then = then /\ r.want = <<status, e>>
  BY <1>1 DEF Passes
<1>3. r = [walk[w].pass EXCEPT !.want = <<status, e>>, !.then = then]
  OBVIOUS
<1> HIDE DEF r
<1>4. \/ Moves(w, then, IF then = "launch" THEN walk[w].pass ELSE NoPass)
      \/ Moves(w, "write", r)
  BY <1>1, <1>2, <1>3, GotoMoves DEF SetRun, Goto, Moves
<1>5. CASE Moves(w, "write", r)
  <2>1. walk'[w].pc = "write" /\ walk'[w].pass = r
    BY <1>2, <1>5, MovesOnly DEF Pcs
  <2>2. QED
    BY <1>2, <2>1
<1>6. CASE Moves(w, then, IF then = "launch" THEN walk[w].pass ELSE NoPass)
  <2>1. CASE then = "launch"
    <3>1. walk'[w].pc = "launch" /\ walk'[w].pass = p
      BY <1>1, <1>6, <2>1, MovesOnly DEF Pcs
    <3>2. QED
      BY <2>1, <3>1
  <2>2. CASE then # "launch"
    <3>1. walk'[w].pc = then
      BY <1>6, <2>2, MovesOnly, NoPassTyped DEF Pcs
    <3>2. QED
      BY <2>2, <3>1 DEF MidPass
  <2>3. QED
    BY <2>1, <2>2
<1>7. QED
  BY <1>4, <1>5, <1>6

LEMMA GotoGoes ==
    ASSUME walk \in [Slot -> Walks], NEW w \in Slot, NEW pc \in Pcs, NEW pass \in Passes,
           Goto(w, pc, pass), MidPass(w)'
    PROVE  walk'[w].pc = pc /\ walk'[w].pass = pass
<1>1. CASE pc \in {"idle", "release"}
  <2>1. Moves(w, pc, NoPass)
    BY <1>1, GotoMoves
  <2>2. walk'[w].pc = pc
    BY <2>1, MovesOnly, NoPassTyped
  <2>3. QED
    BY <1>1, <2>2 DEF MidPass
<1>2. CASE pc \notin {"idle", "release"}
  <2>1. Moves(w, pc, pass)
    BY <1>2, GotoMoves
  <2>2. QED
    BY <2>1, MovesOnly
<1>3. QED
  BY <1>1, <1>2

LEMMA PassGoes ==
    ASSUME Typed, NEW w \in Slot, Decided(w), Passing(w), MidPass(w)'
    PROVE  Goes(w, walk'[w].pc, walk'[w].pass)
<1> DEFINE p == walk[w].pass
           q == walk'[w].pass
<1>1. /\ walk \in [Slot -> Walks] /\ p \in Passes /\ p.entries \in Seq(Entry)
      /\ DOMAIN p.entries = 1..Len(p.entries) /\ Len(p.entries) \in Nat /\ p.at \in Nat \ {0}
      /\ p.run.entry \in Entry \cup {NoEntry}
  BY LenProperties DEF Typed, Walks, Passes, Runs
<1>2. {"running", "waiting", "completed"} \subseteq Statuses
      /\ {"idle", "walk", "prepare", "queue", "trigger"} \subseteq Pcs
  BY DEF Statuses, Pcs
<1>3. walk[w].pc \in {"prepare", "launch", "queue", "trigger"} => Frontier(w) \in Card
  BY DEF Decided, Launching
<1>4. Card \subseteq Entry /\ Entry = Card \cup Manual
  BY DEF Entry
<1>5. CASE Hold(w)
  <2> DEFINE live == LiveEntry(p.entries, p.run.entry)
  <2>1. live \in Entry \cup {NoEntry}
    BY <1>1, <1>4, LiveEntryFinds
  <2>2. /\ walk[w].pc = "hold"
        /\ \/ Goto(w, "walk", p)
           \/ Goto(w, "idle", p)
           \/ /\ SetRun(w, "running", live, "idle")
              /\ ~(live # p.run.entry /\ p.run.entry \in ToSet(p.entries) \ p.complete)
    BY <1>5 DEF Hold, At
  <2> HIDE DEF live
  <2>3. CASE Goto(w, "walk", p) \/ Goto(w, "idle", p)
    BY <1>1, <1>2, <2>2, <2>3, GotoGoes DEF Goes, MidPass
  <2>4. CASE /\ SetRun(w, "running", live, "idle")
             /\ ~(live # p.run.entry /\ p.run.entry \in ToSet(p.entries) \ p.complete)
    <3>1. /\ q.run = p.run /\ q.at = p.at /\ q.entries = p.entries /\ q.complete = p.complete
          /\ walk'[w].pc = "write" /\ q.then = "idle" /\ q.want[2] = live
      BY <1>1, <1>2, <2>1, <2>4, SetRunGoes
    <3>2. QED
      BY <2>2, <2>4, <3>1 DEF Goes
  <2>5. QED
    BY <2>2, <2>3, <2>4
<1>6. CASE Skip(w)
  <2>1. [p EXCEPT !.at = @ + 1] \in Passes
    BY <1>1 DEF Passes
  <2>2. /\ walk[w].pc = "walk" /\ p.at <= Len(p.entries)
        /\ Frontier(w) \in p.complete \/ (Frontier(w) \in Card /\ Terminal(Frontier(w)))
        /\ Goto(w, "walk", [p EXCEPT !.at = @ + 1])
    BY <1>6 DEF Skip, At
  <2>3. walk'[w].pc = "walk" /\ q = [p EXCEPT !.at = @ + 1]
    BY <1>1, <1>2, <2>1, <2>2, GotoGoes
  <2>4. /\ q.run = p.run /\ q.entries = p.entries /\ q.complete = p.complete /\ q.at = p.at + 1
    BY <1>1, <2>3 DEF Passes
  <2>5. p.at \in DOMAIN p.entries
    BY <1>1, <2>2
  <2>6. QED
    BY <1>4, <2>2, <2>3, <2>4, <2>5 DEF Goes, Finished, Complete
<1>7. CASE AllComplete(w)
  <2>1. /\ walk[w].pc = "walk" /\ p.at > Len(p.entries)
        /\ SetRun(w, "completed", NoEntry, "release")
    BY <1>7 DEF AllComplete, At
  <2>2. /\ q.run = p.run /\ q.at = p.at /\ q.entries = p.entries /\ q.complete = p.complete
        /\ walk'[w].pc = "write" /\ q.then = "release"
    BY <1>1, <1>2, <2>1, SetRunGoes
  <2>3. QED
    BY <2>1, <2>2 DEF Goes
<1>8. CASE Consider(w)
  <2>1. /\ walk[w].pc = "walk" /\ p.at \in DOMAIN p.entries /\ Frontier(w) \notin p.complete
    BY <1>1, <1>8 DEF Consider, At
  <2>2. Frontier(w) \in Entry
    BY <1>1, <2>1, ElementOfSeq DEF Frontier
  <2>3. ASSUME NEW status \in {"running", "waiting"}, SetRun(w, status, Frontier(w), "idle")
        PROVE  Goes(w, walk'[w].pc, q)
    <3>1. /\ q.run = p.run /\ q.at = p.at /\ q.entries = p.entries /\ q.complete = p.complete
          /\ walk'[w].pc = "write" /\ q.then = "idle" /\ q.want[2] = Frontier(w)
      BY <1>1, <1>2, <2>2, <2>3, SetRunGoes
    <3>2. QED
      BY <2>1, <3>1 DEF Goes
  <2>4. CASE Frontier(w) \in Manual
    BY <1>8, <2>3, <2>4 DEF Consider
  <2>5. CASE Frontier(w) \notin Manual
    <3>1. ~Terminal(Frontier(w)) /\ Decide(w, Frontier(w), p.run) /\ Frontier(w) \in Card
      BY <1>4, <1>8, <2>2, <2>5 DEF Consider
    <3>2. \/ \E status \in {"running", "waiting"} : SetRun(w, status, Frontier(w), "idle")
          \/ Goto(w, "idle", NoPass)
          \/ /\ Unspoilt(w)
             /\ Goto(w, "prepare", p) \/ SetRun(w, "running", Frontier(w), "launch")
      BY <3>1 DEF Decide, Unspoilt
    <3>3. CASE Goto(w, "idle", NoPass)
      BY <1>1, <1>2, <3>3, GotoGoes, NoPassTyped DEF MidPass
    <3>4. CASE Unspoilt(w) /\ Goto(w, "prepare", p)
      <4>1. walk'[w].pc = "prepare" /\ q = p
        BY <1>1, <1>2, <3>4, GotoGoes
      <4>2. QED
        BY <2>1, <3>4, <4>1 DEF Goes
    <3>5. CASE Unspoilt(w) /\ SetRun(w, "running", Frontier(w), "launch")
      <4>1. /\ q.run = p.run /\ q.at = p.at /\ q.entries = p.entries /\ q.complete = p.complete
            /\ \/ walk'[w].pc = "launch"
               \/ walk'[w].pc = "write" /\ q.then = "launch" /\ q.want[2] = Frontier(w)
        BY <1>1, <1>2, <2>2, <3>5, SetRunGoes
      <4>2. QED
        BY <2>1, <3>5, <4>1 DEF Goes
    <3>6. QED
      BY <2>3, <3>2, <3>3, <3>4, <3>5
  <2>6. QED
    BY <2>4, <2>5
<1>9. CASE Prepare(w)
  <2>1. walk[w].pc = "prepare" /\ SetRun(w, "running", Frontier(w), "launch")
    BY <1>9 DEF Prepare, At
  <2>2. /\ q.run = p.run /\ q.at = p.at /\ q.entries = p.entries /\ q.complete = p.complete
        /\ \/ walk'[w].pc = "launch"
           \/ walk'[w].pc = "write" /\ q.then = "launch" /\ q.want[2] = Frontier(w)
    BY <1>1, <1>2, <1>3, <1>4, <2>1, SetRunGoes
  <2>3. QED
    BY <2>1, <2>2 DEF Goes
<1>10. CASE PrepareFails(w) \/ QueueFails(w) \/ TriggerFails(w)
  <2>1. /\ walk[w].pc \in {"prepare", "queue", "trigger"}
        /\ SetRun(w, "waiting", Frontier(w), "idle")
    BY <1>10 DEF PrepareFails, QueueFails, TriggerFails, At
  <2>2. /\ q.run = p.run /\ q.at = p.at /\ q.entries = p.entries /\ q.complete = p.complete
        /\ walk'[w].pc = "write" /\ q.then = "idle" /\ q.want[2] = Frontier(w)
    BY <1>1, <1>2, <1>3, <1>4, <2>1, SetRunGoes
  <2>3. QED
    BY <2>1, <2>2 DEF Goes
<1>11. CASE RunWriteRefused(w) \/ Trigger(w)
  BY <1>1, <1>2, <1>11, GotoGoes, NoPassTyped DEF RunWriteRefused, Trigger, MidPass
<1>12. CASE Launch(w) \/ Queue(w)
  <2>1. \/ Goto(w, "idle", NoPass)
        \/ walk[w].pc = "launch" /\ Goto(w, "queue", p)
        \/ walk[w].pc = "launch" /\ SetRun(w, "waiting", Frontier(w), "idle")
        \/ walk[w].pc = "queue" /\ Goto(w, "trigger", p)
    BY <1>12 DEF Launch, Queue, At
  <2>2. CASE Goto(w, "idle", NoPass)
    BY <1>1, <1>2, <2>2, GotoGoes, NoPassTyped DEF MidPass
  <2>3. CASE walk[w].pc = "launch" /\ Goto(w, "queue", p)
    BY <1>1, <1>2, <2>3, GotoGoes DEF Goes
  <2>4. CASE walk[w].pc = "queue" /\ Goto(w, "trigger", p)
    BY <1>1, <1>2, <2>4, GotoGoes DEF Goes
  <2>5. CASE walk[w].pc = "launch" /\ SetRun(w, "waiting", Frontier(w), "idle")
    <3>1. /\ q.run = p.run /\ q.at = p.at /\ q.entries = p.entries /\ q.complete = p.complete
          /\ walk'[w].pc = "write" /\ q.then = "idle" /\ q.want[2] = Frontier(w)
      BY <1>1, <1>2, <1>3, <1>4, <2>5, SetRunGoes
    <3>2. QED
      BY <2>5, <3>1 DEF Goes
  <2>6. QED
    BY <2>1, <2>2, <2>3, <2>4, <2>5
<1>13. QED
  BY <1>5, <1>6, <1>7, <1>8, <1>9, <1>10, <1>11, <1>12 DEF Passing

\* Where a pass in progress comes from.
Reads(w) ==
    LET q == walk'[w].pass IN
    /\ Active(playbook.run) /\ walk'[w].pc = "hold" /\ q.at = 1
    /\ q.run = playbook.run /\ q.entries = playbook.entries
    /\ q.complete = ToSet(playbook.entries) \cap Finished
    /\ UNCHANGED <<card, playbook, mutex, sent, undone, slipped>>

Writing(w) ==
    LET p == walk[w].pass
        q == walk'[w].pass
    IN  /\ MidPass(w) /\ walk[w].pc = "write" /\ walk'[w].pc = "commit" /\ Unchanged(w)
        /\ q.at = p.at /\ q.entries = p.entries /\ q.complete = p.complete
        /\ q.want = p.want /\ q.then = p.then /\ q.run = playbook'.run
        /\ playbook'.run.status = p.want[1] /\ playbook'.run.entry = p.want[2]
        /\ playbook' = [playbook EXCEPT !.run = playbook'.run]
        /\ mutex' = [by |-> "walker", old |-> playbook]
        /\ UNCHANGED <<card, sent, undone, slipped>>

Written(w) ==
    /\ MidPass(w) /\ walk[w].pc = "commit" /\ walk'[w].pc = "launch"
    /\ walk[w].pass.then = "launch" /\ walk'[w].pass = walk[w].pass
    /\ playbook' = playbook /\ mutex' = Unlocked /\ UNCHANGED <<card, sent, undone, slipped>>

Elsewhere == CardOnly \/ EditStep \/ EditAnswered \/ Play \/ Stop \/ ControlStep \/ Shutdown
             \/ Restart

LEMMA DecidingSends ==
    ASSUME NEW w \in Slot, Deciding(w)
    PROVE  UNCHANGED <<card, sent, undone, slipped>>
BY DEF Deciding, Return, PassRead, RunWrite, RunCommitted, RunCommitFails, Release, PassUnchanged,
   history

LEMMA Origins ==
    ASSUME Typed, \A w \in Slot : Decided(w), Registry, [Next]_vars, NEW w \in Slot, MidPass(w)'
    PROVE  \/ Passing(w) /\ MidPass(w) /\ Goes(w, walk'[w].pc, walk'[w].pass)
           \/ Reads(w) \/ Writing(w) \/ Written(w)
           \/ Elsewhere /\ MidPass(w) /\ walk'[w].pc = walk[w].pc /\ walk'[w].pass = walk[w].pass
<1>1. walk \in [Slot -> Walks] /\ walk[w].pass \in Passes /\ playbook \in Books
  BY DEF Typed, Walks
<1>2. ASSUME NEW v \in Slot, Passing(v) PROVE v = w
  <2>1. Exists(v) /\ walk[v].prev = 0
    BY <1>2, PassingOnly DEF Exists, InPass
  <2>2. v # w => MidPass(w)
    BY <1>2, PassingOnly DEF MidPass
  <2>3. QED
    BY <2>1, <2>2, OneInPass
<1>3. CASE \E v \in Slot : Passing(v)
  <2>1. Passing(w) /\ MidPass(w)
    BY <1>2, <1>3, PassingOnly DEF MidPass, InPass
  <2>2. QED
    BY <2>1, PassGoes
<1>4. ASSUME NEW v \in Slot, Deciding(v) PROVE v = w
  <2>1. Exists(v) /\ walk[v].prev = 0
    BY <1>4, DecidingOnly
  <2>2. v # w => MidPass(w)
    BY <1>4, DecidingOnly DEF MidPass
  <2>3. QED
    BY <2>1, <2>2, OneInPass
<1>5. CASE Deciding(w)
  <2>1. UNCHANGED <<card, sent, undone, slipped>>
    BY <1>5, DecidingSends
  <2>2. CASE PassRead(w)
    <3>1. /\ Active(playbook.run) /\ walk'[w].pc = "hold"
          /\ walk'[w].pass.run = playbook.run /\ walk'[w].pass.entries = playbook.entries
      BY <2>2, PassReadOnly DEF MidPass
    <3>2. playbook.runnable
      BY <3>1 DEF Typed, Sound
    <3>3. walk'[w].pass = [NoPass EXCEPT !.run = playbook.run, !.entries = playbook.entries,
                              !.complete = {e \in ToSet(playbook.entries) : Complete(e)}]
      BY <1>1, <2>2, <3>1, <3>2 DEF PassRead, Walks
    <3>4. /\ walk'[w].pass.at = 1
          /\ walk'[w].pass.complete = {e \in ToSet(playbook.entries) : Complete(e)}
      BY <3>3 DEF NoPass
    <3>5. ToSet(playbook.entries) \subseteq Entry
      BY <1>1, ToSetTyped DEF Books
    <3>6. walk'[w].pass.complete = ToSet(playbook.entries) \cap Finished
      BY <3>4, <3>5 DEF Finished
    <3>7. UNCHANGED <<playbook, mutex>>
      BY <2>2 DEF PassRead
    <3>8. QED
      BY <2>1, <3>1, <3>4, <3>6, <3>7 DEF Reads
  <2>3. CASE RunWrite(w)
    <3>1. PICK run \in Runs, pass \in Passes :
              /\ walk[w].pc = "write" /\ Unchanged(w)
              /\ mutex' = [by |-> "walker", old |-> playbook]
              /\ playbook' = [playbook EXCEPT !.run = run] /\ playbook'.run = run
              /\ run.status = walk[w].pass.want[1] /\ run.entry = walk[w].pass.want[2]
              /\ pass = [walk[w].pass EXCEPT !.run = run]
              /\ Moves(w, "commit", pass)
      BY <2>3, RunWriteOnly
    <3>2. walk'[w].pc = "commit" /\ walk'[w].pass = pass
      BY <1>1, <3>1, MovesOnly DEF Pcs
    <3>3. /\ pass.at = walk[w].pass.at /\ pass.entries = walk[w].pass.entries
          /\ pass.complete = walk[w].pass.complete /\ pass.want = walk[w].pass.want
          /\ pass.then = walk[w].pass.then /\ pass.run = run
      BY <1>1, <3>1 DEF Passes
    <3>4. MidPass(w)
      BY <3>1 DEF MidPass
    <3>5. QED
      BY <2>1, <3>1, <3>2, <3>3, <3>4 DEF Writing
  <2>4. CASE RunCommitted(w) \/ RunCommitFails(w)
    <3>1. /\ walk[w].pc = "commit" /\ playbook' = playbook /\ mutex' = Unlocked
          /\ walk'[w].pc = "launch" /\ walk'[w].pass = walk[w].pass /\ walk[w].pass.then = "launch"
      BY <2>4, AnsweredOnly DEF MidPass
    <3>2. QED
      BY <2>1, <3>1 DEF Written, MidPass
  <2>5. CASE Return(w) \/ Release(w)
    <3>1. Exit(w) \/ (Release(w) /\ walk[w].nudge)
      BY <2>5 DEF Return, Release
    <3>2. walk'[w].pc \in {"none", "idle"}
      BY <3>1, ExitOnly, ReleaseOnly DEF Gone
    <3>3. QED
      BY <3>2 DEF MidPass
  <2>6. QED
    BY <1>5, <2>2, <2>3, <2>4, <2>5 DEF Deciding
<1>6. CASE Elsewhere
  BY <1>6, OthersOnly DEF Elsewhere
<1>7. QED
  BY <1>3, <1>4, <1>5, <1>6, StepKinds DEF Elsewhere

LEMMA PlacedStep ==
    ASSUME Typed, \A w \in Slot : Decided(w), Registry, \A w \in Slot : Placed(w), [Next]_vars,
           NEW w \in Slot
    PROVE  Placed(w)'
<1> SUFFICES ASSUME MidPass(w)'
             PROVE  /\ walk'[w].pass.at <= Len(walk'[w].pass.entries) + 1
                    /\ walk'[w].pc = "hold" => walk'[w].pass.at = 1
                    /\ walk'[w].pass.complete \subseteq ToSet(walk'[w].pass.entries)
                    /\ Launching(w)' => Frontier(w)' \notin walk'[w].pass.complete
  BY DEF Placed
<1> DEFINE p == walk[w].pass
           q == walk'[w].pass
<1>0. /\ playbook.entries \in Seq(Entry) /\ p.entries \in Seq(Entry) /\ p.at \in Nat
      /\ DOMAIN p.entries = 1..Len(p.entries) /\ Len(p.entries) \in Nat
      /\ Len(playbook.entries) \in Nat
  BY LenProperties DEF Typed, Books, Walks, Passes
<1>1. CASE Passing(w) /\ MidPass(w) /\ Goes(w, walk'[w].pc, walk'[w].pass)
  <2>1. q.entries = p.entries /\ (q.at = p.at \/ (q.at = p.at + 1 /\ p.at \in DOMAIN p.entries))
    BY <1>1 DEF Goes
  <2>2. q.at <= Len(q.entries) + 1
    BY <1>0, <1>1, <2>1 DEF Placed
  <2>3. QED
    BY <1>1, <2>2 DEF Goes, Placed, Launching, Frontier
<1>2. CASE Reads(w)
  BY <1>0, <1>2 DEF Reads, Launching
<1>3. CASE Writing(w)
  BY <1>3 DEF Writing, Placed, Launching, Frontier
<1>4. CASE Written(w)
  BY <1>4 DEF Written, Placed, Launching, Frontier
<1>5. CASE MidPass(w) /\ walk'[w].pc = walk[w].pc /\ walk'[w].pass = walk[w].pass
  BY <1>5 DEF Placed, Launching, Frontier
<1>6. QED
  BY <1>1, <1>2, <1>3, <1>4, <1>5, Origins

-----------------------------------------------------------------------------
(* A pass goes no further than the spent card.                              *)

\* The step is no Play: it takes back no excuse.
LEMMA UndoneBefore ==
    ASSUME Typed, [Next]_vars, ~Play, ~Excused'
    PROVE  ~Excused
<1> USE DEF Excused
<1>1. CASE \E w \in Slot : Passing(w)
  BY <1>1 DEF Passing, Hold, Skip, AllComplete, Consider, Prepare, PrepareFails, RunWriteRefused,
     Launch, Queue, QueueFails, Trigger, TriggerFails, PassUnchanged, history
<1>2. CASE \E w \in Slot : Deciding(w)
  BY <1>2, DecidingSends
<1>3. CASE CardOnly \/ EditStep \/ Stop \/ Shutdown \/ Restart
  BY <1>3, RestartOnly DEF CardOnly, EditStep, Stop, Shutdown, history
<1>4. CASE EditAnswered
  BY <1>4 DEF EditAnswered
<1>5. CASE ControlStep
  BY <1>5 DEF ControlStep, PlayCommitted, PlayFails, CallEnsure, StopCommitted, StopWriteFails,
     CancelWalker, Joined, StopWaitExpires, StopReturns, Kill, KillFails, history
<1>6. QED
  BY <1>1, <1>2, <1>3, <1>4, <1>5, StepKinds

\* No step but the queueing of its card makes another card a spent one.
LEMMA SpentOnly ==
    ASSUME Typed, \A w \in Slot : Decided(w), ~Excused, Once, [Next]_vars,
           NEW c \in Spent', ~Requeued(c)
    PROVE  c \in Spent
BY SentOnly DEF Spent, Stays

LEMMA AimedPass ==
    ASSUME Typed, \A w \in Slot : Decided(w), Registry, \A w \in Slot : Placed(w),
           ~Excused, Once, [Next]_vars, NEW w \in Slot, MidPass(w)', MidPass(w), Passing(w),
           Goes(w, walk'[w].pc, walk'[w].pass)
    PROVE  Aimed(w)'
<1> DEFINE p == walk[w].pass
           q == walk'[w].pass
           e == Frontier(w)
           pc == walk'[w].pc
           S == Spent \cap ToSet(p.entries)
<1>1. /\ p \in Passes /\ p.entries \in Seq(Entry) /\ p.at \in Nat \ {0}
      /\ DOMAIN p.entries = 1..Len(p.entries) /\ Len(p.entries) \in Nat
      /\ card \in [Card -> Cards] /\ sent \in SUBSET Card /\ Card \cap Manual = {}
  BY LenProperties, RunAssumption DEF Typed, Walks, Passes
<1>2. /\ playbook' = playbook
      /\ q.run = p.run /\ q.entries = p.entries /\ q.complete = p.complete
  BY PassingOnly DEF Goes
<1>3. Aimed(w) /\ Placed(w) /\ Decided(w)
  BY DEF Once
<1>4. ASSUME NEW c, Requeued(c) PROVE Queue(w) /\ c = e
  <2>1. PICK v \in Slot : Queue(v) /\ c = Frontier(v)
    BY <1>4 DEF Requeued
  <2>2. Passing(v) /\ Exists(v) /\ walk[v].prev = 0
    BY <2>1 DEF Passing, Queue, At, Exists
  <2>3. v = w
    BY <2>2, OneInPass
  <2>4. QED
    BY <2>1, <2>3
<1>5. CASE Queue(w)
  <2>1. walk[w].pc = "queue" /\ pc = "trigger" /\ q = p
    BY <1>1, <1>5, GotoGoes DEF Queue, At, Typed, Pcs
  <2>2. /\ Launching(w) /\ p.at \in DOMAIN p.entries /\ e \in ToSet(p.entries)
        /\ p.run.entry = e /\ e \notin p.complete /\ Target(w) = e
    BY <1>1, <1>3, <2>1 DEF Launching, Decided, Placed, Frontier, ToSet, Target
  <2>3. ASSUME NEW c \in Spent' PROVE c \in Spent \/ c = e
    BY <1>4, <2>3, SpentOnly
  <2>4. Target(w)' = e
    BY <2>1 DEF Target, Frontier
  <2>5. \A c \in sent' : c \in sent \/ c = e
    BY <1>4, SentOnly DEF Stays
  <2> HIDE DEF q
  <2>7. QED
    BY <1>2, <1>3, <2>1, <2>2, <2>3, <2>4, <2>5 DEF Aimed, q
<1>6. CASE ~Queue(w)
  <2>1. sent' \subseteq sent /\ \A c \in Spent' : c \in Spent
    <3>1. \A c : ~Requeued(c)
      BY <1>4, <1>6
    <3>2. QED
      BY <3>1, SentOnly, SpentOnly DEF Stays
  <2>2. /\ sent' \cap ToSet(playbook'.entries) \subseteq ToSet(q.entries)
        /\ q.complete \cap Spent' = {}
        /\ \A c \in Spent' \cap ToSet(q.entries) : c \in S /\ q.run.entry = c
    BY <1>2, <1>3, <2>1 DEF Aimed
  <2>3. pc \in {"hold", "walk"} => \A c \in Spent' \cap ToSet(q.entries) :
                                       Leads(q.entries, c, q.complete)
    BY <1>2, <1>3, <2>2 DEF Aimed, Goes
  <2>4. pc = "walk" => \A i \in 1..(q.at - 1) : q.entries[i] \notin Spent'
    <3>1. CASE walk[w].pc = "hold" /\ pc = "walk"
      <4>1. q.at = 1
        BY <1>3, <3>1 DEF Goes, Placed
      <4>2. QED
        BY <4>1
    <3>2. CASE walk[w].pc = "walk" /\ pc = "walk"
      <4>1. /\ p.at \in DOMAIN p.entries /\ q.at = p.at + 1
            /\ e \in p.complete \/ e \in Finished
        BY <3>2 DEF Goes
      <4>2. e \notin Spent
        BY <1>1, <1>3, <4>1 DEF Aimed, Spent, Finished, Complete
      <4>3. \A i \in 1..(p.at - 1) : p.entries[i] \notin Spent
        BY <1>3, <3>2 DEF Aimed
      <4>4. p.entries[p.at] \notin Spent
        BY <4>2 DEF Frontier
      <4>5. \A i \in 1..(q.at - 1) : i \in 1..(p.at - 1) \/ i = p.at
        BY <1>1, <4>1
      <4>6. QED
        BY <1>2, <2>1, <4>3, <4>4, <4>5
    <3>3. QED
      BY <3>1, <3>2 DEF Goes
  \* From the walk: the spent card is the one the pass stands at.
  <2>5. CASE walk[w].pc = "walk" /\ p.at > Len(p.entries)
    <3>1. S = {}
      <4> SUFFICES ASSUME NEW c \in S PROVE FALSE
        OBVIOUS
      <4>1. PICK j \in DOMAIN p.entries : p.entries[j] = c
        BY DEF ToSet
      <4>2. j \in 1..(p.at - 1)
        BY <1>1, <2>5, <4>1
      <4>3. QED
        BY <1>3, <2>5, <4>1, <4>2 DEF Aimed
    <3>2. ~Launching(w)' \/ pc = "walk"
      BY <1>1, <2>5 DEF Goes, Launching
    <3>3. QED
      BY <2>2, <2>3, <2>4, <3>1, <3>2, <2>5, <1>1 DEF Aimed, Launching, Goes
  <2>6. ASSUME walk[w].pc = "walk", p.at \in DOMAIN p.entries, e \notin p.complete,
               NEW c \in S
        PROVE  c = e
    <3>1. PICK j \in DOMAIN p.entries : /\ p.entries[j] = c
                                        /\ \A i \in 1..(j - 1) : p.entries[i] \in p.complete
      BY <1>3, <2>6 DEF Aimed, Leads
    <3>2. j \notin 1..(p.at - 1)
      BY <1>3, <2>6, <3>1 DEF Aimed
    <3>3. p.at \notin 1..(j - 1)
      BY <2>6, <3>1 DEF Frontier
    <3>4. j = p.at
      BY <1>1, <2>6, <3>1, <3>2, <3>3
    <3>5. QED
      BY <3>1, <3>4 DEF Frontier
  <2>7. ASSUME walk[w].pc = "walk", p.at \in DOMAIN p.entries, Unspoilt(w) PROVE e \notin sent
    <3> SUFFICES ASSUME e \in sent PROVE FALSE
      OBVIOUS
    <3>1. e \in S
      BY <2>7 DEF Unspoilt, Spent, Frontier, ToSet
    <3>2. p.run.entry = e
      BY <1>3, <3>1 DEF Aimed
    <3>3. card[e].state = "todo" /\ ~NeedsHuman(e)
      BY <2>7, <3>2 DEF Unspoilt
    <3>4. card[e].worker \in {"queued", "failed"}
      BY <3>3 DEF Once, Tried
    <3>5. QED
      BY <2>7, <3>3, <3>4 DEF Unspoilt, InFlight, NeedsHuman
  <2>8. CASE /\ walk[w].pc = "walk" /\ q.at = p.at /\ p.at \in DOMAIN p.entries
             /\ e \notin p.complete
             /\ \/ pc = "write" /\ q.then = "idle" /\ q.want[2] = e
                \/ /\ Unspoilt(w)
                   /\ \/ pc \in {"prepare", "launch"}
                      \/ pc = "write" /\ q.then = "launch" /\ q.want[2] = e
    <3>1. Target(w)' = e /\ Frontier(w)' = e
      BY <1>2, <2>8 DEF Target, Frontier
    <3>2. \A c \in Spent' \cap ToSet(q.entries) : c = Target(w)'
      BY <2>2, <2>6, <2>8, <3>1
    <3>3. Launching(w)' => Frontier(w)' \notin sent'
      BY <2>1, <2>7, <2>8, <3>1 DEF Launching
    <3>4. QED
      BY <2>2, <2>8, <3>2, <3>3 DEF Aimed
  <2>9. CASE (walk[w].pc = "hold" /\ pc = "walk") \/ (walk[w].pc = "walk" /\ pc = "walk")
    BY <2>2, <2>3, <2>4, <2>9 DEF Aimed, Launching
  <2>10. CASE /\ walk[w].pc = "hold" /\ pc = "write" /\ q.then = "idle"
              /\ \/ q.want[2] = p.run.entry
                 \/ p.run.entry \notin ToSet(p.entries) \/ p.run.entry \in p.complete
    <3>1. ASSUME NEW c \in S PROVE c = q.want[2]
      BY <1>3, <2>10, <3>1 DEF Aimed
    <3>2. Target(w)' = q.want[2]
      BY <2>10 DEF Target
    <3>3. QED
      BY <2>2, <2>10, <3>1, <3>2 DEF Aimed, Launching
  <2>11. CASE /\ walk[w].pc \in {"prepare", "launch", "queue", "trigger"} /\ q.at = p.at
              /\ \/ pc \in {"launch", "queue", "trigger"}
                 \/ pc = "write" /\ q.then \in {"launch", "idle"} /\ q.want[2] = e
              /\ Launching(w)' /\ pc # "trigger" => walk[w].pc \in {"prepare", "launch"}
    <3>1. Target(w)' = e /\ Frontier(w)' = e /\ Target(w) = e
      BY <1>2, <2>11 DEF Target, Frontier
    <3>2. \A c \in Spent' \cap ToSet(q.entries) : c = Target(w)'
      BY <1>3, <2>2, <2>11, <3>1 DEF Aimed
    <3>3. Launching(w)' /\ pc # "trigger" => Frontier(w)' \notin sent'
      BY <1>3, <2>1, <2>11, <3>1 DEF Aimed, Launching
    <3>4. QED
      BY <2>2, <2>11, <3>2, <3>3 DEF Aimed
  <2>12. QED
    BY <2>5, <2>8, <2>9, <2>10, <2>11 DEF Goes, Launching
<1>7. QED
  BY <1>5, <1>6

\* Calls and the answers to them keep the run, or leave none that is active.
LEMMA RunsOnly ==
    ASSUME Typed, Locks, Elsewhere, ~Play, ~Excused'
    PROVE  /\ playbook'.run = playbook.run \/ ~Active(playbook'.run)
           /\ mutex'.by = "walker" => UNCHANGED <<playbook, mutex>>
<1>1. Unlocked.by = "nobody"
  BY RunOfUnlocked
<1>2. CASE UNCHANGED <<playbook, mutex>>
  BY <1>2
<1>3. CASE EditStep
  BY <1>3 DEF EditStep
<1>4. CASE playbook' = playbook /\ mutex' = Unlocked
  BY <1>1, <1>4
<1>5. CASE Stop
  <2>1. PICK run \in Runs : /\ mutex' = [by |-> "stop", old |-> playbook]
                            /\ playbook'.run = run /\ run.status = "stopped"
    BY <1>5, StopOnly
  <2>2. QED
    BY <2>1 DEF Active
<1>6. CASE PlayFails
  BY <1>1, <1>6 DEF PlayFails, Control, RolledBack, Locks
<1>7. CASE EditAnswered \/ StopWriteFails
  BY <1>4, <1>7 DEF EditAnswered, StopWriteFails, Committed, Excused
<1>8. CASE PlayCommitted \/ StopCommitted
  BY <1>4, <1>8 DEF PlayCommitted, StopCommitted, Committed
<1>9. CASE Restart
  BY <1>4, <1>9, RestartOnly
<1>10. CASE CardOnly \/ CallEnsure \/ CancelWalker \/ Joined \/ StopWaitExpires \/ StopReturns
            \/ (\E c \in Card : Kill(c) \/ KillFails(c)) \/ Shutdown
  BY <1>2, <1>10 DEF CardOnly, CallEnsure, CancelWalker, Joined, StopWaitExpires, StopReturns,
     Kill, KillFails, Shutdown
<1>11. QED
  BY <1>3, <1>5, <1>6, <1>7, <1>8, <1>9, <1>10 DEF Elsewhere, ControlStep

LEMMA EntriesStand ==
    ASSUME Typed, \A w \in Slot : Decided(w), Locks, [Next]_vars, ~Excused'
    PROVE  /\ EntriesKept \/ (EditStep /\ EntriesEdited)
           /\ playbook.ids \subseteq playbook'.ids
           /\ \A e \in ToSet(playbook'.entries) : e \in ToSet(playbook.entries) \/ e \notin playbook.ids
BY EntriesOnly DEF EntriesKept, EditStep, EditUndone, Excused

\* What preceded a card precedes it still, and is finished.
LEMMA LeadsStays ==
    ASSUME Typed, \A w \in Slot : Decided(w), Locks, [Next]_vars, Active(playbook.run), ~Excused',
           NEW c, playbook.run.entry = c, Leads(playbook.entries, c, Finished)
    PROVE  Leads(playbook'.entries, c, Finished')
<1>1. playbook.entries \in Seq(Entry)
  BY DEF Typed, Books
<1>2. Leads(playbook.entries, c, Finished')
  BY <1>1, DoneStays, LeadsMore
<1>3. ASSUME NEW e \in Entry \ playbook.ids, playbook'.entries = Append(playbook.entries, e)
      PROVE  Leads(playbook'.entries, c, Finished')
  BY <1>1, <1>2, <1>3, LeadsAppend
<1>4. ASSUME NEW i \in DOMAIN playbook.entries, playbook.entries[i] # c,
             playbook'.entries = RemoveAt(playbook.entries, i)
      PROVE  Leads(playbook'.entries, c, Finished')
  BY <1>1, <1>2, <1>4, LeadsRemove
<1>5. QED
  BY <1>2, <1>3, <1>4, EntriesStand DEF EntriesKept, EntriesEdited

LEMMA OrderStays ==
    ASSUME Typed, \A w \in Slot : Decided(w), Locks, [Next]_vars, ~Excused',
           NEW t, Ordered(playbook.entries, t), ToSet(t) \subseteq playbook.ids
    PROVE  Ordered(playbook'.entries, t)
<1>1. playbook.entries \in Seq(Entry)
  BY DEF Typed, Books
<1>2. ASSUME NEW e \in Entry \ playbook.ids, playbook'.entries = Append(playbook.entries, e)
      PROVE  Ordered(playbook'.entries, t)
  BY <1>1, <1>2, OrderedAppend
<1>3. ASSUME NEW i \in DOMAIN playbook.entries, playbook'.entries = RemoveAt(playbook.entries, i)
      PROVE  Ordered(playbook'.entries, t)
  BY <1>1, <1>3, OrderedRemove
<1>4. QED
  BY <1>2, <1>3, EntriesStand DEF EntriesKept, EntriesEdited

\* No step but the walker's own queues a card.
LEMMA SentElsewhere ==
    ASSUME Typed, \A w \in Slot : Decided(w), Registry, ~Excused, Once, [Next]_vars,
           NEW w \in Slot, MidPass(w), walk'[w].pc = walk[w].pc
    PROVE  sent' \subseteq sent /\ Spent' \subseteq Spent
<1>1. ASSUME NEW c, Requeued(c) PROVE FALSE
  <2>1. PICK v \in Slot : Queue(v)
    BY <1>1 DEF Requeued
  <2>2. Exists(v) /\ walk[v].prev = 0 /\ walk[v].pc = "queue" /\ Goto(v, "trigger", walk[v].pass)
    BY <2>1 DEF Queue, At, Exists
  <2>3. v = w
    BY <2>2, OneInPass
  <2>4. walk'[w].pc = "trigger"
    BY <2>2, <2>3 DEF Goto, Typed, Walks
  <2>5. QED
    BY <2>2, <2>3, <2>4
<1>2. QED
  BY <1>1, SentOnly, SpentOnly DEF Stays

LEMMA AimedStep ==
    ASSUME Typed, \A w \in Slot : Decided(w), Registry, Locks, \A w \in Slot : Placed(w),
           ~Excused, ~Excused', Once, [Next]_vars, NEW w \in Slot, MidPass(w)'
    PROVE  Aimed(w)'
<1> DEFINE p == walk[w].pass
           q == walk'[w].pass
<1>1. /\ card \in [Card -> Cards] /\ sent \in SUBSET Card /\ Card \cap Manual = {}
      /\ playbook.entries \in Seq(Entry) /\ playbook \in Books
  BY RunAssumption DEF Typed, Books
<1>2. CASE Passing(w) /\ MidPass(w) /\ Goes(w, walk'[w].pc, walk'[w].pass)
  BY <1>2, AimedPass
<1>3. CASE Reads(w)
  <2>1. /\ playbook' = playbook /\ sent' = sent /\ Spent' = Spent
        /\ walk'[w].pc = "hold" /\ q.entries = playbook.entries /\ q.run = playbook.run
        /\ q.complete = ToSet(playbook.entries) \cap Finished /\ Active(playbook.run)
    BY <1>3 DEF Reads, Spent, Terminal
  <2>2. q.complete \cap Spent = {}
    BY <1>1, <2>1 DEF Finished, Complete, Spent
  <2>3. ASSUME NEW c \in Spent \cap ToSet(playbook.entries)
        PROVE  playbook.run.entry = c /\ Leads(playbook.entries, c, q.complete)
    <3>1. playbook.run.entry = c /\ Leads(playbook.entries, c, Finished)
      BY <2>1 DEF Once, Stands
    <3>2. QED
      BY <1>1, <2>1, <3>1, LeadsMore
  <2> HIDE DEF q
  <2>4. QED
    BY <2>1, <2>2, <2>3 DEF Aimed, Launching, q
<1>4. CASE Writing(w)
  <2>1. /\ Spent' = Spent /\ sent' = sent /\ playbook'.entries = playbook.entries
        /\ walk[w].pc = "write" /\ walk'[w].pc = "commit" /\ q.entries = p.entries
        /\ q.complete = p.complete /\ q.then = p.then /\ q.want = p.want /\ q.at = p.at
        /\ q.run.entry = p.want[2] /\ MidPass(w)
    BY <1>1, <1>4 DEF Writing, Spent, Terminal, Books
  <2>2. Aimed(w)
    BY <2>1 DEF Once
  <2>3. Target(w) = p.want[2] /\ Target(w)' = p.want[2] /\ Frontier(w)' = Frontier(w)
    BY <2>1 DEF Target, Frontier
  <2>4. QED
    BY <2>1, <2>2, <2>3 DEF Aimed, Launching
<1>5. CASE Written(w)
  <2>1. /\ Spent' = Spent /\ sent' = sent /\ playbook' = playbook
        /\ walk[w].pc = "commit" /\ walk'[w].pc = "launch" /\ q = p /\ p.then = "launch"
        /\ MidPass(w)
    BY <1>5 DEF Written, Spent, Terminal
  <2>2. Aimed(w) /\ Decided(w)
    BY <2>1 DEF Once
  <2>3. p.want = <<"running", Frontier(w)>>
    BY <2>1, <2>2 DEF Decided
  <2>4. Target(w) = Frontier(w) /\ Target(w)' = Frontier(w) /\ Frontier(w)' = Frontier(w)
    BY <2>1, <2>3 DEF Target, Frontier
  <2>5. QED
    BY <2>1, <2>2, <2>4 DEF Aimed, Launching
<1>6. CASE Elsewhere /\ MidPass(w) /\ walk'[w].pc = walk[w].pc /\ walk'[w].pass = walk[w].pass
  <2>1. sent' \subseteq sent /\ Spent' \subseteq Spent
    BY <1>6, SentElsewhere
  <2>2. Aimed(w) /\ sent \subseteq playbook.ids
    BY <1>6 DEF Once
  <2>3. sent' \cap ToSet(playbook'.entries) \subseteq ToSet(p.entries)
    BY <2>1, <2>2, EntriesStand DEF Aimed
  <2>4. Target(w)' = Target(w) /\ Frontier(w)' = Frontier(w) /\ (Launching(w)' <=> Launching(w))
    BY <1>6 DEF Target, Frontier, Launching
  <2>5. QED
    BY <1>6, <2>1, <2>2, <2>3, <2>4 DEF Aimed
<1>7. QED
  BY <1>2, <1>3, <1>4, <1>5, <1>6, Origins

\* What a pass skipped stays finished as long as the run is the one it read.
LEMMA AbreastStep ==
    ASSUME Typed, \A w \in Slot : Decided(w), Registry, Locks, \A w \in Slot : Placed(w), Held,
           ~Excused, ~Excused', ~Play, Once, [Next]_vars, NEW w \in Slot, MidPass(w)'
    PROVE  Abreast(w)'
<1> DEFINE p == walk[w].pass
           q == walk'[w].pass
           Ahead(x) == \A i \in 1..(x.at - 1) :
                          x.entries[i] \in ToSet(playbook.entries) => x.entries[i] \in Finished
<1>1. playbook \in Books /\ playbook.entries \in Seq(Entry) /\ p \in Passes /\ p.at \in Nat
  BY DEF Typed, Books, Walks, Passes
\* It is enough that the snapshot fits before the step.
<1>2. ASSUME MidPass(w), q.entries = p.entries, q.complete = p.complete,
             p.run = playbook.run, Active(playbook.run),
             walk'[w].pc = "walk" \/ Launching(w)' => Ahead(q)
      PROVE  Abreast(w)'
  <2>1. /\ Ordered(playbook.entries, p.entries)
        /\ ToSet(playbook.entries) \cap p.complete \subseteq Finished
    BY <1>2 DEF Once, Abreast
  <2>2. ToSet(p.entries) \subseteq playbook.ids /\ p.complete \subseteq ToSet(p.entries)
    BY <1>2 DEF Held, Placed
  <2>3. ASSUME NEW e \in ToSet(playbook'.entries), e \in ToSet(p.entries)
        PROVE  e \in ToSet(playbook.entries) /\ (e \in Finished => e \in Finished')
    BY <1>2, <2>2, <2>3, EntriesStand, DoneStays
  <2>4. Ordered(playbook'.entries, q.entries)
    BY <1>2, <2>1, <2>2, OrderStays
  <2>5. ToSet(playbook'.entries) \cap q.complete \subseteq Finished'
    BY <1>2, <2>1, <2>2, <2>3
  <2>6. ASSUME walk'[w].pc = "walk" \/ Launching(w)', NEW i \in 1..(q.at - 1),
               q.entries[i] \in ToSet(playbook'.entries), q.entries[i] \in ToSet(p.entries)
        PROVE  q.entries[i] \in Finished'
    <3>1. q.entries[i] \in ToSet(playbook.entries)
      BY <2>3, <2>6
    <3>2. q.entries[i] \in Finished
      BY <1>2, <2>6, <3>1
    <3>3. QED
      BY <2>3, <2>6, <3>2
  <2>7. walk'[w].pc = "walk" \/ Launching(w)' =>
            \A i \in 1..(q.at - 1) : q.entries[i] \in ToSet(p.entries)
    <3>1. /\ p.at \in Nat /\ p.at <= Len(p.entries) + 1 /\ Len(p.entries) \in Nat
          /\ DOMAIN p.entries = 1..Len(p.entries)
      BY <1>1, <1>2, LenProperties DEF Placed, Passes
    <3>2. q.at <= Len(p.entries) + 1 /\ q.at \in Nat
      BY <1>2, PlacedStep, TypedStep DEF Placed, Typed, Walks, Passes
    <3>3. QED
      BY <1>2, <3>1, <3>2 DEF ToSet
  <2>8. QED
    BY <2>4, <2>5, <2>6, <2>7 DEF Abreast
<1>3. CASE Passing(w) /\ MidPass(w) /\ Goes(w, walk'[w].pc, walk'[w].pass)
  <2>1. /\ playbook' = playbook /\ q.run = p.run /\ q.entries = p.entries
        /\ q.complete = p.complete
    BY <1>3, PassingOnly DEF Goes
  <2>2. SUFFICES ASSUME p.run = playbook.run, Active(playbook.run) PROVE Abreast(w)'
    BY <2>1 DEF Abreast, Active
  <2>3. /\ walk[w].pc = "walk" \/ Launching(w) => Ahead(p)
        /\ ToSet(playbook.entries) \cap p.complete \subseteq Finished
    BY <1>3, <2>2 DEF Once, Abreast
  <2>4. ASSUME walk'[w].pc = "walk" \/ Launching(w)' PROVE Ahead(q)
    <3>1. CASE walk[w].pc = "hold"
      <4>1. q.at = 1
        BY <1>3, <2>4, <3>1 DEF Goes, Placed, Launching
      <4>2. QED
        BY <4>1
    <3>2. CASE walk[w].pc = "walk" /\ walk'[w].pc = "walk"
      <4>1. /\ q.at = p.at + 1 /\ p.at \in DOMAIN p.entries
            /\ Frontier(w) \in p.complete \/ Frontier(w) \in Finished
        BY <1>3, <3>2 DEF Goes
      <4>2. Frontier(w) \in ToSet(playbook.entries) => Frontier(w) \in Finished
        BY <2>3, <4>1
      <4>3. \A i \in 1..(q.at - 1) : i \in 1..(p.at - 1) \/ i = p.at
        BY <1>1, <4>1
      <4>4. QED
        BY <2>1, <2>3, <3>2, <4>2, <4>3 DEF Frontier
    <3>3. CASE walk[w].pc # "hold" /\ ~(walk[w].pc = "walk" /\ walk'[w].pc = "walk")
      <4>1. q.at = p.at /\ (walk[w].pc = "walk" \/ Launching(w))
        BY <1>3, <2>4, <3>3 DEF Goes, Launching
      <4>2. QED
        BY <2>1, <2>3, <4>1
    <3>4. QED
      BY <3>1, <3>2, <3>3
  <2>5. QED
    BY <1>2, <1>3, <2>1, <2>2, <2>4
<1>4. CASE Reads(w)
  <2>1. /\ playbook' = playbook /\ Finished' = Finished /\ walk'[w].pc = "hold"
        /\ q.entries = playbook.entries /\ q.complete \subseteq Finished
    BY <1>4 DEF Reads, Finished, Complete, Terminal
  <2>2. Ordered(playbook.entries, playbook.entries)
    BY DEF Ordered
  <2>3. QED
    BY <2>1, <2>2 DEF Abreast, Launching
<1>5. CASE Writing(w)
  <2>1. /\ MidPass(w) /\ q.entries = p.entries /\ q.complete = p.complete
        /\ p.run = playbook.run /\ Active(playbook.run) /\ q.at = p.at
        /\ walk'[w].pc = "commit" /\ walk[w].pc = "write" /\ q.then = p.then
    BY <1>5 DEF Writing, Unchanged
  <2>2. Launching(w)' => Launching(w)
    BY <2>1 DEF Launching
  <2>3. Launching(w) => Ahead(q)
    BY <2>1 DEF Once, Abreast
  <2>4. QED
    BY <1>2, <2>1, <2>2, <2>3
<1>6. CASE Written(w)
  <2>1. /\ MidPass(w) /\ q = p /\ playbook' = playbook /\ Finished' = Finished
        /\ Launching(w)
    BY <1>6 DEF Written, Finished, Complete, Terminal, Launching
  <2>2. QED
    BY <2>1 DEF Once, Abreast, Active
<1>7. CASE Elsewhere /\ MidPass(w) /\ walk'[w].pc = walk[w].pc /\ walk'[w].pass = walk[w].pass
  <2>1. SUFFICES ASSUME p.run = playbook'.run, Active(playbook'.run) PROVE Abreast(w)'
    BY <1>7 DEF Abreast, Active
  <2>2. playbook'.run = playbook.run /\ Active(playbook.run)
    BY <1>7, <2>1, RunsOnly DEF Active
  <2>3. (Launching(w)' <=> Launching(w)) /\ Abreast(w)
    BY <1>7 DEF Once, Launching
  <2>4. walk[w].pc = "walk" \/ Launching(w) => Ahead(p)
    BY <2>1, <2>2, <2>3 DEF Abreast
  <2>5. QED
    BY <1>2, <1>7, <2>1, <2>2, <2>3, <2>4
<1>8. QED
  BY <1>3, <1>4, <1>5, <1>6, <1>7, Origins

\* The run stands on its spent card, and everything before that is finished.
LEMMA StandsStep ==
    ASSUME Typed, \A w \in Slot : Decided(w), Registry, Locks, \A w \in Slot : Placed(w), Held,
           Distinct, ~Excused, ~Excused', ~Play, Once, [Next]_vars
    PROVE  Stands'
<1>1. /\ playbook \in Books /\ Sound(playbook) /\ mutex.old \in Books
      /\ playbook.entries \in Seq(Entry) /\ sent \subseteq playbook.ids
      /\ walk \in [Slot -> Walks] /\ Unlocked.by = "nobody" /\ Stands
  BY RunOfUnlocked DEF Typed, Books, Once
<1> SUFFICES ASSUME NEW c \in Spent', c \in ToSet(playbook'.entries)
             PROVE  /\ Active(playbook'.run) =>
                          playbook'.run.entry = c /\ Leads(playbook'.entries, c, Finished')
                    /\ mutex'.by = "walker" =>
                          mutex'.old.run.entry = c /\ Active(playbook'.run)
  BY DEF Stands, Active
\* A card that was spent before.
<1>2. ASSUME c \in Spent
      PROVE  /\ c \in ToSet(playbook.entries)
             /\ Active(playbook.run) => playbook.run.entry = c
             /\ Active(playbook.run) => Leads(playbook'.entries, c, Finished')
             /\ mutex.by = "walker" => mutex.old.run.entry = c /\ Active(playbook.run)
  <2>1. c \in ToSet(playbook.entries)
    BY <1>1, <1>2, EntriesStand DEF Spent
  <2>2. /\ Active(playbook.run) => playbook.run.entry = c /\ Leads(playbook.entries, c, Finished)
        /\ mutex.by = "walker" => mutex.old.run.entry = c /\ Active(playbook.run)
    BY <1>1, <1>2, <2>1 DEF Stands
  <2>3. Active(playbook.run) => Leads(playbook'.entries, c, Finished')
    BY <2>2, LeadsStays
  <2>4. QED
    BY <2>1, <2>2, <2>3
<1>3. CASE Requeued(c)
  <2>1. PICK w \in Slot : Queue(w) /\ c = Frontier(w) /\ walk[w].pass.run = playbook.run
    BY <1>3 DEF Requeued
  <2> DEFINE p == walk[w].pass
  <2>2. /\ walk[w].pc = "queue" /\ walk[w].prev = 0 /\ MidPass(w) /\ Launching(w)
        /\ Exists(w)
    BY <2>1 DEF Queue, At, MidPass, Launching, Exists
  <2>3. /\ playbook' = playbook /\ mutex' = mutex
    BY <2>1 DEF Queue
  <2>4. /\ Active(p.run) /\ p.at \in DOMAIN p.entries /\ p.run.entry = c
    BY <2>1, <2>2 DEF Decided
  <2>5. /\ p.entries \in Seq(Entry) /\ DOMAIN p.entries = 1..Len(p.entries)
        /\ Len(p.entries) \in Nat
    BY <1>1, LenProperties DEF Walks, Passes
  <2>6. /\ Ordered(playbook.entries, p.entries) /\ IsInjective(p.entries)
        /\ \A i \in 1..(p.at - 1) : p.entries[i] \in ToSet(playbook.entries) =>
                                        p.entries[i] \in Finished
    BY <2>1, <2>2, <2>4 DEF Once, Abreast, Distinct
  <2>7. PICK j \in DOMAIN playbook.entries : playbook.entries[j] = c
    BY <2>3 DEF ToSet
  <2>8. ASSUME NEW i \in 1..(j - 1) PROVE playbook.entries[i] \in Finished'
    <3>1. i \in DOMAIN playbook.entries /\ i < j
      BY <1>1, <2>7, LenProperties
    <3>2. c \in ToSet(p.entries)
      BY <2>1, <2>4 DEF Frontier, ToSet
    <3>3. PICK k, l \in DOMAIN p.entries : /\ k < l /\ p.entries[k] = playbook.entries[i]
                                           /\ p.entries[l] = c
      BY <2>6, <2>7, <3>1, <3>2 DEF Ordered
    <3>4. l = p.at
      BY <2>1, <2>4, <2>6, <3>3 DEF Frontier, IsInjective
    <3>5. k \in 1..(p.at - 1)
      BY <2>5, <3>3, <3>4
    <3>6. playbook.entries[i] \in ToSet(playbook.entries)
      BY <3>1 DEF ToSet
    <3>7. playbook.entries[i] \in Finished
      BY <2>6, <3>3, <3>5, <3>6
    <3>8. QED
      BY <2>1, <2>4, <3>6, <3>7, DoneStays
  <2>9. Leads(playbook.entries, c, Finished')
    BY <2>7, <2>8 DEF Leads
  <2>10. mutex.by # "walker"
    <3>1. ASSUME NEW v \in Slot, walk[v].pc = "commit" PROVE FALSE
      BY <2>2, <3>1, Commits
    <3>2. QED
      BY <3>1 DEF Locks
  <2>11. QED
    BY <2>1, <2>3, <2>4, <2>9, <2>10
<1>4. CASE ~Requeued(c)
  <2>1. c \in Spent
    BY <1>4, SpentOnly
  <2>2. CASE UNCHANGED <<playbook, mutex>>
    BY <1>2, <2>1, <2>2
  <2>3. CASE \E w \in Slot : Passing(w)
    BY <2>2, <2>3, PassingOnly
  <2>4. CASE playbook' = playbook /\ mutex' = Unlocked
    BY <1>1, <1>2, <2>1, <2>4
  <2>5. ASSUME NEW w \in Slot, Deciding(w)
        PROVE  /\ Active(playbook'.run) =>
                     playbook'.run.entry = c /\ Leads(playbook'.entries, c, Finished')
               /\ mutex'.by = "walker" =>
                     mutex'.old.run.entry = c /\ Active(playbook'.run)
    <3>1. CASE Writing(w)
      <4>1. /\ MidPass(w) /\ walk[w].pc = "write" /\ Active(playbook.run)
            /\ playbook'.run.status = walk[w].pass.want[1]
            /\ playbook'.run.entry = walk[w].pass.want[2] /\ mutex'.old = playbook
            /\ walk[w].pass.entries \in Seq(Entry)
        BY <1>1, <3>1 DEF Writing, Unchanged, Walks, Passes
      <4>2. Aimed(w) /\ Decided(w)
        BY <4>1 DEF Once
      <4>3. c \in Spent \cap ToSet(walk[w].pass.entries)
        BY <1>2, <2>1, <4>2 DEF Aimed, Spent
      <4>4. c = walk[w].pass.want[2] /\ walk[w].pass.then # "release"
        BY <4>1, <4>2, <4>3 DEF Aimed, Target
      <4>5. Active(playbook'.run)
        BY <4>1, <4>2, <4>4 DEF Decided, Active
      <4>6. QED
        BY <1>2, <2>1, <4>1, <4>4, <4>5
    <3>2. CASE walk[w].pc = "commit" /\ mutex' = Unlocked /\ playbook' = mutex.old
      <4>1. mutex.by = "walker" /\ [mutex.old EXCEPT !.run = playbook.run] = playbook
        BY <3>2 DEF Locks
      <4>2. mutex.old.run.entry = c /\ Active(playbook.run)
        BY <1>2, <2>1, <4>1
      <4>3. QED
        BY <1>1, <1>2, <2>1, <3>2, <4>2
    <3>3. CASE RunWrite(w)
      <4>1. MidPass(w)' /\ walk[w].pc = "write" /\ walk'[w].pc = "commit"
        <5>1. \E pass \in Passes : walk[w].pc = "write" /\ Moves(w, "commit", pass)
          BY <3>3, RunWriteOnly
        <5>2. QED
          BY <1>1, <5>1, MovesOnly DEF MidPass, Pcs
      <4>2. Writing(w)
        <5>1. ~Elsewhere \/ walk'[w].pc # walk[w].pc
          BY <4>1
        <5>2. ~(walk[w].pc = "commit") /\ walk'[w].pc # "hold"
          BY <4>1
        <5>3. ~Passing(w)
          BY <4>1, PassingOnly
        <5>4. QED
          BY <4>1, <5>1, <5>2, <5>3, Origins DEF Reads, Written
      <4>3. QED
        BY <3>1, <4>2
    <3>4. CASE RunCommitted(w) \/ RunCommitFails(w)
      <4>1. walk[w].pc = "commit" /\ mutex' = Unlocked
        BY <3>4, AnsweredOnly
      <4>2. playbook' = playbook \/ playbook' = mutex.old
        BY <3>4 DEF RunCommitted, RunCommitFails, Committed, RolledBack
      <4>3. QED
        BY <1>1, <1>2, <2>1, <3>2, <4>1, <4>2
    <3>5. CASE Return(w) \/ PassRead(w) \/ Release(w)
      <4>1. UNCHANGED <<playbook, mutex>>
        BY <3>5 DEF Return, PassRead, Release
      <4>2. QED
        BY <2>2, <4>1
    <3>6. QED
      BY <2>5, <3>3, <3>4, <3>5 DEF Deciding
  <2>6. CASE Elsewhere
    <3>1. /\ playbook'.run = playbook.run \/ ~Active(playbook'.run)
          /\ mutex'.by = "walker" => UNCHANGED <<playbook, mutex>>
      BY <2>6, RunsOnly
    <3>2. QED
      BY <1>2, <2>1, <3>1 DEF Active
  <2>7. QED
    BY <2>3, <2>5, <2>6, StepKinds DEF Elsewhere
<1>5. QED
  BY <1>3, <1>4

LEMMA PlayStartsAfresh ==
    ASSUME Typed, \A w \in Slot : Decided(w), Play
    PROVE  Once'
<1>1. sent' = {}
  BY DEF Play
<1>2. ASSUME NEW w \in Slot PROVE walk'[w].pass.run # playbook'.run
  <2>1. walk' = walk
    BY DEF Play, runnerVars
  <2>2. QED
    BY <2>1, NewBlock
<1>3. \A w \in Slot : Aimed(w)' /\ Abreast(w)'
  BY <1>1, <1>2 DEF Aimed, Abreast, Spent
<1>4. QED
  BY <1>1, <1>3 DEF Once, Stands, Spent

OnceInv == Distinct /\ (\A w \in Slot : Placed(w)) /\ Once

LEMMA OnceInit == Init => OnceInv
<1> SUFFICES ASSUME Init PROVE OnceInv
  OBVIOUS
<1>1. sent = {} /\ \A w \in Slot : ~MidPass(w)
  BY DEF Init, Gone, MidPass
<1>2. QED
  BY <1>1, DistinctInit DEF OnceInv, Placed, Once, Stands, Spent

LEMMA OnceStep ==
    ASSUME IInv, OnceInv, [Next]_vars
    PROVE  OnceInv'
<1>1. /\ Typed /\ (\A w \in Slot : Decided(w)) /\ Registry /\ Locks /\ Held
      /\ Distinct /\ \A w \in Slot : Placed(w)
  BY DEF IInv, OnceInv
<1>2. Distinct' /\ \A w \in Slot : Placed(w)'
  BY <1>1, DistinctStep, PlacedStep
<1>3. ASSUME ~Excused', ~Play PROVE Once'
  <2>1. ~Excused /\ Once
    BY <1>1, <1>3, UndoneBefore DEF OnceInv
  <2>2. sent \subseteq playbook.ids /\ sent \subseteq Card
    BY <1>1, <2>1 DEF Once, Typed
  <2>3. sent' \subseteq playbook'.ids
    <3>1. ASSUME NEW c \in Card, Requeued(c) PROVE c \in playbook.ids
      <4>1. PICK w \in Slot : Queue(w) /\ c = Frontier(w) /\ walk[w].pass.run = playbook.run
        BY <3>1 DEF Requeued
      <4>2. playbook.run.entry = c
        BY <1>1, <4>1 DEF Decided, Queue, At
      <4>3. QED
        BY <1>1, <4>2, RunAssumption DEF Typed, Sound, Entry
    <3>2. QED
      BY <1>1, <1>3, <2>1, <2>2, <3>1, EntriesStand, SentOnly DEF Stays
  <2>4. \A c \in sent' : Tried(c)'
    BY <1>1, <1>3, <2>1, SentOnly DEF Stays
  <2>5. Stands'
    BY <1>1, <1>3, <2>1, StandsStep
  <2>6. \A w \in Slot : MidPass(w)' => Aimed(w)' /\ Abreast(w)'
    BY <1>1, <1>3, <2>1, AimedStep, AbreastStep
  <2>7. QED
    BY <2>3, <2>4, <2>5, <2>6 DEF Once
<1>4. Once'
  <2>1. CASE Excused'
    BY <2>1 DEF Once
  <2>2. QED
    BY <1>1, <1>3, <2>1, PlayStartsAfresh
<1>5. QED
  BY <1>2, <1>4 DEF OnceInv

\* A card is queued for the run once between two Plays, whatever fails and
\* whenever the process restarts, with the exceptions of QueuedOnce: somebody
\* moved it back to todo, its worker ended cleanly while it was in todo (the
\* runner launches it again), or an edit or a Stop was rolled back or a card
\* reopened late.
THEOREM LaunchedOnce == Spec => QueuedOnce
<1> DEFINE Anew == \A c \in Card : card'[c].box = "pending" /\ card[c].box # "pending"
                                     => c \notin sent \/ Excused
<1>1. IInv /\ OnceInv /\ [Next]_vars => Anew
  <2> SUFFICES ASSUME IInv, OnceInv, [Next]_vars, NEW c \in Card,
                      card'[c].box = "pending", card[c].box # "pending", ~Excused
               PROVE  c \notin sent
    OBVIOUS
  <2>1. Typed /\ (\A w \in Slot : Decided(w)) /\ card \in [Card -> Cards]
    BY DEF IInv, Typed
  <2>2. ~NoNewLaunch /\ ~UNCHANGED card
    BY DEF NoNewLaunch
  <2>3. CASE \E w \in Slot : Passing(w)
    <3>1. PICK w \in Slot : Passing(w) /\ Queue(w) /\ c = Frontier(w)
      BY <2>1, <2>3, PassLaunches
    <3>2. MidPass(w) /\ Launching(w) /\ walk[w].pc = "queue"
      BY <3>1 DEF Queue, At, MidPass, Launching
    <3>3. QED
      BY <3>1, <3>2 DEF OnceInv, Once, Aimed
  <2>4. CASE \E w \in Slot : Deciding(w)
    BY <2>2, <2>4, DecidingSends
  <2>5. CASE CardOnly \/ EditStep \/ EditAnswered \/ Play \/ Stop \/ Shutdown \/ Restart
    BY <2>1, <2>2, <2>5, RestartOnly DEF CardOnly, EditStep, EditAnswered, Play, Stop, Shutdown
  <2>6. CASE \E d \in Card : Kill(d) \/ KillFails(d)
    BY <2>1, <2>2, <2>6, KillsOnly
  <2>7. CASE PlayCommitted \/ PlayFails \/ CallEnsure \/ StopCommitted \/ StopWriteFails
             \/ CancelWalker \/ Joined \/ StopWaitExpires \/ StopReturns
    BY <2>2, <2>7 DEF PlayCommitted, PlayFails, CallEnsure, StopCommitted, StopWriteFails,
       CancelWalker, Joined, StopWaitExpires, StopReturns
  <2>8. QED
    BY <2>1, <2>3, <2>4, <2>5, <2>6, <2>7, StepKinds DEF ControlStep
<1>2. Init => OnceInv
  BY OnceInit
<1>3. IInv /\ OnceInv /\ [Next]_vars => OnceInv'
  BY OnceStep
<1>4. Spec => []OnceInv
  BY <1>2, <1>3, Inductive, PTL DEF Spec
<1>5. Spec => [][Anew]_vars
  BY <1>1, <1>4, Inductive, PTL DEF Spec
<1>6. QED
  BY <1>5 DEF QueuedOnce

=============================================================================
