-------------------------- MODULE SharedClaimsProofs --------------------------
(***************************************************************************)
(* Proofs about ClaimMerge and SharedClaims: both sides of a merge come to *)
(* one result, types, a cancelled card is unheld wherever it is, no claim  *)
(* goes in silence, no lease is taken before its time.                     *)
(***************************************************************************)
EXTENDS SharedClaims, TLAPS

-----------------------------------------------------------------------------
(* The merge.                                                               *)

Unheld(c) == c.via = Nobody /\ c.at = Nil /\ c.beat = Nil
Sound(c) == c.state = "not_planned" => Unheld(c)

\* The merge of three cards is a card.
LEMMA MergeTyped ==
    ASSUME NEW b \in Card, NEW o \in Card, NEW t \in Card
    PROVE  MergeCard(b, o, t) \in Card
<1> DEFINE later == o.updated > t.updated
<1>1. MergeState(b, o, t, later) \in State
  BY DEF MergeState, Pick, Card, State, Terminal
<1>2. /\ Pick(b.via, o.via, t.via, later) \in Inst \cup {Nobody}
      /\ PickTime(b.at, o.at, t.at) \in Stamp
      /\ PickTime(b.beat, o.beat, t.beat) \in Stamp
  BY DEF PickTime, Pick, Card
<1>3. MergeFields(b, o, t, later) \in Card
  BY <1>1, <1>2 DEF MergeFields, Card
<1>4. MergeClaim(b, o, t, later) \in Card
  BY <1>3 DEF MergeClaim, Outranks
<1>5. [MergeClaim(b, o, t, later) EXCEPT
         !.updated = IF later THEN o.updated ELSE t.updated] \in Card
  BY <1>4 DEF Card
<1>6. ASSUME NEW c \in Card PROVE Cleared(c) \in Card
  BY DEF Cleared, Card, Stamp, Nil
<1> QED
  BY <1>5, <1>6 DEF MergeCard

\* A card that a merge cancels comes out unheld, whatever its claims were.
LEMMA MergeSound ==
    ASSUME NEW b \in Card, NEW o \in Card, NEW t \in Card
    PROVE  Sound(MergeCard(b, o, t))
<1> DEFINE later == o.updated > t.updated
           merged == [MergeClaim(b, o, t, later) EXCEPT
                        !.updated = IF later THEN o.updated ELSE t.updated]
<1>1. MergeCard(b, o, t) = IF merged.state = "not_planned" THEN Cleared(merged) ELSE merged
  BY DEF MergeCard
<1>2. merged \in Card
  <2>1. MergeClaim(b, o, t, later) \in Card
    <3>1. MergeState(b, o, t, later) \in State
      BY DEF MergeState, Pick, Card, State, Terminal
    <3>2. /\ Pick(b.via, o.via, t.via, later) \in Inst \cup {Nobody}
          /\ PickTime(b.at, o.at, t.at) \in Stamp
          /\ PickTime(b.beat, o.beat, t.beat) \in Stamp
      BY DEF PickTime, Pick, Card
    <3>3. MergeFields(b, o, t, later) \in Card
      BY <3>1, <3>2 DEF MergeFields, Card
    <3> QED
      BY <3>3 DEF MergeClaim, Outranks
  <2> QED
    BY <2>1 DEF Card
<1>3. Unheld(Cleared(merged))
  BY <1>2 DEF Unheld, Cleared, Card
<1> HIDE DEF merged
<1> QED
  BY <1>1, <1>3 DEF Sound

\* When the sides were not updated, or claimed twice, at the same instant, it
\* does not matter which of the two instances makes the merge: both come to
\* the same card (mergeCards, mergeClaim, earlier).
THEOREM MergeAgrees ==
    ASSUME NEW b \in Card, NEW o \in Card, NEW t \in Card,
           o.updated # t.updated, DoubleClaim(b, o, t) => o.at # t.at
    PROVE  MergeCard(b, o, t) = MergeCard(b, t, o)
<1> DEFINE later == o.updated > t.updated
           other == t.updated > o.updated
<1>1. other = ~later
  BY DEF Card
<1>2. /\ MergeState(b, o, t, later) = MergeState(b, t, o, other)
      /\ Pick(b.via, o.via, t.via, later) = Pick(b.via, t.via, o.via, other)
  BY <1>1 DEF MergeState, Pick
<1>3. ASSUME NEW x \in Stamp, NEW y \in Stamp, NEW z \in Stamp
      PROVE  PickTime(x, y, z) = PickTime(x, z, y)
  BY DEF PickTime, Pick, Stamp, Nil
<1>4. /\ PickTime(b.at, o.at, t.at) = PickTime(b.at, t.at, o.at)
      /\ PickTime(b.beat, o.beat, t.beat) = PickTime(b.beat, t.beat, o.beat)
  BY <1>3 DEF Card
<1> DEFINE m == MergeClaim(b, o, t, later)
           n == MergeClaim(b, t, o, other)
           fo == MergeFields(b, o, t, later)
           ft == MergeFields(b, t, o, other)
           u == IF later THEN o.updated ELSE t.updated
<1>5. \/ m = n
      \/ m = fo /\ n = ft /\ o.epoch = t.epoch
  <2>1. CASE o.epoch > t.epoch
    BY <2>1 DEF MergeClaim, Card
  <2>2. CASE t.epoch > o.epoch
    BY <2>2 DEF MergeClaim, Card
  <2>3. CASE o.epoch = t.epoch
    BY <2>3 DEF MergeClaim, DoubleClaim, ReleasedInto, Card, Stamp, Nil
  <2> QED
    BY <2>1, <2>2, <2>3 DEF Card
<1>6. CASE m = n
  <2>1. u = IF other THEN t.updated ELSE o.updated
    BY <1>1
  <2> HIDE DEF u, m, n
  <2> QED
    BY <1>6, <2>1 DEF MergeCard, m, n, u
<1>7. CASE m = fo /\ n = ft /\ o.epoch = t.epoch
  <2>1. u = IF other THEN t.updated ELSE o.updated
    BY <1>1
  <2>2. [fo EXCEPT !.updated = u] = [ft EXCEPT !.updated = u]
    BY <1>2, <1>4, <1>7 DEF MergeFields
  <2> HIDE DEF u, m, n, fo, ft
  <2> QED
    BY <1>7, <2>1, <2>2 DEF MergeCard, m, n, u
<1> QED
  BY <1>5, <1>6, <1>7

-----------------------------------------------------------------------------
(* Types.                                                                   *)

Tip == [card : Card, since : 0..now]
Cycle == [pc : {"idle", "apply", "push", "again"},
          call : {"none", "claim", "force", "stall"}, wrote : BOOLEAN,
          attempt : 0..(MaxAttempts - 1), pulled : BOOLEAN,
          read : Card \cup {Nobody}, written : Card \cup {Nobody}]
Lease == [beat : Stamp, epoch : Nat \cup {Nil}, seen : 0..now]

Boards ==
    /\ now \in 0..MaxTime /\ skew \in [Inst -> Skews]
    /\ tip \in Tip /\ base \in [Inst -> Tip] /\ behind \in [Inst -> BOOLEAN]
    /\ local \in [Inst -> Card] /\ ahead \in [Inst -> BOOLEAN]
    /\ cycle \in [Inst -> Cycle]
    /\ \A i \in Inst : cycle[i].wrote => cycle[i].read \in Card /\ cycle[i].written \in Card

Tables ==
    /\ asking \in [Inst -> {"no", "running", "answer"}]
    /\ beats \in [Inst -> Stamp] /\ confirmed \in [Inst -> Stamp]
    /\ synced \in [Inst -> Stamp] /\ told \in [Inst -> BOOLEAN]
    /\ foreign \in [Inst -> Lease \cup {NoLease}]
    /\ sunk \in BOOLEAN /\ reopened \in BOOLEAN

\* What a cancelled card looks like, on every board, on the remote and in the
\* card a cycle would restore.
Cancelled ==
    /\ Sound(tip.card)
    /\ \A i \in Inst : Sound(local[i]) /\ (cycle[i].wrote => Sound(cycle[i].read))

Inv == Boards /\ Tables /\ Cancelled

\* What the assumptions say of the bounds that the proofs use.
LEMMA Bounds ==
    /\ MaxTime \in Nat /\ MaxAttempts \in Nat /\ MaxAttempts > 0
    /\ Skews \subseteq Nat /\ Starts \subseteq State /\ Nobody \notin Inst
<1>1. MaxTime \in {MaxTime, MaxCalls, MaxFaults, MaxCrashes}
  OBVIOUS
<1>2. MaxTime \in Nat
  BY <1>1, LeaseAssumption
<1> QED
  BY <1>2, LeaseAssumption, InstAssumption

\* An instance's clock shows a natural number.
LEMMA ClockNat ==
    ASSUME Boards, NEW i \in Inst
    PROVE  Clock(i) \in Nat
<1>1. now \in 0..MaxTime /\ skew \in [Inst -> Skews]
  BY DEF Boards
<1>2. now \in Nat
  BY <1>1, Bounds
<1>3. skew[i] \in Skews /\ Skews \subseteq Nat
  BY <1>1, Bounds
<1>4. skew[i] \in Nat
  BY <1>3
<1> QED
  BY <1>2, <1>4 DEF Clock

\* The updates of a card that the actions make.
LEMMA CardUpdates ==
    ASSUME NEW c \in Card, NEW n \in Nat, NEW x \in Nat
    PROVE  /\ [c EXCEPT !.epoch = n, !.updated = x] \in Card
           /\ Unheld(c) => Unheld([c EXCEPT !.epoch = n, !.updated = x])
           /\ [c EXCEPT !.updated = x] \in Card
           /\ Sound(c) => Sound([c EXCEPT !.updated = x])
           /\ [c EXCEPT !.beat = x, !.updated = x] \in Card
           /\ Cleared(c) \in Card /\ Unheld(Cleared(c))
BY DEF Card, Unheld, Sound, Cleared, Stamp, Nil

\* A dropped and a stalled card are sound cards.
LEMMA CardSteps ==
    ASSUME NEW c \in Card, NEW i \in Inst, Boards
    PROVE  /\ Dropped(i, c) \in Card /\ Sound(Dropped(i, c))
           /\ Stalled(i, c) \in Card /\ Sound(Stalled(i, c))
<1>1. Clock(i) \in Nat
  BY ClockNat
<1> DEFINE d == Cleared(c)
           e == [d EXCEPT !.epoch = d.epoch + 1, !.updated = Clock(i)]
<1>2. d \in Card /\ Unheld(d) /\ d.epoch + 1 \in Nat
  <2>1. d \in Card /\ Unheld(d)
    BY CardUpdates, <1>1
  <2> HIDE DEF d
  <2>2. d.epoch \in Nat
    BY <2>1 DEF Card
  <2> QED
    BY <2>1, <2>2
<1>3. e \in Card /\ Unheld(e)
  <2> HIDE DEF d
  <2> QED
    BY CardUpdates, <1>1, <1>2
<1>4. Dropped(i, c) = e
  BY DEF Dropped
<1> HIDE DEF e
<1>5. [e EXCEPT !.state = "stalled"] \in Card /\ Sound([e EXCEPT !.state = "stalled"])
  BY <1>3 DEF Card, State, Sound
<1> QED
  BY <1>3, <1>4, <1>5 DEF Stalled, Sound

\* The invariant holds when every board is the remote's first commit.
LEMMA InitInv == Init => Inv
<1> SUFFICES ASSUME Init PROVE Inv
  OBVIOUS
<1>1. PICK s \in Starts :
        LET card == [state |-> s, via |-> Nobody, at |-> Nil, beat |-> Nil,
                     epoch |-> 0, updated |-> 0]
        IN  tip = [card |-> card, since |-> 0] /\ local = [i \in Inst |-> card]
  BY DEF Init
<1>2. tip.card \in Card /\ Unheld(tip.card) /\ tip \in Tip
  BY <1>1, Bounds DEF Init, Card, Stamp, Nil, Unheld, Tip
<1>3. local = [i \in Inst |-> tip.card]
  BY <1>1
<1>4. Idle \in Cycle /\ ~Idle.wrote
  BY Bounds DEF Idle, Cycle
<1>5. Boards
  BY <1>2, <1>3, <1>4, Bounds DEF Init, Boards
<1>6. Tables
  BY DEF Init, Tables, Stamp, Nil
<1>7. Cancelled
  BY <1>2, <1>3, <1>4 DEF Init, Cancelled, Sound
<1> QED
  BY <1>5, <1>6, <1>7 DEF Inv

-----------------------------------------------------------------------------
(* Steps.  Each lemma takes one shape of step.                              *)

BoardsInv == Boards /\ Cancelled
OtherVars == <<now, skew, tip, base, behind>>

\* A board gets a card that is sound; the cycle stays, or ends.
LEMMA PutInv ==
    ASSUME BoardsInv, NEW i \in Inst, NEW c \in Card, Sound(c),
           Put(i, c), UNCHANGED OtherVars,
           cycle' = cycle \/ cycle' = [cycle EXCEPT ![i] = Idle]
    PROVE  BoardsInv'
<1>1. local' \in [Inst -> Card] /\ ahead' \in [Inst -> BOOLEAN]
  BY DEF BoardsInv, Boards, Put
<1>2. \A j \in Inst : Sound(local'[j])
  BY DEF BoardsInv, Boards, Cancelled, Put
<1>3. Idle \in Cycle /\ ~Idle.wrote
  BY Bounds DEF Idle, Cycle
<1>4. /\ cycle' \in [Inst -> Cycle]
      /\ \A j \in Inst : cycle'[j].wrote => cycle'[j] = cycle[j]
  BY <1>3 DEF BoardsInv, Boards
<1>5. Boards'
  BY <1>1, <1>4 DEF BoardsInv, Boards, OtherVars, Tip, Cycle
<1>6. Cancelled'
  BY <1>2, <1>4 DEF BoardsInv, Cancelled, OtherVars
<1> QED
  BY <1>5, <1>6 DEF BoardsInv

\* A step that leaves the cards alone and moves or ends a cycle.
LEMMA CycleInv ==
    ASSUME BoardsInv, NEW i \in Inst, NEW r \in Cycle,
           r.wrote => cycle[i].wrote /\ r.read = cycle[i].read /\ r.written = cycle[i].written,
           cycle' = [cycle EXCEPT ![i] = r],
           UNCHANGED <<OtherVars, local>>, ahead' \in [Inst -> BOOLEAN]
    PROVE  BoardsInv'
<1>1. cycle' \in [Inst -> Cycle]
  BY DEF BoardsInv, Boards
<1>2. \A j \in Inst : cycle'[j].wrote =>
         /\ cycle[j].wrote /\ cycle'[j].read = cycle[j].read
         /\ cycle'[j].written = cycle[j].written
  BY DEF BoardsInv, Boards
<1>3. Boards'
  BY <1>1, <1>2 DEF BoardsInv, Boards, OtherVars, Tip, Cycle
<1>4. Cancelled'
  BY <1>2 DEF BoardsInv, Cancelled, OtherVars
<1> QED
  BY <1>3, <1>4 DEF BoardsInv

\* What integrate leaves on a board is a sound card.
LEMMA IntegratedSound ==
    ASSUME BoardsInv, NEW i \in Inst
    PROVE  Integrated(i) \in Card /\ Sound(Integrated(i))
<1>1. local[i] \in Card /\ tip.card \in Card /\ base[i].card \in Card
  BY DEF BoardsInv, Boards, Tip
<1>2. Sound(local[i]) /\ Sound(tip.card)
  BY DEF BoardsInv, Cancelled
<1> QED
  BY <1>1, <1>2, MergeTyped, MergeSound DEF Integrated

\* The card that an undo restores is sound, whatever the push did.
LEMMA FailKeeps ==
    ASSUME BoardsInv, NEW i \in Inst, NEW b \in BOOLEAN, Fail(i, b)
    PROVE  /\ local' \in [Inst -> Card] /\ ahead' \in [Inst -> BOOLEAN]
           /\ cycle' \in [Inst -> Cycle] /\ UNCHANGED <<now, skew>>
           /\ \A j \in Inst : Sound(local'[j])
           /\ \A j \in Inst : cycle'[j].wrote => cycle'[j] = cycle[j]
<1> DEFINE c == [cycle[i].read EXCEPT !.updated = Clock(i)]
<1>1. /\ local' = local \/ (Undoable(i) /\ local' = [local EXCEPT ![i] = c])
      /\ ahead' = [ahead EXCEPT ![i] = TRUE] \/ ahead' = [ahead EXCEPT ![i] = b]
      /\ cycle' = [cycle EXCEPT ![i] = Idle] /\ UNCHANGED <<now, skew>>
  <2>1. CASE Undoable(i)
    <3>1. Put(i, c) /\ cycle' = [cycle EXCEPT ![i] = Idle] /\ UNCHANGED <<now, skew>>
      BY <2>1 DEF Fail
    <3> HIDE DEF c
    <3> QED
      BY <2>1, <3>1 DEF Put
  <2>2. CASE ~Undoable(i)
    BY <2>2 DEF Fail
  <2> QED
    BY <2>1, <2>2
<1>2. Undoable(i) => c \in Card /\ Sound(c)
  <2> SUFFICES ASSUME Undoable(i) PROVE c \in Card /\ Sound(c)
    OBVIOUS
  <2>1. cycle[i].read \in Card /\ Sound(cycle[i].read)
    BY DEF Undoable, BoardsInv, Boards, Cancelled
  <2>2. Clock(i) \in Nat
    BY ClockNat DEF BoardsInv
  <2> QED
    BY <2>1, <2>2, CardUpdates
<1> HIDE DEF c
<1>3. Idle \in Cycle /\ ~Idle.wrote
  BY Bounds DEF Idle, Cycle
<1>4. local' \in [Inst -> Card] /\ ahead' \in [Inst -> BOOLEAN]
  BY <1>1, <1>2 DEF BoardsInv, Boards
<1>5. \A j \in Inst : Sound(local'[j])
  BY <1>1, <1>2 DEF BoardsInv, Boards, Cancelled
<1>6. /\ cycle' \in [Inst -> Cycle]
      /\ \A j \in Inst : cycle'[j].wrote => cycle'[j] = cycle[j]
  BY <1>1, <1>3 DEF BoardsInv, Boards
<1> QED
  BY <1>1, <1>4, <1>5, <1>6

\* A cycle that ends with an undo, next to any change of the remote.
LEMMA FailInv ==
    ASSUME BoardsInv, NEW i \in Inst, NEW b \in BOOLEAN, Fail(i, b),
           tip' \in Tip, Sound(tip'.card), base' \in [Inst -> Tip], behind' \in [Inst -> BOOLEAN]
    PROVE  BoardsInv'
<1>1. /\ local' \in [Inst -> Card] /\ ahead' \in [Inst -> BOOLEAN]
      /\ cycle' \in [Inst -> Cycle] /\ UNCHANGED <<now, skew>>
  BY FailKeeps
<1>2. /\ \A j \in Inst : Sound(local'[j])
      /\ \A j \in Inst : cycle'[j].wrote => cycle'[j] = cycle[j]
  BY FailKeeps
<1>3. Boards'
  BY <1>1, <1>2 DEF BoardsInv, Boards, Tip, Cycle
<1>4. Cancelled'
  BY <1>2 DEF BoardsInv, Cancelled
<1> QED
  BY <1>3, <1>4 DEF BoardsInv

\* A cycle that ends with an undo and leaves the remote as it was.
LEMMA FailBoards ==
    ASSUME BoardsInv, NEW i \in Inst, Fail(i, TRUE), UNCHANGED <<tip, base, behind>>
    PROVE  BoardsInv'
<1>1. /\ tip' \in Tip /\ Sound(tip'.card) /\ base' \in [Inst -> Tip]
      /\ behind' \in [Inst -> BOOLEAN]
  BY DEF BoardsInv, Boards, Cancelled
<1> QED
  BY <1>1, FailInv

-----------------------------------------------------------------------------
(* The boards, action by action.                                            *)

\* A beat renews the lease of a card that has a holder.
LEMMA HeartbeatBoards == ASSUME BoardsInv, NEW i \in Inst, Heartbeat(i) PROVE BoardsInv'
<1> DEFINE c == [local[i] EXCEPT !.beat = Clock(i), !.updated = Clock(i)]
<1>1. UNCHANGED <<OtherVars, cycle>>
  BY DEF Heartbeat, Writes, OtherVars
<1>2. CASE Put(i, c)
  <2>1. local[i] \in Card /\ Sound(local[i]) /\ local[i].via = i
    BY DEF BoardsInv, Boards, Cancelled, Heartbeat
  <2>2. c \in Card
    <3>1. Clock(i) \in Nat
      BY ClockNat DEF BoardsInv
    <3> QED
      BY <2>1, <3>1, CardUpdates
  <2>3. Sound(c)
    BY <2>1, Bounds DEF Sound, Unheld, Card
  <2> HIDE DEF c
  <2> QED
    BY <1>1, <1>2, <2>2, <2>3, PutInv DEF OtherVars
<1>3. CASE UNCHANGED <<local, ahead>>
  BY <1>1, <1>3 DEF BoardsInv, Boards, Cancelled, OtherVars, Tip, Cycle
<1> QED
  BY <1>2, <1>3 DEF Heartbeat

\* A release, and the sweep's own stalls, leave a card without a claim.
LEMMA ReleaseBoards == ASSUME BoardsInv, NEW i \in Inst, ReleaseCard(i) PROVE BoardsInv'
<1>1. local[i] \in Card
  BY DEF BoardsInv, Boards
<1>2. Dropped(i, local[i]) \in Card /\ Sound(Dropped(i, local[i]))
  BY <1>1, CardSteps DEF BoardsInv
<1>3. Put(i, Dropped(i, local[i])) /\ UNCHANGED <<OtherVars, cycle>>
  BY DEF ReleaseCard, Writes, OtherVars
<1> QED
  BY <1>2, <1>3, PutInv DEF OtherVars

\* A stall of this instance's own sweep.
LEMMA StallBoards == ASSUME BoardsInv, NEW i \in Inst, Stall(i) PROVE BoardsInv'
<1>1. local[i] \in Card
  BY DEF BoardsInv, Boards
<1>2. Stalled(i, local[i]) \in Card /\ Sound(Stalled(i, local[i]))
  BY <1>1, CardSteps DEF BoardsInv
<1>3. Put(i, Stalled(i, local[i])) /\ UNCHANGED <<OtherVars, cycle>>
  BY DEF Stall, Writes, OtherVars
<1> QED
  BY <1>2, <1>3, PutInv DEF OtherVars

\* A cancelled card that is edited stays unheld: its editor is not a holder.
LEMMA MutateBoards ==
    ASSUME BoardsInv, NEW i \in Inst, NEW s \in State, NEW byHolder \in BOOLEAN,
           Mutate(i, s, byHolder)
    PROVE  BoardsInv'
<1> DEFINE old == local[i]
           x == Clock(i)
           b == IF byHolder THEN x ELSE old.beat
           n == IF s # old.state /\ s \in Terminal THEN old.epoch + 1 ELSE old.epoch
           moved == [old EXCEPT !.state = s, !.updated = x, !.beat = b, !.epoch = n]
<1>1. old \in Card /\ Sound(old) /\ x \in Nat
  BY ClockNat DEF BoardsInv, Boards, Cancelled
<1>2. b \in Stamp /\ n \in Nat
  <2> HIDE DEF old, x
  <2>1. old.epoch \in Nat /\ old.beat \in Stamp
    BY <1>1 DEF Card
  <2> QED
    BY <1>1, <2>1 DEF Stamp
<1>3. /\ moved \in Card /\ moved.state = s
      /\ moved.via = old.via /\ moved.at = old.at /\ moved.beat = b
  <2> HIDE DEF b, n, x, old
  <2> QED
    BY <1>1, <1>2 DEF Card
<1>4. UNCHANGED <<OtherVars, cycle>>
  BY DEF Mutate, Writes, OtherVars
<1>5. CASE s # old.state /\ s = "not_planned"
  <2>1. Put(i, Cleared(moved))
    BY <1>5 DEF Mutate
  <2> HIDE DEF moved
  <2>2. Cleared(moved) \in Card /\ Sound(Cleared(moved))
    BY <1>1, <1>3, CardUpdates DEF Sound
  <2> QED
    BY <1>4, <2>1, <2>2, PutInv DEF OtherVars
<1>6. CASE ~(s # old.state /\ s = "not_planned")
  <2>1. Put(i, moved)
    BY <1>6 DEF Mutate
  <2>2. byHolder => old.via = i
    BY DEF Mutate
  <2>3. Sound(moved)
    BY <1>1, <1>3, <1>6, <2>2, Bounds DEF Sound, Unheld
  <2> HIDE DEF moved
  <2> QED
    BY <1>3, <1>4, <2>1, <2>3, PutInv DEF OtherVars
<1> QED
  BY <1>5, <1>6

\* A pull, whatever cycle it is part of.
LEMMA PullInv ==
    ASSUME BoardsInv, NEW i \in Inst, Pull(i), NEW r \in Cycle,
           r.wrote => cycle[i].wrote /\ r.read = cycle[i].read /\ r.written = cycle[i].written,
           cycle' = [cycle EXCEPT ![i] = r]
    PROVE  BoardsInv'
<1> DEFINE c == Integrated(i)
<1>1. c \in Card /\ Sound(c)
  BY IntegratedSound
<1>2. /\ local' = [local EXCEPT ![i] = c] /\ base' = [base EXCEPT ![i] = tip]
      /\ behind' = [behind EXCEPT ![i] = FALSE] /\ UNCHANGED <<now, skew, tip, ahead>>
  BY DEF Pull
<1> HIDE DEF c
<1>3. /\ local' \in [Inst -> Card] /\ base' \in [Inst -> Tip] /\ behind' \in [Inst -> BOOLEAN]
      /\ cycle' \in [Inst -> Cycle]
  BY <1>1, <1>2 DEF BoardsInv, Boards
<1>4. /\ \A j \in Inst : Sound(local'[j])
      /\ \A j \in Inst : cycle'[j].wrote =>
           /\ cycle[j].wrote /\ cycle'[j].read = cycle[j].read
           /\ cycle'[j].written = cycle[j].written
  BY <1>1, <1>2 DEF BoardsInv, Boards, Cancelled
<1>5. Boards'
  BY <1>2, <1>3, <1>4 DEF BoardsInv, Boards, Tip, Cycle
<1>6. Cancelled'
  BY <1>2, <1>4 DEF BoardsInv, Cancelled
<1> QED
  BY <1>5, <1>6 DEF BoardsInv

\* A cycle begins with what integrate makes of the two sides.
LEMMA FetchBoards ==
    ASSUME BoardsInv, NEW i \in Inst, NEW call \in {"none", "claim", "force", "stall"},
           Fetch(i, call)
    PROVE  BoardsInv'
<1> DEFINE p == IF call = "none" THEN "push" ELSE "apply"
           r == [Idle EXCEPT !.pc = p, !.call = call, !.pulled = behind[i]]
<1>1. behind[i] \in BOOLEAN
  BY DEF BoardsInv, Boards
<1>2. r \in Cycle /\ ~r.wrote
  <2>1. Idle \in Cycle /\ ~Idle.wrote
    BY Bounds DEF Idle, Cycle
  <2>2. p \in {"push", "apply"}
    OBVIOUS
  <2> HIDE DEF p
  <2> QED
    BY <1>1, <2>1, <2>2 DEF Cycle
<1>3. Pull(i) /\ cycle' = [cycle EXCEPT ![i] = r]
  BY DEF Fetch
<1> HIDE DEF r
<1> QED
  BY <1>2, <1>3, PullInv

\* A rejected push is followed by another integrate.
LEMMA RefetchBoards == ASSUME BoardsInv, NEW i \in Inst, Refetch(i) PROVE BoardsInv'
<1> DEFINE r == [cycle[i] EXCEPT !.pc = "push", !.pulled = TRUE]
<1>1. cycle[i] \in Cycle /\ cycle \in [Inst -> Cycle]
  BY DEF BoardsInv, Boards
<1>2. /\ r \in Cycle /\ r.wrote = cycle[i].wrote
      /\ r.read = cycle[i].read /\ r.written = cycle[i].written
  BY <1>1 DEF Cycle
<1>3. Pull(i) /\ cycle' = [cycle EXCEPT ![i] = r]
  BY <1>1 DEF Refetch, Cycle
<1> HIDE DEF r
<1> QED
  BY <1>2, <1>3, PullInv

\* A verified write: the board gets the card, and the cycle what it read.
LEMMA ApplyInv ==
    ASSUME BoardsInv, NEW i \in Inst, NEW c \in Card, Sound(c), Apply(i, c), UNCHANGED OtherVars
    PROVE  BoardsInv'
<1> DEFINE r == [cycle[i] EXCEPT !.pc = "push", !.wrote = TRUE, !.read = local[i], !.written = c]
<1>1. /\ cycle[i] \in Cycle /\ cycle \in [Inst -> Cycle]
      /\ local[i] \in Card /\ Sound(local[i])
  BY DEF BoardsInv, Boards, Cancelled
<1>2. r \in Cycle /\ r.read = local[i] /\ r.written = c
  BY <1>1 DEF Cycle
<1>3. cycle' = [cycle EXCEPT ![i] = r] /\ Put(i, c)
  BY <1>1 DEF Apply, Cycle
<1> HIDE DEF r
<1>4. local' \in [Inst -> Card] /\ ahead' \in [Inst -> BOOLEAN] /\ cycle' \in [Inst -> Cycle]
  BY <1>2, <1>3 DEF BoardsInv, Boards, Put
<1>5. \A j \in Inst : cycle'[j].wrote => cycle'[j].read \in Card /\ cycle'[j].written \in Card
  BY <1>1, <1>2, <1>3 DEF BoardsInv, Boards
<1>6. \A j \in Inst : Sound(local'[j])
  BY <1>3 DEF BoardsInv, Boards, Cancelled, Put
<1>7. \A j \in Inst : cycle'[j].wrote => Sound(cycle'[j].read)
  BY <1>1, <1>2, <1>3 DEF BoardsInv, Cancelled
<1>8. Boards'
  BY <1>4, <1>5 DEF BoardsInv, Boards, OtherVars, Tip, Cycle
<1>9. Cancelled'
  BY <1>6, <1>7 DEF BoardsInv, Cancelled, OtherVars
<1> QED
  BY <1>8, <1>9 DEF BoardsInv

\* A claim is applied to a card that is open, so never to a cancelled one.
LEMMA ClaimBoards == ASSUME BoardsInv, NEW i \in Inst, ApplyClaim(i) PROVE BoardsInv'
<1> DEFINE renewed == [local[i] EXCEPT !.beat = Clock(i), !.updated = Clock(i)]
           taken == [renewed EXCEPT !.via = i, !.at = Clock(i), !.epoch = renewed.epoch + 1]
<1>1. local[i] \in Card /\ Sound(local[i]) /\ Clock(i) \in Nat
  BY ClockNat DEF BoardsInv, Boards, Cancelled
<1>2. renewed \in Card /\ renewed.state = local[i].state
  BY <1>1, CardUpdates DEF Card
<1>3. taken \in Card /\ taken.state = local[i].state
  <2>1. ASSUME NEW d \in Card, NEW n \in Nat, NEW x \in Nat
        PROVE  LET e == [d EXCEPT !.via = i, !.at = x, !.epoch = n]
               IN  e \in Card /\ e.state = d.state
    BY DEF Card, Stamp
  <2> HIDE DEF renewed
  <2>2. renewed.epoch + 1 \in Nat
    BY <1>2 DEF Card
  <2> QED
    BY <1>1, <1>2, <2>1, <2>2
<1>4. local[i].state # "not_planned"
  BY <1>1, Bounds DEF ApplyClaim, Claimable, Terminal, Sound, Unheld
<1>5. UNCHANGED OtherVars
  BY DEF ApplyClaim, Applies, OtherVars
<1>6. Apply(i, renewed) \/ Apply(i, taken)
  BY DEF ApplyClaim
<1> HIDE DEF renewed, taken
<1>7. Sound(renewed) /\ Sound(taken)
  BY <1>2, <1>3, <1>4 DEF Sound
<1> QED
  BY <1>2, <1>3, <1>5, <1>6, <1>7, ApplyInv

\* A forced release leaves a card without a claim.
LEMMA ForceBoards == ASSUME BoardsInv, NEW i \in Inst, ApplyForceRelease(i) PROVE BoardsInv'
<1>1. Dropped(i, local[i]) \in Card /\ Sound(Dropped(i, local[i]))
  BY CardSteps DEF BoardsInv, Boards
<1>2. Apply(i, Dropped(i, local[i])) /\ UNCHANGED OtherVars
  BY DEF ApplyForceRelease, Applies, OtherVars
<1> QED
  BY <1>1, <1>2, ApplyInv

\* So does the stall of a peer's card.
LEMMA ForeignStallBoards == ASSUME BoardsInv, NEW i \in Inst, ApplyForeignStall(i) PROVE BoardsInv'
<1>1. Stalled(i, local[i]) \in Card /\ Sound(Stalled(i, local[i]))
  BY CardSteps DEF BoardsInv, Boards
<1>2. Apply(i, Stalled(i, local[i])) /\ UNCHANGED OtherVars
  BY DEF ApplyForeignStall, Applies, OtherVars
<1> QED
  BY <1>1, <1>2, ApplyInv

\* The steps that leave the cards alone.
LEMMA IdleBoards ==
    ASSUME BoardsInv, NEW i \in Inst, cycle' = [cycle EXCEPT ![i] = Idle],
           UNCHANGED <<OtherVars, local>>, ahead' \in [Inst -> BOOLEAN]
    PROVE  BoardsInv'
<1>1. Idle \in Cycle /\ ~Idle.wrote
  BY Bounds DEF Idle, Cycle
<1> QED
  BY <1>1, CycleInv

\* A write that is refused ends the cycle and nothing else.
LEMMA RefuseBoards ==
    ASSUME BoardsInv, NEW i \in Inst, RefuseClaim(i) \/ RefuseForceRelease(i)
    PROVE  BoardsInv'
<1>1. /\ cycle' = [cycle EXCEPT ![i] = Idle]
      /\ UNCHANGED <<OtherVars, local, ahead>>
  BY DEF RefuseClaim, RefuseForceRelease, RefuseApply, Applies, OtherVars
<1>2. ahead \in [Inst -> BOOLEAN]
  BY DEF BoardsInv, Boards
<1> QED
  BY <1>1, <1>2, IdleBoards

\* A candidate that is none any more ends the cycle's write, and nothing else.
LEMMA StallNothingBoards == ASSUME BoardsInv, NEW i \in Inst, StallNothing(i) PROVE BoardsInv'
<1> DEFINE r == [cycle[i] EXCEPT !.pc = "push"]
<1>1. cycle[i] \in Cycle /\ cycle \in [Inst -> Cycle] /\ ahead \in [Inst -> BOOLEAN]
  BY DEF BoardsInv, Boards
<1>2. /\ r \in Cycle /\ r.wrote = cycle[i].wrote
      /\ r.read = cycle[i].read /\ r.written = cycle[i].written
  BY <1>1 DEF Cycle
<1>3. cycle' = [cycle EXCEPT ![i] = r] /\ UNCHANGED <<OtherVars, local, ahead>>
  BY <1>1 DEF StallNothing, Applies, OtherVars, Cycle
<1> HIDE DEF r
<1> QED
  BY <1>1, <1>2, <1>3, CycleInv

\* A cycle with nothing to push ends.
LEMMA NothingToPushBoards == ASSUME BoardsInv, NEW i \in Inst, NothingToPush(i) PROVE BoardsInv'
<1>1. /\ cycle' = [cycle EXCEPT ![i] = Idle]
      /\ UNCHANGED <<OtherVars, local, ahead>>
  BY DEF NothingToPush, Success, OtherVars
<1>2. ahead \in [Inst -> BOOLEAN]
  BY DEF BoardsInv, Boards
<1> QED
  BY <1>1, <1>2, IdleBoards

\* A push puts a board's card on the remote, and changes no board's card.
LEMMA LandsKeeps ==
    ASSUME BoardsInv, NEW i \in Inst, Lands(i), UNCHANGED now
    PROVE  /\ tip' \in Tip /\ Sound(tip'.card)
           /\ base' \in [Inst -> Tip] /\ behind' \in [Inst -> BOOLEAN]
<1>1. local[i] \in Card /\ Sound(local[i]) /\ tip \in Tip /\ now \in Nat /\ base \in [Inst -> Tip]
  <2>1. now \in 0..MaxTime
    BY DEF BoardsInv, Boards
  <2>2. now \in Nat
    BY <2>1, Bounds
  <2> QED
    BY <2>2 DEF BoardsInv, Boards, Cancelled
<1> DEFINE s == IF SameLease(tip.card, local[i]) THEN tip.since ELSE now
<1>2. s \in 0..now
  BY <1>1 DEF Tip
<1>3. tip' = [card |-> local[i], since |-> s]
  BY DEF Lands
<1> HIDE DEF s
<1>4. tip' \in Tip /\ Sound(tip'.card)
  BY <1>1, <1>2, <1>3 DEF Tip
<1>5. base' = [base EXCEPT ![i] = tip'] /\ behind' = [j \in Inst |-> j # i]
  BY DEF Lands
<1>6. behind' \in [Inst -> BOOLEAN]
  BY <1>5
<1> QED
  BY <1>1, <1>4, <1>5, <1>6

\* A push puts a sound card on the remote and ends the cycle.
LEMMA PushLandsBoards == ASSUME BoardsInv, NEW i \in Inst, PushLands(i) PROVE BoardsInv'
<1>1. Lands(i) /\ UNCHANGED <<now, skew, local>> /\ cycle' = [cycle EXCEPT ![i] = Idle]
  BY DEF PushLands, Success
<1>2. /\ tip' \in Tip /\ Sound(tip'.card)
      /\ base' \in [Inst -> Tip] /\ behind' \in [Inst -> BOOLEAN]
  BY <1>1, LandsKeeps
<1>3. Idle \in Cycle /\ ~Idle.wrote
  BY Bounds DEF Idle, Cycle
<1>4. ahead' \in [Inst -> BOOLEAN]
  BY DEF PushLands, BoardsInv, Boards
<1>5. cycle' \in [Inst -> Cycle] /\ \A j \in Inst : cycle'[j].wrote => cycle'[j] = cycle[j]
  BY <1>1, <1>3 DEF BoardsInv, Boards
<1>6. Boards'
  BY <1>1, <1>2, <1>4, <1>5 DEF BoardsInv, Boards, Tip, Cycle
<1>7. Cancelled'
  BY <1>1, <1>2, <1>5 DEF BoardsInv, Cancelled
<1> QED
  BY <1>6, <1>7 DEF BoardsInv

\* A push that landed may still be undone on its own board.
LEMMA PushAnswerLostBoards == ASSUME BoardsInv, NEW i \in Inst, PushAnswerLost(i) PROVE BoardsInv'
<1>1. Lands(i) /\ Fail(i, FALSE) /\ UNCHANGED now
  BY DEF PushAnswerLost, Fail
<1> QED
  BY <1>1, LandsKeeps, FailInv

\* A push or a fetch that fails ends with the undo.
LEMMA PushFailsBoards ==
    ASSUME BoardsInv, NEW i \in Inst, PushFails(i) \/ RefetchFails(i)
    PROVE  BoardsInv'
BY FailBoards DEF PushFails, RefetchFails

\* A rejected push is tried again, or undone.
LEMMA PushRejectedBoards == ASSUME BoardsInv, NEW i \in Inst, PushRejected(i) PROVE BoardsInv'
<1>1. CASE cycle[i].attempt + 1 < MaxAttempts
  <2> DEFINE r == [cycle[i] EXCEPT !.pc = "again", !.attempt = cycle[i].attempt + 1]
  <2>1. cycle[i] \in Cycle /\ cycle \in [Inst -> Cycle] /\ ahead \in [Inst -> BOOLEAN]
    BY DEF BoardsInv, Boards
  <2>2. cycle[i].attempt + 1 \in 0..(MaxAttempts - 1)
    <3>1. cycle[i].attempt \in 0..(MaxAttempts - 1)
      BY <2>1 DEF Cycle
    <3> QED
      BY <3>1, <1>1, Bounds
  <2>3. /\ r \in Cycle /\ r.wrote = cycle[i].wrote
        /\ r.read = cycle[i].read /\ r.written = cycle[i].written
    <3>1. ASSUME NEW n \in 0..(MaxAttempts - 1), NEW d \in Cycle
          PROVE  LET e == [d EXCEPT !.pc = "again", !.attempt = n]
                 IN  e \in Cycle /\ e.wrote = d.wrote /\ e.read = d.read /\ e.written = d.written
      BY DEF Cycle
    <3> QED
      BY <2>1, <2>2, <3>1
  <2>4. cycle' = [cycle EXCEPT ![i] = r] /\ UNCHANGED <<OtherVars, local, ahead>>
    BY <1>1, <2>1 DEF PushRejected, OtherVars, Cycle, cardVars
  <2> HIDE DEF r
  <2> QED
    BY <2>1, <2>3, <2>4, CycleInv
<1>2. CASE ~(cycle[i].attempt + 1 < MaxAttempts)
  BY <1>2, FailBoards DEF PushRejected
<1> QED
  BY <1>1, <1>2

\* HEAD survives a crash, and the cycle is forgotten.
LEMMA CrashBoards == ASSUME BoardsInv, NEW i \in Inst, Crash(i) PROVE BoardsInv'
<1>1. /\ cycle' = [cycle EXCEPT ![i] = Idle]
      /\ UNCHANGED <<OtherVars, local, ahead>>
  BY DEF Crash, OtherVars, cardVars
<1>2. ahead \in [Inst -> BOOLEAN]
  BY DEF BoardsInv, Boards
<1> QED
  BY <1>1, <1>2, IdleBoards

\* The steps that change neither the boards nor the cycles.
LEMMA StillBoards ==
    ASSUME BoardsInv, UNCHANGED <<OtherVars, local, ahead, cycle>>
    PROVE  BoardsInv'
BY DEF BoardsInv, Boards, Cancelled, OtherVars, Tip, Cycle

\* Time changes no board.
LEMMA TickBoards == ASSUME BoardsInv, Tick PROVE BoardsInv'
<1>1. now \in 0..MaxTime /\ now' = now + 1 /\ now < MaxTime
  BY DEF BoardsInv, Boards, Tick
<1>2. now' \in 0..MaxTime /\ 0..now \subseteq 0..now'
  BY <1>1, Bounds
<1>3. Tip \subseteq Tip'
  BY <1>2 DEF Tip
<1>4. UNCHANGED <<skew, tip, base, behind, local, ahead, cycle>>
  BY DEF Tick, cardVars
<1>5. Boards'
  BY <1>2, <1>3, <1>4 DEF BoardsInv, Boards, Cycle
<1>6. Cancelled'
  BY <1>4 DEF BoardsInv, Cancelled
<1> QED
  BY <1>5, <1>6 DEF BoardsInv

\* Every step keeps the boards typed and cancelled cards unheld.
LEMMA NextBoards == BoardsInv /\ [Next]_vars => BoardsInv'
<1> SUFFICES ASSUME BoardsInv, [Next]_vars PROVE BoardsInv'
  OBVIOUS
<1>1. ASSUME NEW i \in Inst, Heartbeat(i) \/ ReleaseCard(i) \/ Stall(i) PROVE BoardsInv'
  BY <1>1, HeartbeatBoards, ReleaseBoards, StallBoards
<1>2. ASSUME NEW i \in Inst, NEW s \in State, NEW byHolder \in BOOLEAN, Mutate(i, s, byHolder)
      PROVE  BoardsInv'
  BY <1>2, MutateBoards
<1>3. ASSUME NEW i \in Inst, NEW call \in {"none", "claim", "force", "stall"}, Fetch(i, call)
      PROVE  BoardsInv'
  BY <1>3, FetchBoards
<1>4. ASSUME NEW i \in Inst, Working(i) PROVE BoardsInv'
  <2>1. CASE ApplyClaim(i) \/ ApplyForceRelease(i) \/ ApplyForeignStall(i)
    BY <2>1, ClaimBoards, ForceBoards, ForeignStallBoards
  <2>2. CASE RefuseClaim(i) \/ RefuseForceRelease(i) \/ StallNothing(i) \/ NothingToPush(i)
    BY <2>2, RefuseBoards, StallNothingBoards, NothingToPushBoards
  <2>3. CASE PushLands(i) \/ PushFails(i) \/ PushAnswerLost(i) \/ PushRejected(i)
    BY <2>3, PushLandsBoards, PushFailsBoards, PushAnswerLostBoards, PushRejectedBoards
  <2>4. CASE Refetch(i) \/ RefetchFails(i)
    BY <2>4, RefetchBoards, PushFailsBoards
  <2> QED
    BY <1>4, <2>1, <2>2, <2>3, <2>4 DEF Working
<1>5. ASSUME NEW i \in Inst, AnswerClaim(i) PROVE BoardsInv'
  BY <1>5, StillBoards DEF AnswerClaim, OtherVars, cardVars
<1>6. ASSUME NEW i \in Inst, Crash(i) PROVE BoardsInv'
  BY <1>6, CrashBoards
<1>7. CASE Tick
  BY <1>7, TickBoards
<1>8. CASE UNCHANGED vars
  BY <1>8, StillBoards DEF vars, OtherVars, cardVars
<1> QED
  BY <1>1, <1>2, <1>3, <1>4, <1>5, <1>6, <1>7, <1>8 DEF Next

-----------------------------------------------------------------------------
(* The tables of the lock manager and of the callers.                       *)

Beats == beats \in [Inst -> Stamp] /\ confirmed \in [Inst -> Stamp] /\ synced \in [Inst -> Stamp]
Answers == asking \in [Inst -> {"no", "running", "answer"}] /\ told \in [Inst -> BOOLEAN]
Leases == foreign \in [Inst -> Lease \cup {NoLease}]

\* Every step keeps beats, confirmations and sync times stamps.
LEMMA BeatsStep == Boards /\ Beats /\ [Next]_vars => Beats'
<1> SUFFICES ASSUME Boards, Beats, [Next]_vars PROVE Beats'
  OBVIOUS
<1>1. now \in Stamp /\ Nil \in Stamp
  <2>1. now \in 0..MaxTime
    BY DEF Boards
  <2> QED
    BY <2>1, Bounds DEF Stamp
<1>2. ASSUME NEW i \in Inst, ClearBeat(i), UNCHANGED synced PROVE Beats'
  BY <1>1, <1>2 DEF ClearBeat, Beats
<1>3. ASSUME UNCHANGED <<beats, confirmed, synced>> PROVE Beats'
  BY <1>3 DEF Beats
<1>4. ASSUME NEW i \in Inst, Heartbeat(i) PROVE Beats'
  BY <1>1, <1>4 DEF Heartbeat, Writes, Beats
<1>5. ASSUME NEW i \in Inst, ReleaseCard(i) \/ Stall(i) PROVE Beats'
  BY <1>2, <1>5 DEF ReleaseCard, Stall, Writes
<1>6. ASSUME NEW i \in Inst, NEW s \in State, NEW byHolder \in BOOLEAN, Mutate(i, s, byHolder)
      PROVE  Beats'
  BY <1>2, <1>3, <1>6 DEF Mutate, Writes
<1>7. ASSUME NEW i \in Inst, Pull(i) PROVE Beats'
  BY <1>2, <1>3, <1>7 DEF Pull
<1>8. ASSUME NEW i \in Inst, ApplyClaim(i) PROVE Beats'
  <2>1. /\ beats' = [beats EXCEPT ![i] = now] /\ UNCHANGED synced
        /\ confirmed' = confirmed \/ confirmed' = [confirmed EXCEPT ![i] = now]
    BY <1>8 DEF ApplyClaim, Applies
  <2> QED
    BY <1>1, <2>1 DEF Beats
<1>9. ASSUME NEW i \in Inst, ApplyForceRelease(i) PROVE Beats'
  BY <1>2, <1>9 DEF ApplyForceRelease, Applies
<1>10. ASSUME NEW i \in Inst,
              RefuseClaim(i) \/ RefuseForceRelease(i) \/ ApplyForeignStall(i) \/ StallNothing(i)
       PROVE  Beats'
  BY <1>3, <1>10 DEF RefuseClaim, RefuseForceRelease, RefuseApply, ApplyForeignStall,
                     StallNothing, Applies, leaseVars
<1>11. ASSUME NEW i \in Inst, Success(i) PROVE Beats'
  BY <1>1, <1>11 DEF Success, Beats
<1>12. ASSUME NEW i \in Inst, NEW b \in BOOLEAN, Fail(i, b) PROVE Beats'
  BY <1>2, <1>3, <1>12 DEF Fail
<1>13. ASSUME NEW i \in Inst, PushRejected(i) PROVE Beats'
  BY <1>3, <1>12, <1>13 DEF PushRejected, leaseVars
<1>14. ASSUME NEW i \in Inst, Working(i) PROVE Beats'
  BY <1>14, <1>7, <1>8, <1>9, <1>10, <1>11, <1>12, <1>13
     DEF Working, NothingToPush, PushLands, PushFails, PushAnswerLost, Refetch, RefetchFails
<1>15. ASSUME NEW i \in Inst, AnswerClaim(i) PROVE Beats'
  BY <1>2, <1>3, <1>15 DEF AnswerClaim
<1>16. ASSUME NEW i \in Inst, Crash(i) PROVE Beats'
  BY <1>1, <1>16 DEF Crash, ClearBeat, Beats
<1>17. ASSUME NEW i \in Inst, NEW call \in {"none", "claim", "force", "stall"}, Fetch(i, call)
       PROVE  Beats'
  BY <1>7, <1>17 DEF Fetch
<1>18. CASE Tick \/ UNCHANGED vars
  BY <1>3, <1>18 DEF Tick, vars, leaseVars
<1> QED
  BY <1>4, <1>5, <1>6, <1>14, <1>15, <1>16, <1>17, <1>18 DEF Next

\* What is recorded about a peer's lease is a lease.
LEMMA ObservedLease ==
    ASSUME Boards, Leases, NEW i \in Inst, NEW c \in Card
    PROVE  Observed(i, c) \in Lease \cup {NoLease}
<1>1. now \in 0..now
  <2>1. now \in 0..MaxTime
    BY DEF Boards
  <2> QED
    BY <2>1, Bounds
<1>2. [beat |-> c.beat, epoch |-> c.epoch, seen |-> now] \in Lease
  BY <1>1 DEF Lease, Card
<1> QED
  BY <1>2 DEF Observed, Leases

\* Every step keeps the leases of peers typed.
LEMMA LeasesStep == BoardsInv /\ Leases /\ [Next]_vars => Leases'
<1> SUFFICES ASSUME BoardsInv, Leases, [Next]_vars PROVE Leases'
  OBVIOUS
<1>1. ASSUME NEW i \in Inst, NEW c \in Card, UNCHANGED now,
             foreign' = [foreign EXCEPT ![i] = Observed(i, c)]
      PROVE  Leases'
  <2>1. Observed(i, c) \in Lease \cup {NoLease}
    BY ObservedLease DEF BoardsInv
  <2> QED
    BY <1>1, <2>1 DEF Leases, Lease
<1>2. ASSUME UNCHANGED <<foreign, now>> PROVE Leases'
  BY <1>2 DEF Leases, Lease
<1>3. ASSUME NEW i \in Inst, Heartbeat(i) \/ ReleaseCard(i) \/ Stall(i) PROVE Leases'
  BY <1>2, <1>3 DEF Heartbeat, ReleaseCard, Stall, Writes
<1>4. ASSUME NEW i \in Inst, NEW s \in State, NEW byHolder \in BOOLEAN, Mutate(i, s, byHolder)
      PROVE  Leases'
  BY <1>2, <1>4 DEF Mutate, Writes
<1>5. ASSUME NEW i \in Inst, Pull(i) PROVE Leases'
  <2>1. Integrated(i) \in Card
    BY IntegratedSound
  <2> QED
    BY <1>1, <1>2, <1>5, <2>1 DEF Pull
<1>6. ASSUME NEW i \in Inst,
             \/ ApplyClaim(i) \/ ApplyForceRelease(i) \/ ApplyForeignStall(i)
             \/ RefuseClaim(i) \/ RefuseForceRelease(i) \/ StallNothing(i)
      PROVE  Leases'
  BY <1>2, <1>6 DEF ApplyClaim, ApplyForceRelease, ApplyForeignStall, Apply, RefuseClaim,
                    RefuseForceRelease, RefuseApply, StallNothing, Applies, leaseVars
<1>7. ASSUME NEW i \in Inst, Success(i) PROVE Leases'
  <2>1. local[i] \in Card
    BY DEF BoardsInv, Boards
  <2> QED
    BY <1>1, <1>2, <1>7, <2>1 DEF Success
<1>8. ASSUME NEW i \in Inst, NEW b \in BOOLEAN, Fail(i, b) PROVE Leases'
  BY <1>2, <1>8 DEF Fail
<1>9. ASSUME NEW i \in Inst, PushRejected(i) PROVE Leases'
  BY <1>2, <1>8, <1>9 DEF PushRejected, leaseVars
<1>10. ASSUME NEW i \in Inst, Working(i) PROVE Leases'
  BY <1>10, <1>5, <1>6, <1>7, <1>8, <1>9
     DEF Working, NothingToPush, PushLands, PushFails, PushAnswerLost, Refetch, RefetchFails
<1>11. ASSUME NEW i \in Inst, AnswerClaim(i) PROVE Leases'
  BY <1>2, <1>11 DEF AnswerClaim
<1>12. ASSUME NEW i \in Inst, Crash(i) PROVE Leases'
  BY <1>12 DEF Crash, Leases, Lease
<1>13. ASSUME NEW i \in Inst, NEW call \in {"none", "claim", "force", "stall"}, Fetch(i, call)
       PROVE  Leases'
  BY <1>5, <1>13 DEF Fetch
<1>14. CASE Tick
  <2>1. 0..now \subseteq 0..now'
    <3>1. now \in 0..MaxTime /\ now' = now + 1
      BY <1>14 DEF BoardsInv, Boards, Tick
    <3> QED
      BY <3>1, Bounds
  <2>2. Lease \subseteq Lease' /\ UNCHANGED foreign
    BY <1>14, <2>1 DEF Lease, Tick, leaseVars
  <2> QED
    BY <2>2 DEF Leases, NoLease
<1>15. CASE UNCHANGED vars
  BY <1>2, <1>15 DEF vars, leaseVars
<1> QED
  BY <1>3, <1>4, <1>10, <1>11, <1>12, <1>13, <1>14, <1>15 DEF Next

\* Every step keeps the callers' state typed.
LEMMA AnswersStep == Answers /\ [Next]_vars => Answers'
<1> SUFFICES ASSUME Answers, [Next]_vars PROVE Answers'
  OBVIOUS
<1>1. ASSUME NEW i \in Inst, NEW b \in BOOLEAN, NEW a \in {"no", "running", "answer"},
             told' = told \/ told' = [told EXCEPT ![i] = b],
             asking' = asking \/ asking' = [asking EXCEPT ![i] = a]
      PROVE  Answers'
  BY <1>1 DEF Answers
<1>2. ASSUME UNCHANGED <<asking, told>> PROVE Answers'
  BY <1>2 DEF Answers
<1>3. ASSUME NEW i \in Inst, Heartbeat(i) \/ ReleaseCard(i) \/ Stall(i) PROVE Answers'
  BY <1>1, <1>2, <1>3 DEF Heartbeat, ReleaseCard, Stall, Writes, EndClaim
<1>4. ASSUME NEW i \in Inst, NEW s \in State, NEW byHolder \in BOOLEAN, Mutate(i, s, byHolder)
      PROVE  Answers'
  BY <1>1, <1>2, <1>4 DEF Mutate, Writes, EndClaim
<1>5. ASSUME NEW i \in Inst, Pull(i) PROVE \E b \in BOOLEAN : told' = [told EXCEPT ![i] = b]
  BY <1>5 DEF Pull, Answers
<1>6. ASSUME NEW i \in Inst, NEW call \in {"none", "claim", "force", "stall"}, Fetch(i, call)
      PROVE  Answers'
  BY <1>1, <1>5, <1>6 DEF Fetch
<1>7. ASSUME NEW i \in Inst,
             \/ ApplyClaim(i) \/ ApplyForceRelease(i) \/ ApplyForeignStall(i) \/ StallNothing(i)
      PROVE  Answers'
  BY <1>2, <1>7 DEF ApplyClaim, ApplyForceRelease, ApplyForeignStall, StallNothing, Apply, Applies
<1> DEFINE Ended(i, a) == IF cycle[i].call = "claim" THEN a ELSE asking[i]
<1>8. ASSUME NEW i \in Inst, NEW a \in {"no", "answer"}
      PROVE  Ended(i, a) \in {"no", "running", "answer"}
  BY DEF Answers
<1>9. ASSUME NEW i \in Inst, RefuseClaim(i) \/ RefuseForceRelease(i) PROVE Answers'
  <2>1. UNCHANGED told /\ asking' = [asking EXCEPT ![i] = Ended(i, "no")]
    BY <1>9 DEF RefuseClaim, RefuseForceRelease, RefuseApply, Applies
  <2> HIDE DEF Ended
  <2> QED
    BY <1>1, <1>8, <2>1
<1>10. ASSUME NEW i \in Inst, Success(i) PROVE Answers'
  <2>1. asking' = [asking EXCEPT ![i] = Ended(i, "answer")]
    BY <1>10 DEF Success
  <2>2. PICK b \in BOOLEAN : told' = [told EXCEPT ![i] = b]
    BY <1>10 DEF Success, Answers
  <2> HIDE DEF Ended
  <2> QED
    BY <1>1, <1>8, <2>1, <2>2
<1>11. ASSUME NEW i \in Inst, NEW b \in BOOLEAN, Fail(i, b) PROVE Answers'
  <2>1. asking' = [asking EXCEPT ![i] = Ended(i, "no")]
    BY <1>11 DEF Fail
  <2>2. PICK d \in BOOLEAN : told' = [told EXCEPT ![i] = d]
    BY <1>11 DEF Fail, Answers
  <2> HIDE DEF Ended
  <2> QED
    BY <1>1, <1>8, <2>1, <2>2
<1>12. ASSUME NEW i \in Inst, PushRejected(i) PROVE Answers'
  BY <1>2, <1>11, <1>12 DEF PushRejected
<1>13. ASSUME NEW i \in Inst, Refetch(i) PROVE Answers'
  BY <1>1, <1>5, <1>13 DEF Refetch
<1>14. ASSUME NEW i \in Inst, Working(i) PROVE Answers'
  BY <1>14, <1>7, <1>9, <1>10, <1>11, <1>12, <1>13
     DEF Working, NothingToPush, PushLands, PushFails, PushAnswerLost, RefetchFails
<1>15. ASSUME NEW i \in Inst, AnswerClaim(i) PROVE Answers'
  <2>1. \E b \in BOOLEAN : told' = [told EXCEPT ![i] = b]
    BY <1>15 DEF AnswerClaim, Answers
  <2> QED
    BY <1>1, <1>15, <2>1 DEF AnswerClaim
<1>16. ASSUME NEW i \in Inst, Crash(i) PROVE Answers'
  <2>1. \E b \in BOOLEAN : told' = [told EXCEPT ![i] = b]
    BY <1>16 DEF Crash, Answers
  <2> QED
    BY <1>1, <1>16, <2>1 DEF Crash
<1>17. CASE Tick \/ UNCHANGED vars
  BY <1>2, <1>17 DEF Tick, vars
<1> QED
  BY <1>3, <1>4, <1>6, <1>14, <1>15, <1>16, <1>17 DEF Next

-----------------------------------------------------------------------------
(* What history remembers.                                                  *)

Oddities == sunk \in BOOLEAN /\ reopened \in BOOLEAN

\* What history remembers it does not forget.
LEMMA OdditiesStay ==
    Oddities /\ [Next]_vars => /\ Oddities'
                               /\ sunk => sunk'
                               /\ reopened => reopened'
<1> SUFFICES ASSUME Oddities, [Next]_vars
             PROVE  Oddities' /\ (sunk => sunk') /\ (reopened => reopened')
  OBVIOUS
<1> DEFINE Kept == /\ sunk' = sunk \/ \E p \in BOOLEAN : sunk' = (sunk \/ p)
                   /\ reopened' = reopened \/ \E p \in BOOLEAN : reopened' = (reopened \/ p)
<1>1. ASSUME NEW i \in Inst, Heartbeat(i) \/ ReleaseCard(i) \/ Stall(i) PROVE Kept
  BY <1>1 DEF Heartbeat, ReleaseCard, Stall, Writes
<1>2. ASSUME NEW i \in Inst, NEW s \in State, NEW byHolder \in BOOLEAN, Mutate(i, s, byHolder)
      PROVE  Kept
  BY <1>2 DEF Mutate, Writes
<1>3. ASSUME NEW i \in Inst, Pull(i) PROVE Kept
  BY <1>3 DEF Pull
<1>4. ASSUME NEW i \in Inst, NEW call \in {"none", "claim", "force", "stall"}, Fetch(i, call)
      PROVE  Kept
  BY <1>3, <1>4 DEF Fetch
<1>5. ASSUME NEW i \in Inst,
             \/ ApplyClaim(i) \/ ApplyForceRelease(i) \/ ApplyForeignStall(i)
             \/ RefuseClaim(i) \/ RefuseForceRelease(i) \/ StallNothing(i)
      PROVE  Kept
  BY <1>5 DEF ApplyClaim, ApplyForceRelease, ApplyForeignStall, RefuseClaim,
              RefuseForceRelease, StallNothing, Applies, oddities
<1>6. ASSUME NEW i \in Inst, Lands(i), UNCHANGED reopened PROVE Kept
  BY <1>6 DEF Lands
<1>7. ASSUME NEW i \in Inst, Working(i) PROVE Kept
  BY <1>3, <1>5, <1>6, <1>7
     DEF Working, NothingToPush, PushLands, PushFails, PushAnswerLost, PushRejected, Refetch,
         RefetchFails, Success, Fail, oddities
<1>8. ASSUME NEW i \in Inst, AnswerClaim(i) \/ Crash(i) PROVE Kept
  BY <1>8 DEF AnswerClaim, Crash, oddities
<1>9. ASSUME Tick \/ UNCHANGED vars PROVE Kept
  <2>1. UNCHANGED <<sunk, reopened>>
    BY <1>9 DEF Tick, vars, oddities
  <2> QED
    BY <2>1
<1> HIDE DEF Kept
<1>10. Kept
  BY <1>1, <1>2, <1>4, <1>7, <1>8, <1>9 DEF Next
<1> QED
  BY <1>10 DEF Oddities, Kept

-----------------------------------------------------------------------------
(* No claim goes in silence.                                                *)

\* How a board is related to the remote.
Based(i) ==
    /\ ~ahead[i] => local[i] = base[i].card
    /\ ~behind[i] => base[i] = tip
    /\ sunk \/ ~Sinks(base[i].card, tip.card)
    /\ reopened \/ ~Reopens(local[i], base[i].card)

\* What a cycle may undo.
Cycled(i) ==
    /\ cycle[i].pc \in {"idle", "apply"} => ~cycle[i].wrote
    /\ cycle[i].call = "claim" => asking[i] = "running"
    /\ cycle[i].wrote =>
        /\ cycle[i].call # "claim" => cycle[i].written.via = Nobody
        /\ cycle[i].written.state \in Terminal => cycle[i].read.state \in Terminal

\* A claim an agent was told of is on the board, or a forced release has just
\* ended it, and a cycle would restore it.
Known(i) ==
    told[i] /\ ~sunk /\ ~reopened =>
        /\ \/ local[i].via = i
           \/ cycle[i].wrote /\ cycle[i].call = "force" /\ cycle[i].read.via = i
        /\ cycle[i].wrote /\ cycle[i].call = "claim" => cycle[i].read.via = i

Good(i) == Based(i) /\ Cycled(i) /\ Known(i)

\* Every step but a landing one leaves the other instances alone.
Others(i) == \A j \in Inst \ {i} :
    /\ base'[j] = base[j] /\ behind'[j] = behind[j]
    /\ local'[j] = local[j] /\ ahead'[j] = ahead[j]
    /\ cycle'[j] = cycle[j] /\ asking'[j] = asking[j] /\ told'[j] = told[j]
Alone(i) == Others(i) /\ UNCHANGED tip

\* A merge that takes a claim away, leaves the card open and raises no epoch
\* found it let go at an old epoch, or the holder had reopened the card.
LEMMA SilentMerge ==
    ASSUME NEW i \in Inst, NEW b \in Card, NEW o \in Card, NEW t \in Card,
           o.via = i, ReleasedInto(MergeCard(b, o, t)), MergeCard(b, o, t).epoch <= o.epoch
    PROVE  Sinks(b, t) \/ Reopens(o, b)
<1> DEFINE later == o.updated > t.updated
           claim == MergeClaim(b, o, t, later)
           u == IF later THEN o.updated ELSE t.updated
           merged == [claim EXCEPT !.updated = u]
<1>0. i # Nobody
  BY InstAssumption
<1>1. claim \in Card
  <2>1. /\ MergeState(b, o, t, later) \in State
        /\ Pick(b.via, o.via, t.via, later) \in Inst \cup {Nobody}
        /\ PickTime(b.at, o.at, t.at) \in Stamp
        /\ PickTime(b.beat, o.beat, t.beat) \in Stamp
    BY DEF MergeState, PickTime, Pick, Card, State, Terminal
  <2>2. MergeFields(b, o, t, later) \in Card
    BY <2>1 DEF MergeFields, Card
  <2> QED
    BY <2>2 DEF MergeClaim, Outranks
<1>2. /\ MergeCard(b, o, t) = IF merged.state = "not_planned" THEN Cleared(merged) ELSE merged
      /\ merged.via = claim.via /\ merged.epoch = claim.epoch /\ merged.state = claim.state
  BY <1>1 DEF MergeCard, Card
<1>3. Cleared(merged).state = merged.state
  BY <1>1 DEF Cleared, Card
<1> HIDE DEF merged, claim
<1>4. MergeCard(b, o, t) = merged
  BY <1>2, <1>3 DEF ReleasedInto, Terminal
<1>5. claim.via = Nobody /\ claim.state \notin Terminal /\ claim.epoch <= o.epoch
  BY <1>2, <1>4 DEF ReleasedInto
<1>6. o.epoch = t.epoch
  <2>1. CASE o.epoch > t.epoch
    BY <1>0, <1>5, <2>1 DEF claim, MergeClaim, Outranks, BareStall
  <2>2. CASE t.epoch > o.epoch
    BY <1>0, <1>5, <2>2 DEF claim, MergeClaim, Outranks, BareStall, Card
  <2> QED
    BY <2>1, <2>2 DEF Card
<1>7. ~(o.epoch > b.epoch /\ t.via # Nobody /\ ReleasedInto(o))
      /\ ~(o.epoch > b.epoch /\ ReleasedInto(t)) /\ ~DoubleClaim(b, o, t)
  BY <1>0, <1>5, <1>6 DEF claim, MergeClaim, ReleasedInto, DoubleClaim, Card
<1>8. claim = MergeFields(b, o, t, later)
  BY <1>6, <1>7 DEF claim, MergeClaim, Card
<1>9. /\ Pick(b.via, o.via, t.via, later) = Nobody
      /\ MergeState(b, o, t, later) \notin Terminal
  BY <1>5, <1>8 DEF MergeFields
<1>10. t.via = Nobody /\ b.via # Nobody
  BY <1>0, <1>9 DEF Pick
<1>11. CASE t.state \notin Terminal
  <2>1. ReleasedInto(t)
    BY <1>10, <1>11 DEF ReleasedInto
  <2>2. t.epoch <= b.epoch
    BY <1>6, <1>7, <2>1 DEF Card
  <2> QED
    BY <1>10, <2>1, <2>2 DEF Sinks
<1>12. CASE t.state \in Terminal
  <2>1. o.state \notin Terminal /\ t.state = b.state
    BY <1>9, <1>12 DEF MergeState, Pick
  <2> QED
    BY <1>10, <1>12, <2>1 DEF Reopens
<1> QED
  BY <1>11, <1>12

\* A pull announces the loss of a claim, or leaves it.
LEMMA PullTells ==
    ASSUME Boards, NEW i \in Inst, Based(i), local[i].via = i, ~sunk, ~reopened
    PROVE  LostClaim(i, local[i], Integrated(i)) \/ Integrated(i).via = i
<1> DEFINE card == Integrated(i)
<1>1. local[i] \in Card /\ tip.card \in Card /\ base[i].card \in Card
  BY DEF Boards, Tip
<1>2. card \in Card
  BY <1>1, MergeTyped DEF Integrated
<1> HIDE DEF card
<1> SUFFICES ASSUME ~LostClaim(i, local[i], card), card.via # i PROVE FALSE
  BY DEF card
<1>3. ReleasedInto(card) /\ card.epoch <= local[i].epoch /\ i # Nobody
  BY <1>1, <1>2, InstAssumption DEF LostClaim, ReleasedInto, Card
<1>4. CASE ~behind[i]
  BY <1>3, <1>4 DEF card, Integrated, ReleasedInto
<1>5. CASE behind[i] /\ ~ahead[i]
  BY <1>3, <1>5 DEF card, Integrated, Based, Sinks
<1>6. CASE behind[i] /\ ahead[i]
  <2>1. card = MergeCard(base[i].card, local[i], tip.card)
    BY <1>6 DEF card, Integrated
  <2>2. Sinks(base[i].card, tip.card) \/ Reopens(local[i], base[i].card)
    BY <1>1, <1>3, <2>1, SilentMerge
  <2> QED
    BY <2>2 DEF Based
<1> QED
  BY <1>4, <1>5, <1>6

\* An instance that a step leaves alone.
LEMMA GoodStays ==
    ASSUME NEW j \in Inst, Good(j), UNCHANGED tip, sunk => sunk', reopened => reopened',
           base'[j] = base[j], behind'[j] = behind[j], local'[j] = local[j],
           ahead'[j] = ahead[j], cycle'[j] = cycle[j], asking'[j] = asking[j],
           told'[j] = told[j]
    PROVE  Good(j)'
BY DEF Good, Based, Cycled, Known

\* A write outside a cycle keeps the holder, or ends the claim.
LEMMA PutGood ==
    ASSUME Boards, Tables, NEW i \in Inst, Good(i), cycle[i].pc = "idle",
           NEW c \in Card, Put(i, c),
           \/ told' = [told EXCEPT ![i] = FALSE]
           \/ UNCHANGED told /\ c.via = local[i].via,
           reopened' \/ ~Reopens(c, base[i].card), reopened => reopened',
           UNCHANGED <<tip, base, behind, cycle, asking, sunk>>
    PROVE  Alone(i) /\ Good(i)'
<1>1. local'[i] = c /\ ahead'[i]
  BY DEF Put, Boards
<1>2. Others(i)
  BY DEF Others, Put, Boards, Tables
<1>3. Based(i)'
  BY <1>1 DEF Good, Based
<1>4. Cycled(i)'
  BY DEF Good, Cycled
<1>5. Known(i)'
  <2>1. ~cycle[i].wrote /\ cycle'[i] = cycle[i]
    BY DEF Good, Cycled
  <2>2. CASE told' = [told EXCEPT ![i] = FALSE]
    BY <2>2 DEF Known, Tables
  <2>3. CASE UNCHANGED told /\ c.via = local[i].via
    BY <1>1, <2>1, <2>3 DEF Good, Known
  <2> QED
    BY <2>2, <2>3
<1> QED
  BY <1>2, <1>3, <1>4, <1>5 DEF Alone, Good

\* A beat keeps the holder.
LEMMA HeartbeatGood ==
    ASSUME Inv, NEW i \in Inst, Good(i), Heartbeat(i) PROVE Alone(i) /\ Good(i)'
<1> DEFINE c == [local[i] EXCEPT !.beat = Clock(i), !.updated = Clock(i)]
<1>1. /\ cycle[i].pc = "idle"
      /\ UNCHANGED <<tip, base, behind, cycle, asking, sunk, reopened, told>>
  BY DEF Heartbeat, Writes
<1>2. CASE Put(i, c)
  <2>1. local[i] \in Card /\ Clock(i) \in Nat
    BY ClockNat DEF Inv, Boards
  <2>2. c \in Card /\ c.via = local[i].via /\ c.state = local[i].state
    BY <2>1, CardUpdates DEF Card
  <2> HIDE DEF c
  <2>3. reopened' \/ ~Reopens(c, base[i].card)
    BY <1>1, <2>2 DEF Good, Based, Reopens
  <2> QED
    BY <1>1, <1>2, <2>2, <2>3, PutGood DEF Inv
<1>3. CASE UNCHANGED <<local, ahead>>
  BY <1>1, <1>3 DEF Alone, Others, Good, Based, Cycled, Known
<1> QED
  BY <1>2, <1>3 DEF Heartbeat

\* A release and a stall end the claim.
LEMMA EndGood ==
    ASSUME Inv, NEW i \in Inst, Good(i), ReleaseCard(i) \/ Stall(i)
    PROVE  Alone(i) /\ Good(i)'
<1>1. /\ cycle[i].pc = "idle" /\ told' = [told EXCEPT ![i] = FALSE]
      /\ UNCHANGED <<tip, base, behind, cycle, asking, sunk, reopened>>
  BY DEF ReleaseCard, Stall, Writes, EndClaim
<1>2. local[i] \in Card
  BY DEF Inv, Boards
<1>3. /\ Dropped(i, local[i]) \in Card /\ Stalled(i, local[i]) \in Card
  BY <1>2, CardSteps DEF Inv
<1>4. CASE ReleaseCard(i)
  <2>1. Put(i, Dropped(i, local[i]))
    BY <1>4 DEF ReleaseCard
  <2>2. Dropped(i, local[i]).state = local[i].state
    BY <1>2 DEF Dropped, Cleared, Card
  <2>3. reopened' \/ ~Reopens(Dropped(i, local[i]), base[i].card)
    BY <1>1, <2>2 DEF Good, Based, Reopens
  <2> QED
    BY <1>1, <1>3, <2>1, <2>3, PutGood DEF Inv
<1>5. CASE Stall(i)
  <2>1. Put(i, Stalled(i, local[i])) /\ local[i].state \notin Terminal
    BY <1>5 DEF Stall, Terminal
  <2>2. reopened' \/ ~Reopens(Stalled(i, local[i]), base[i].card)
    BY <1>1, <2>1 DEF Good, Based, Reopens
  <2> QED
    BY <1>1, <1>3, <2>1, <2>2, PutGood DEF Inv
<1> QED
  BY <1>4, <1>5

\* A change of the card keeps the holder, unless it cancels the card.
LEMMA MutateGood ==
    ASSUME Inv, NEW i \in Inst, Good(i), NEW s \in State, NEW byHolder \in BOOLEAN,
           Mutate(i, s, byHolder)
    PROVE  Alone(i) /\ Good(i)'
<1> DEFINE old == local[i]
           x == Clock(i)
           b == IF byHolder THEN x ELSE old.beat
           n == IF s # old.state /\ s \in Terminal THEN old.epoch + 1 ELSE old.epoch
           moved == [old EXCEPT !.state = s, !.updated = x, !.beat = b, !.epoch = n]
<1>1. /\ cycle[i].pc = "idle" /\ reopened' = (reopened \/ Reopens(moved, base[i].card))
      /\ UNCHANGED <<tip, base, behind, cycle, asking, sunk>>
      /\ \/ Put(i, Cleared(moved)) /\ EndClaim(i)
         \/ Put(i, moved) /\ UNCHANGED told
  BY DEF Mutate, Writes
<1>2. moved \in Card /\ moved.via = local[i].via
  <2>1. old \in Card /\ x \in Nat
    BY ClockNat DEF Inv, Boards
  <2>2. b \in Stamp /\ n \in Nat
    <3> HIDE DEF old, x
    <3>1. old.epoch \in Nat /\ old.beat \in Stamp
      BY <2>1 DEF Card
    <3> QED
      BY <2>1, <3>1 DEF Stamp
  <2> HIDE DEF b, n, x
  <2> QED
    BY <2>1, <2>2 DEF Card
<1> HIDE DEF moved
<1>3. Cleared(moved) \in Card /\ Cleared(moved).state = moved.state
  BY <1>2 DEF Cleared, Card, Stamp
<1>4. reopened' \/ (~Reopens(moved, base[i].card) /\ ~Reopens(Cleared(moved), base[i].card))
  BY <1>1, <1>3 DEF Reopens
<1>5. CASE Put(i, Cleared(moved)) /\ EndClaim(i)
  BY <1>1, <1>3, <1>4, <1>5, PutGood DEF EndClaim, Inv
<1>6. CASE Put(i, moved) /\ UNCHANGED told
  BY <1>1, <1>2, <1>4, <1>6, PutGood DEF Inv
<1> QED
  BY <1>1, <1>5, <1>6

\* A pull keeps the board based on the remote, and the claims it knows of.
LEMMA PullGood ==
    ASSUME Inv, NEW i \in Inst, Good(i), Pull(i)
    PROVE  /\ Based(i)'
           /\ told'[i] => told[i]
           /\ UNCHANGED <<tip, sunk>>
           /\ reopened => reopened'
           /\ told'[i] /\ ~sunk /\ ~reopened /\ local[i].via = i => local'[i].via = i
           /\ \A j \in Inst \ {i} :
                /\ base'[j] = base[j] /\ behind'[j] = behind[j] /\ local'[j] = local[j]
                /\ ahead'[j] = ahead[j] /\ told'[j] = told[j]
<1> DEFINE card == Integrated(i)
<1>1. /\ local' = [local EXCEPT ![i] = card] /\ base' = [base EXCEPT ![i] = tip]
      /\ behind' = [behind EXCEPT ![i] = FALSE] /\ UNCHANGED <<tip, ahead, sunk>>
      /\ reopened' = (reopened \/ Reopens(card, tip.card))
      /\ told' = [told EXCEPT ![i] = @ /\ ~LostClaim(i, local[i], card)
                                      /\ ~(/\ card.via = Nobody /\ card.state \in Terminal
                                           /\ card.state # local[i].state)]
  BY DEF Pull
<1>2. /\ local'[i] = card /\ base'[i] = tip /\ ~behind'[i] /\ ahead'[i] = ahead[i]
      /\ told'[i] => (told[i] /\ ~LostClaim(i, local[i], card))
  BY <1>1 DEF Inv, Boards, Tables
<1>3. told'[i] /\ ~sunk /\ ~reopened /\ local[i].via = i => local'[i].via = i
  BY <1>2, PullTells DEF Good, Inv
<1>4. ~ahead[i] => card = tip.card
  BY DEF Integrated, Good, Based
<1> HIDE DEF card
<1>5. Based(i)'
  BY <1>1, <1>2, <1>4 DEF Based, Sinks, ReleasedInto
<1>6. \A j \in Inst \ {i} :
         /\ base'[j] = base[j] /\ behind'[j] = behind[j] /\ local'[j] = local[j]
         /\ ahead'[j] = ahead[j] /\ told'[j] = told[j]
  BY <1>1 DEF Inv, Boards, Tables
<1> QED
  BY <1>1, <1>2, <1>3, <1>5, <1>6

\* The cycle that a fetch begins.
LEMMA FetchGood ==
    ASSUME Inv, NEW i \in Inst, Good(i), NEW call \in {"none", "claim", "force", "stall"},
           Fetch(i, call)
    PROVE  Alone(i) /\ Good(i)'
<1>1. /\ cycle[i].pc = "idle" /\ Pull(i)
      /\ asking' = IF call = "claim" THEN [asking EXCEPT ![i] = "running"] ELSE asking
      /\ cycle' = [cycle EXCEPT ![i] =
           [Idle EXCEPT !.pc = IF call = "none" THEN "push" ELSE "apply",
                        !.call = call, !.pulled = behind[i]]]
  BY DEF Fetch
<1>2. ~cycle'[i].wrote /\ cycle'[i].call = call
  BY <1>1 DEF Idle, Inv, Boards
<1>3. ~cycle[i].wrote
  BY <1>1 DEF Good, Cycled
<1>4. Cycled(i)'
  BY <1>1, <1>2 DEF Cycled, Inv, Tables
<1>5. Based(i)' /\ Known(i)'
  BY <1>1, <1>2, <1>3, PullGood DEF Good, Known
<1>6. Others(i) /\ UNCHANGED tip
  BY <1>1, PullGood DEF Others, Inv, Boards, Tables
<1> QED
  BY <1>4, <1>5, <1>6 DEF Alone, Good

\* The next attempt of a cycle.
LEMMA RefetchGood ==
    ASSUME Inv, NEW i \in Inst, Good(i), Refetch(i) PROVE Alone(i) /\ Good(i)'
<1>1. /\ cycle[i].pc = "again" /\ Pull(i) /\ UNCHANGED asking
      /\ cycle' = [cycle EXCEPT ![i].pc = "push", ![i].pulled = TRUE]
  BY DEF Refetch
<1>2. /\ cycle'[i].wrote = cycle[i].wrote /\ cycle'[i].call = cycle[i].call
      /\ cycle'[i].read = cycle[i].read /\ cycle'[i].written = cycle[i].written
      /\ cycle'[i].pc = "push"
  BY <1>1 DEF Inv, Boards, Cycle
<1>3. Cycled(i)'
  BY <1>1, <1>2 DEF Good, Cycled
<1>4. Based(i)' /\ (told'[i] => told[i])
  BY <1>1, PullGood
<1>5. Known(i)'
  <2> SUFFICES ASSUME told'[i], ~sunk', ~reopened'
               PROVE  /\ \/ local'[i].via = i
                         \/ cycle'[i].wrote /\ cycle'[i].call = "force" /\ cycle'[i].read.via = i
                      /\ cycle'[i].wrote /\ cycle'[i].call = "claim" => cycle'[i].read.via = i
    BY DEF Known
  <2>1. told[i] /\ ~sunk /\ ~reopened
    BY <1>1, PullGood
  <2>2. local[i].via = i => local'[i].via = i
    BY <1>1, <2>1, PullGood
  <2> QED
    BY <1>2, <2>1, <2>2 DEF Good, Known
<1>6. Others(i) /\ UNCHANGED tip
  BY <1>1, PullGood DEF Others, Inv, Boards
<1> QED
  BY <1>3, <1>4, <1>5, <1>6, PullGood, <1>1 DEF Alone, Good

\* The write of a verified call: a claim sets the holder, a forced release and
\* a stall clear it, and none of them opens a closed card.
LEMMA ApplyGood ==
    ASSUME Inv, NEW i \in Inst, Good(i), NEW call \in {"claim", "force", "stall"},
           Applies(i, call), NEW c \in Card, Apply(i, c),
           c.state = local[i].state \/ (local[i].state \notin Terminal /\ c.state \notin Terminal),
           c.via = IF call = "claim" THEN i ELSE Nobody,
           call = "stall" => local[i].via # i
    PROVE  Alone(i) /\ Good(i)'
<1>1. /\ cycle[i].pc = "apply" /\ cycle[i].call = call
      /\ UNCHANGED <<tip, base, behind, told, sunk, reopened, asking>>
      /\ local' = [local EXCEPT ![i] = c] /\ ahead' = [ahead EXCEPT ![i] = TRUE]
      /\ cycle' = [cycle EXCEPT ![i].pc = "push", ![i].wrote = TRUE,
                                ![i].read = local[i], ![i].written = c]
  BY DEF Applies, Apply, Put, oddities
<1>2. /\ local'[i] = c /\ ahead'[i] /\ cycle'[i].pc = "push" /\ cycle'[i].call = call
      /\ cycle'[i].read = local[i] /\ cycle'[i].written = c
  BY <1>1 DEF Inv, Boards, Cycle
<1>3. told[i] /\ ~sunk /\ ~reopened => local[i].via = i
  BY <1>1 DEF Good, Cycled, Known
<1>4. Based(i)'
  BY <1>1, <1>2 DEF Good, Based, Reopens
<1>5. Cycled(i)'
  BY <1>1, <1>2 DEF Good, Cycled
<1>6. Known(i)'
  BY <1>1, <1>2, <1>3 DEF Known, Inv, Boards, Cycle
<1>7. Others(i)
  BY <1>1 DEF Others, Inv, Boards
<1> QED
  BY <1>1, <1>4, <1>5, <1>6, <1>7 DEF Alone, Good

\* The three writes.
LEMMA AppliesGood ==
    ASSUME Inv, NEW i \in Inst, Good(i),
           ApplyClaim(i) \/ ApplyForceRelease(i) \/ ApplyForeignStall(i)
    PROVE  Alone(i) /\ Good(i)'
<1>1. local[i] \in Card /\ Clock(i) \in Nat
  BY ClockNat DEF Inv, Boards
<1>2. CASE ApplyClaim(i)
  <2> DEFINE renewed == [local[i] EXCEPT !.beat = Clock(i), !.updated = Clock(i)]
             next == renewed.epoch + 1
             taken == [renewed EXCEPT !.via = i, !.at = Clock(i), !.epoch = next]
  <2>1. Applies(i, "claim") /\ ((local[i].via = i /\ Apply(i, renewed)) \/ Apply(i, taken))
    BY <1>2 DEF ApplyClaim
  <2>2. /\ renewed \in Card /\ renewed.via = local[i].via /\ renewed.state = local[i].state
    BY <1>1, CardUpdates DEF Card
  <2> HIDE DEF renewed
  <2>3. next \in Nat
    BY <2>2 DEF Card
  <2> HIDE DEF next
  <2>4. taken \in Card /\ taken.via = i /\ taken.state = local[i].state
    BY <1>1, <2>2, <2>3 DEF Card, Stamp
  <2> HIDE DEF taken
  <2> QED
    BY <2>1, <2>2, <2>4, ApplyGood
<1>3. CASE ApplyForceRelease(i)
  <2>1. Applies(i, "force") /\ Apply(i, Dropped(i, local[i]))
    BY <1>3 DEF ApplyForceRelease
  <2>2. Dropped(i, local[i]) \in Card
    BY <1>1, CardSteps DEF Inv
  <2>3. Dropped(i, local[i]).via = Nobody /\ Dropped(i, local[i]).state = local[i].state
    BY <1>1 DEF Dropped, Cleared, Card
  <2> QED
    BY <2>1, <2>2, <2>3, ApplyGood
<1>4. CASE ApplyForeignStall(i)
  <2>1. /\ Applies(i, "stall") /\ Apply(i, Stalled(i, local[i]))
        /\ local[i].state \notin Terminal /\ local[i].via # i
    BY <1>4 DEF ApplyForeignStall, StallCandidate, LeaseExpired, ClaimedElsewhere
  <2>2. Stalled(i, local[i]) \in Card
    BY <1>1, CardSteps DEF Inv
  <2>3. Stalled(i, local[i]).via = Nobody /\ Stalled(i, local[i]).state = "stalled"
    BY <1>1 DEF Stalled, Dropped, Cleared, Card
  <2>4. Stalled(i, local[i]).state \notin Terminal
    BY <2>3 DEF Terminal
  <2> QED
    BY <2>1, <2>2, <2>3, <2>4, ApplyGood
<1> QED
  BY <1>2, <1>3, <1>4

\* A cycle that goes on or ends without a write of its own.
LEMMA RefusesGood ==
    ASSUME Inv, NEW i \in Inst, Good(i),
           RefuseClaim(i) \/ RefuseForceRelease(i) \/ StallNothing(i)
    PROVE  Alone(i) /\ Good(i)'
<1>1. /\ cycle[i].pc = "apply"
      /\ UNCHANGED <<tip, base, behind, local, ahead, told, sunk, reopened>>
  BY DEF RefuseClaim, RefuseForceRelease, StallNothing, Applies, RefuseApply, oddities
<1>2. /\ told[i] /\ ~sunk /\ ~reopened => local[i].via = i
      /\ ~cycle[i].wrote
  BY <1>1 DEF Good, Cycled, Known
<1>3. Based(i)'
  BY <1>1 DEF Good, Based
<1>4. CASE RefuseClaim(i) \/ RefuseForceRelease(i)
  <2>1. /\ cycle' = [cycle EXCEPT ![i] = Idle]
        /\ asking' = [asking EXCEPT ![i] = IF cycle[i].call = "claim" THEN "no" ELSE @]
    BY <1>4 DEF RefuseClaim, RefuseForceRelease, RefuseApply
  <2>2. ~cycle'[i].wrote /\ cycle'[i].call = "none"
    BY <2>1 DEF Idle, Inv, Boards
  <2>3. Cycled(i)' /\ Known(i)' /\ Others(i)
    BY <1>1, <1>2, <2>1, <2>2 DEF Cycled, Known, Others, Inv, Boards, Tables
  <2> QED
    BY <1>1, <1>3, <2>3 DEF Alone, Good
<1>5. CASE StallNothing(i)
  <2>1. cycle' = [cycle EXCEPT ![i].pc = "push"] /\ UNCHANGED asking
    BY <1>5 DEF StallNothing
  <2>2. cycle'[i].wrote = cycle[i].wrote /\ cycle'[i].call = cycle[i].call
    BY <2>1 DEF Inv, Boards, Cycle
  <2>3. Cycled(i)' /\ Known(i)' /\ Others(i)
    BY <1>1, <1>2, <2>1, <2>2 DEF Good, Cycled, Known, Others, Inv, Boards
  <2> QED
    BY <1>1, <1>3, <2>3 DEF Alone, Good
<1> QED
  BY <1>4, <1>5

\* The end of a cycle that succeeded.
LEMMA SuccessGood ==
    ASSUME Inv, NEW i \in Inst, Good(i), Success(i), sunk => sunk'
    PROVE  /\ Cycled(i)' /\ Known(i)' /\ UNCHANGED <<local, reopened>>
           /\ \A j \in Inst \ {i} :
                cycle'[j] = cycle[j] /\ asking'[j] = asking[j] /\ told'[j] = told[j]
<1>1. /\ cycle' = [cycle EXCEPT ![i] = Idle]
      /\ asking' = [asking EXCEPT ![i] = IF cycle[i].call = "claim" THEN "answer" ELSE @]
      /\ told' = [told EXCEPT ![i] = @ /\ ~(cycle[i].call = "force" /\ local[i].via # i)]
      /\ UNCHANGED <<local, reopened>>
  BY DEF Success
<1>2. ~cycle'[i].wrote /\ cycle'[i].call = "none"
  BY <1>1 DEF Idle, Inv, Boards
<1>3. told'[i] => told[i] /\ ~(cycle[i].call = "force" /\ local[i].via # i)
  BY <1>1 DEF Inv, Tables
<1>4. Cycled(i)' /\ Known(i)'
  BY <1>1, <1>2, <1>3 DEF Good, Cycled, Known
<1> QED
  BY <1>1, <1>4 DEF Inv, Boards, Tables

\* A cycle with nothing to push.
LEMMA NothingGood ==
    ASSUME Inv, NEW i \in Inst, Good(i), NothingToPush(i) PROVE Alone(i) /\ Good(i)'
<1>1. Success(i) /\ UNCHANGED <<tip, base, behind, ahead, sunk>>
  BY DEF NothingToPush
<1>2. Cycled(i)' /\ Known(i)' /\ UNCHANGED <<local, reopened>> /\ Others(i)
  BY <1>1, SuccessGood DEF Others
<1>3. Based(i)'
  BY <1>1, <1>2 DEF Good, Based
<1> QED
  BY <1>1, <1>2, <1>3 DEF Alone, Good

\* The end of a cycle that failed: what it restores has the claims that agents
\* were told of, and is closed when the card was.
LEMMA FailGood ==
    ASSUME Inv, NEW i \in Inst, Good(i), NEW b \in BOOLEAN, Fail(i, b), sunk => sunk'
    PROVE  /\ Cycled(i)' /\ Known(i)' /\ UNCHANGED reopened
           /\ local[i].state \in Terminal => local'[i].state \in Terminal
           /\ ~ahead'[i] => ~b /\ local'[i] = local[i]
           /\ \A j \in Inst \ {i} :
                /\ local'[j] = local[j] /\ ahead'[j] = ahead[j]
                /\ cycle'[j] = cycle[j] /\ asking'[j] = asking[j] /\ told'[j] = told[j]
<1> DEFINE c == [cycle[i].read EXCEPT !.updated = Clock(i)]
<1>1. /\ cycle' = [cycle EXCEPT ![i] = Idle]
      /\ asking' = [asking EXCEPT ![i] = IF cycle[i].call = "claim" THEN "no" ELSE @]
      /\ told' = [told EXCEPT ![i] = @ /\ ~(cycle[i].call = "force" /\ local'[i].via # i)]
      /\ UNCHANGED reopened
      /\ \/ Undoable(i) /\ local' = [local EXCEPT ![i] = c] /\ ahead' = [ahead EXCEPT ![i] = TRUE]
         \/ UNCHANGED local /\ ahead' = [ahead EXCEPT ![i] = b]
  BY DEF Fail, Put
<1>2. ~cycle'[i].wrote /\ cycle'[i].call = "none"
  BY <1>1 DEF Idle, Inv, Boards
<1>3. told'[i] => told[i] /\ ~(cycle[i].call = "force" /\ local'[i].via # i)
  BY <1>1 DEF Inv, Tables
<1>4. Undoable(i) => /\ cycle[i].wrote /\ c.via = cycle[i].read.via
                     /\ c.state = cycle[i].read.state
                     /\ local[i].via = cycle[i].written.via
                     /\ local[i].state = cycle[i].written.state
  BY DEF Undoable, Inv, Boards, Card
<1>5. \/ Undoable(i) /\ local'[i] = c /\ ahead'[i]
      \/ local'[i] = local[i] /\ ahead'[i] = b
  BY <1>1 DEF Inv, Boards
<1> HIDE DEF c
<1>6. local[i].state \in Terminal => local'[i].state \in Terminal
  BY <1>4, <1>5 DEF Good, Cycled
<1>7. ~ahead'[i] => ~b /\ local'[i] = local[i]
  BY <1>5
<1>8. Cycled(i)'
  BY <1>2 DEF Cycled
<1>9. Known(i)'
  <2> SUFFICES ASSUME told'[i], ~sunk', ~reopened' PROVE local'[i].via = i
    BY <1>2 DEF Known
  <2>1. told[i] /\ ~sunk /\ ~reopened /\ i # Nobody
    BY <1>1, <1>3, InstAssumption
  <2>2. CASE cycle[i].call = "force"
    BY <1>3, <2>2
  <2>3. CASE cycle[i].call # "force"
    <3>1. local[i].via = i
      BY <2>1, <2>3 DEF Good, Known
    <3>2. Undoable(i) => cycle[i].read.via = i
      BY <1>4, <2>1, <3>1 DEF Good, Known, Cycled
    <3> QED
      BY <1>4, <1>5, <3>1, <3>2
  <2> QED
    BY <2>2, <2>3
<1>10. \A j \in Inst \ {i} :
         /\ local'[j] = local[j] /\ ahead'[j] = ahead[j]
         /\ cycle'[j] = cycle[j] /\ asking'[j] = asking[j] /\ told'[j] = told[j]
  BY <1>1 DEF Inv, Boards, Tables
<1> QED
  BY <1>1, <1>6, <1>7, <1>8, <1>9, <1>10

\* A push that fails, that comes too late for good, or that is tried again.
LEMMA PushFailsGood ==
    ASSUME Inv, NEW i \in Inst, Good(i), PushFails(i) \/ RefetchFails(i) \/ PushRejected(i)
    PROVE  Alone(i) /\ Good(i)'
<1>1. CASE Fail(i, TRUE) /\ UNCHANGED <<tip, base, behind, sunk>>
  <2>1. /\ Cycled(i)' /\ Known(i)' /\ UNCHANGED reopened /\ ahead'[i] /\ Others(i)
        /\ local[i].state \in Terminal => local'[i].state \in Terminal
    BY <1>1, FailGood DEF Others
  <2>2. Based(i)'
    BY <1>1, <2>1 DEF Good, Based, Reopens
  <2> QED
    BY <1>1, <2>1, <2>2 DEF Alone, Good
<1>2. CASE /\ cycle[i].pc = "push" /\ cycle' = [cycle EXCEPT ![i].pc = "again", ![i].attempt = @ + 1]
           /\ UNCHANGED <<tip, base, behind, local, ahead, asking, told, sunk, reopened>>
  <2>1. /\ cycle'[i].pc = "again" /\ cycle'[i].wrote = cycle[i].wrote
        /\ cycle'[i].call = cycle[i].call /\ cycle'[i].read = cycle[i].read
        /\ cycle'[i].written = cycle[i].written
    BY <1>2 DEF Inv, Boards, Cycle
  <2>2. Cycled(i)' /\ Known(i)' /\ Based(i)'
    BY <1>2, <2>1 DEF Good, Cycled, Known, Based
  <2>3. Others(i)
    BY <1>2 DEF Others, Inv, Boards
  <2> QED
    BY <1>2, <2>2, <2>3 DEF Alone, Good
<1> QED
  BY <1>1, <1>2 DEF PushFails, RefetchFails, PushRejected, cardVars, oddities

\* An answer to a caller, a crash.
LEMMA AnswerGood ==
    ASSUME Inv, NEW i \in Inst, Good(i), AnswerClaim(i) PROVE Alone(i) /\ Good(i)'
<1>1. /\ asking[i] = "answer" /\ asking' = [asking EXCEPT ![i] = "no"]
      /\ told' = [told EXCEPT ![i] = @ \/ local[i].via = i]
      /\ UNCHANGED <<tip, base, behind, local, ahead, cycle, sunk, reopened>>
  BY DEF AnswerClaim, cardVars, oddities
<1>2. cycle[i].call # "claim"
  BY <1>1 DEF Good, Cycled
<1>3. Others(i)
  BY <1>1 DEF Others, Inv, Tables
<1>4. Based(i)' /\ Cycled(i)'
  BY <1>1, <1>2 DEF Good, Based, Cycled
<1>5. Known(i)'
  BY <1>1, <1>2 DEF Good, Known, Inv, Tables
<1> QED
  BY <1>1, <1>3, <1>4, <1>5 DEF Alone, Good

LEMMA CrashGood ==
    ASSUME Inv, NEW i \in Inst, Good(i), Crash(i) PROVE Alone(i) /\ Good(i)'
<1>1. /\ cycle' = [cycle EXCEPT ![i] = Idle] /\ asking' = [asking EXCEPT ![i] = "no"]
      /\ told' = [told EXCEPT ![i] = @ /\ local[i].via = i]
      /\ UNCHANGED <<tip, base, behind, local, ahead, sunk, reopened>>
  BY DEF Crash, cardVars, oddities
<1>2. ~cycle'[i].wrote /\ cycle'[i].call = "none"
  BY <1>1 DEF Idle, Inv, Boards
<1>3. Others(i)
  BY <1>1 DEF Others, Inv, Boards, Tables
<1>4. Based(i)' /\ Cycled(i)'
  BY <1>1, <1>2 DEF Good, Based, Cycled
<1>5. Known(i)'
  BY <1>1, <1>2 DEF Known, Inv, Tables
<1> QED
  BY <1>1, <1>3, <1>4, <1>5 DEF Alone, Good

\* A push that lands: the other instances fall behind, and if it lets a claim
\* go that one of them builds on, at an epoch that one has, history keeps it.
LEMMA LandsGood ==
    ASSUME Inv, NEW i \in Inst, \A j \in Inst : Good(j), PushLands(i) \/ PushAnswerLost(i)
    PROVE  \A j \in Inst : Good(j)'
<1>1. /\ tip'.card = local[i] /\ base' = [base EXCEPT ![i] = tip']
      /\ behind' = [j \in Inst |-> j # i]
      /\ sunk' = (sunk \/ \E j \in Inst \ {i} : Sinks(base[j].card, local[i]))
  <2>1. Lands(i)
    BY DEF PushLands, PushAnswerLost
  <2> QED
    BY <2>1 DEF Lands
<1>2. sunk => sunk'
  BY <1>1
<1>3. base'[i] = tip' /\ ~behind'[i]
  BY <1>1 DEF Inv, Boards
<1>4. ~Sinks(tip'.card, tip'.card) /\ ~Reopens(local[i], local[i])
  BY DEF Sinks, Reopens, ReleasedInto
<1>5. /\ Cycled(i)' /\ Known(i)' /\ UNCHANGED reopened
      /\ local[i].state \in Terminal => local'[i].state \in Terminal
      /\ ~ahead'[i] => local'[i] = local[i]
      /\ \A j \in Inst \ {i} :
           /\ local'[j] = local[j] /\ ahead'[j] = ahead[j]
           /\ cycle'[j] = cycle[j] /\ asking'[j] = asking[j] /\ told'[j] = told[j]
  <2>1. CASE PushLands(i)
    <3>1. Success(i) /\ ahead' = [ahead EXCEPT ![i] = FALSE]
      BY <2>1 DEF PushLands
    <3>2. /\ Cycled(i)' /\ Known(i)' /\ UNCHANGED <<local, reopened>>
          /\ \A j \in Inst \ {i} :
               cycle'[j] = cycle[j] /\ asking'[j] = asking[j] /\ told'[j] = told[j]
      BY <1>2, <3>1, SuccessGood
    <3> QED
      BY <3>1, <3>2 DEF Inv, Boards
  <2>2. CASE PushAnswerLost(i)
    BY <1>2, <2>2, FailGood DEF PushAnswerLost
  <2> QED
    BY <2>1, <2>2
<1>6. Good(i)'
  <2>1. Based(i)'
    BY <1>1, <1>3, <1>4, <1>5 DEF Based, Reopens
  <2> QED
    BY <1>5, <2>1 DEF Good
<1>7. ASSUME NEW j \in Inst \ {i} PROVE Good(j)'
  <2>1. base'[j] = base[j] /\ behind'[j]
    BY <1>1 DEF Inv, Boards
  <2>2. sunk' \/ ~Sinks(base'[j].card, tip'.card)
    BY <1>1, <2>1
  <2>3. Based(j)'
    BY <1>5, <2>1, <2>2 DEF Good, Based
  <2>4. Cycled(j)' /\ Known(j)'
    BY <1>2, <1>5 DEF Good, Cycled, Known
  <2> QED
    BY <2>3, <2>4 DEF Good
<1> QED
  BY <1>6, <1>7

\* Every step keeps every instance good.
LEMMA NextGood ==
    ASSUME Inv, \A j \in Inst : Good(j), [Next]_vars
    PROVE  \A j \in Inst : Good(j)'
<1>1. (sunk => sunk') /\ (reopened => reopened')
  BY OdditiesStay DEF Inv, Tables, Oddities
<1>2. ASSUME NEW i \in Inst, Alone(i), Good(i)' PROVE \A j \in Inst : Good(j)'
  <2>1. ASSUME NEW j \in Inst \ {i} PROVE Good(j)'
    BY <1>1, <1>2, GoodStays DEF Alone, Others
  <2> QED
    BY <1>2, <2>1
<1>3. ASSUME UNCHANGED <<tip, base, behind, local, ahead, cycle, asking, told, sunk, reopened>>
      PROVE  \A j \in Inst : Good(j)'
  BY <1>3 DEF Good, Based, Cycled, Known
<1>4. ASSUME NEW i \in Inst, Heartbeat(i) \/ ReleaseCard(i) \/ Stall(i)
      PROVE  \A j \in Inst : Good(j)'
  BY <1>2, <1>4, HeartbeatGood, EndGood
<1>5. ASSUME NEW i \in Inst, NEW s \in State, NEW byHolder \in BOOLEAN, Mutate(i, s, byHolder)
      PROVE  \A j \in Inst : Good(j)'
  BY <1>2, <1>5, MutateGood
<1>6. ASSUME NEW i \in Inst, NEW call \in {"none", "claim", "force", "stall"}, Fetch(i, call)
      PROVE  \A j \in Inst : Good(j)'
  BY <1>2, <1>6, FetchGood
<1>7. ASSUME NEW i \in Inst, Working(i) PROVE \A j \in Inst : Good(j)'
  <2>1. CASE ApplyClaim(i) \/ ApplyForceRelease(i) \/ ApplyForeignStall(i)
    BY <1>2, <2>1, AppliesGood
  <2>2. CASE RefuseClaim(i) \/ RefuseForceRelease(i) \/ StallNothing(i)
    BY <1>2, <2>2, RefusesGood
  <2>3. CASE NothingToPush(i) \/ Refetch(i)
    BY <1>2, <2>3, NothingGood, RefetchGood
  <2>4. CASE PushLands(i) \/ PushAnswerLost(i)
    BY <2>4, LandsGood
  <2>5. CASE PushFails(i) \/ PushRejected(i) \/ RefetchFails(i)
    BY <1>2, <2>5, PushFailsGood
  <2> QED
    BY <1>7, <2>1, <2>2, <2>3, <2>4, <2>5 DEF Working
<1>8. ASSUME NEW i \in Inst, AnswerClaim(i) \/ Crash(i) PROVE \A j \in Inst : Good(j)'
  BY <1>2, <1>8, AnswerGood, CrashGood
<1>9. CASE Tick \/ UNCHANGED vars
  BY <1>3, <1>9 DEF Tick, vars, cardVars, oddities
<1> QED
  BY <1>4, <1>5, <1>6, <1>7, <1>8, <1>9 DEF Next

\* At first every board is the remote's, and nobody was told anything.
LEMMA InitGood == Init => \A j \in Inst : Good(j)
<1> SUFFICES ASSUME Init, NEW j \in Inst PROVE Good(j)
  OBVIOUS
<1>1. local[j] = tip.card /\ base[j] = tip /\ tip.card.via = Nobody
  BY DEF Init
<1>2. ~told[j] /\ ~cycle[j].wrote /\ cycle[j].call = "none"
  BY DEF Init, Idle
<1>3. Based(j)
  BY <1>1 DEF Based, Sinks, Reopens
<1> QED
  BY <1>2, <1>3 DEF Good, Cycled, Known

-----------------------------------------------------------------------------
(* No lease is taken before its time.                                       *)

\* Some clock has shown the time x.
Past(x) == \E k \in Inst : x <= Clock(k)

\* Every beat was read off some instance's clock, and the beat of a peer's
\* lease by the time the lease was first seen.
Stamps ==
    /\ Past(tip.card.beat)
    /\ \A j \in Inst : Past(local[j].beat) /\ (cycle[j].wrote => Past(cycle[j].read.beat))
    /\ \A j \in Inst : foreign[j] = NoLease \/
          \E k \in Inst : foreign[j].beat <= foreign[j].seen + skew[k]

\* What a step of instance i may do to beats: it stamps its own board by its
\* clock, keeps or publishes what a board shows, and records what it sees.
Stamping(i) ==
    /\ UNCHANGED <<now, skew>>
    /\ tip' = tip \/ tip'.card = local[i]
    /\ \A j \in Inst \ {i} : local'[j] = local[j] /\ cycle'[j] = cycle[j] /\ foreign'[j] = foreign[j]
    /\ local'[i] = local[i] \/ Past(local'[i].beat)
    /\ cycle'[i].wrote => \/ cycle[i].wrote /\ cycle'[i].read = cycle[i].read
                          \/ cycle'[i].read = local[i]
    /\ \/ foreign'[i] \in {foreign[i], NoLease}
       \/ foreign'[i].beat = local'[i].beat /\ foreign'[i].seen = now

\* A beat of a clock that has shown it was read off that clock.
LEMMA StampingKeeps ==
    ASSUME Inv, Stamps, NEW i \in Inst, Stamping(i) PROVE Stamps'
<1>1. \A x : Past(x)' <=> Past(x)
  BY DEF Past, Clock, Stamping
<1>2. Past(tip.card.beat)'
  <2>1. tip'.card = tip.card \/ tip'.card = local[i]
    BY DEF Stamping
  <2>2. Past(tip'.card.beat)
    BY <2>1 DEF Stamps
  <2> QED
    BY <1>1, <2>2 DEF Past, Clock, Stamping
<1>3. ASSUME NEW j \in Inst
      PROVE  Past(local'[j].beat) /\ (cycle'[j].wrote => Past(cycle'[j].read.beat))
  BY DEF Stamping, Stamps
<1>4. ASSUME NEW j \in Inst
      PROVE  foreign'[j] = NoLease \/ \E k \in Inst : foreign'[j].beat <= foreign'[j].seen + skew'[k]
  <2>1. CASE foreign'[j] = foreign[j] \/ foreign'[j] = NoLease
    BY <2>1 DEF Stamping, Stamps
  <2>2. CASE j = i /\ foreign'[i].beat = local'[i].beat /\ foreign'[i].seen = now
    <3>1. PICK k \in Inst : local'[i].beat <= Clock(k)
      BY <1>3 DEF Past
    <3> QED
      BY <2>2, <3>1 DEF Clock, Stamping
  <2> QED
    BY <2>1, <2>2 DEF Stamping
<1> QED
  BY <1>2, <1>3, <1>4 DEF Stamps, Past, Clock, Stamping

\* The stamps an instance makes itself.
LEMMA OwnStamps ==
    ASSUME Inv, NEW i \in Inst PROVE Past(Clock(i)) /\ Past(Nil)
BY ClockNat DEF Inv, Past, Nil

\* A merge stamps nothing: its beat is one side's, or none.
LEMMA MergeStamps ==
    ASSUME NEW b \in Card, NEW o \in Card, NEW t \in Card
    PROVE  MergeCard(b, o, t).beat \in {o.beat, t.beat, Nil}
<1> DEFINE later == o.updated > t.updated
           claim == MergeClaim(b, o, t, later)
           u == IF later THEN o.updated ELSE t.updated
           merged == [claim EXCEPT !.updated = u]
<1>1. claim \in Card /\ claim.beat \in {o.beat, t.beat}
  <2>1. /\ MergeState(b, o, t, later) \in State
        /\ Pick(b.via, o.via, t.via, later) \in Inst \cup {Nobody}
        /\ PickTime(b.at, o.at, t.at) \in Stamp
        /\ PickTime(b.beat, o.beat, t.beat) \in Stamp
    BY DEF MergeState, PickTime, Pick, Card, State, Terminal
  <2>2. MergeFields(b, o, t, later) \in Card
    BY <2>1 DEF MergeFields, Card
  <2>3. MergeFields(b, o, t, later).beat \in {o.beat, t.beat}
    BY DEF MergeFields, PickTime, Pick
  <2> QED
    BY <2>2, <2>3 DEF MergeClaim, Outranks
<1>2. MergeCard(b, o, t) = IF merged.state = "not_planned" THEN Cleared(merged) ELSE merged
  BY DEF MergeCard
<1>3. merged.beat = claim.beat /\ Cleared(merged).beat = Nil
  BY <1>1 DEF Card, Cleared
<1> HIDE DEF merged, claim
<1> QED
  BY <1>1, <1>2, <1>3

\* Writes of an instance on its own board, outside a cycle.
LEMMA WritesStamp ==
    ASSUME Inv, Stamps, NEW i \in Inst,
           \/ Heartbeat(i) \/ ReleaseCard(i) \/ Stall(i)
           \/ \E s \in State, byHolder \in BOOLEAN : Mutate(i, s, byHolder)
    PROVE  Stamping(i)
<1>1. UNCHANGED <<now, skew, tip, cycle, foreign>>
  BY DEF Heartbeat, ReleaseCard, Stall, Mutate, Writes
<1>2. local[i] \in Card /\ Past(local[i].beat) /\ Past(Clock(i)) /\ Past(Nil)
  BY OwnStamps DEF Inv, Boards, Stamps
<1>3. ASSUME NEW c, Put(i, c), Past(c.beat) PROVE Stamping(i)
  BY <1>1, <1>3 DEF Put, Stamping, Inv, Boards
<1>4. CASE Heartbeat(i)
  <2> DEFINE c == [local[i] EXCEPT !.beat = Clock(i), !.updated = Clock(i)]
  <2>1. UNCHANGED local \/ Put(i, c)
    BY <1>4 DEF Heartbeat
  <2>2. c.beat = Clock(i)
    BY <1>2 DEF Card
  <2> HIDE DEF c
  <2> QED
    BY <1>1, <1>2, <1>3, <2>1, <2>2 DEF Stamping
<1>5. CASE ReleaseCard(i) \/ Stall(i)
  <2>1. Put(i, Dropped(i, local[i])) \/ Put(i, Stalled(i, local[i]))
    BY <1>5 DEF ReleaseCard, Stall
  <2>2. Dropped(i, local[i]).beat = Nil /\ Stalled(i, local[i]).beat = Nil
    BY <1>2 DEF Stalled, Dropped, Cleared, Card
  <2> QED
    BY <1>2, <1>3, <2>1, <2>2
<1>6. CASE \E s \in State, byHolder \in BOOLEAN : Mutate(i, s, byHolder)
  <2>1. PICK s \in State, byHolder \in BOOLEAN : Mutate(i, s, byHolder)
    BY <1>6
  <2> DEFINE old == local[i]
             moved == [old EXCEPT
                         !.state = s, !.updated = Clock(i),
                         !.beat = IF byHolder THEN Clock(i) ELSE @,
                         !.epoch = IF s # old.state /\ s \in Terminal THEN @ + 1 ELSE @]
  <2>2. Put(i, Cleared(moved)) \/ Put(i, moved)
    BY <2>1 DEF Mutate
  <2>3. moved.beat \in {Clock(i), local[i].beat} /\ Cleared(moved).beat = Nil
    BY <1>2 DEF Card, Cleared
  <2> HIDE DEF moved
  <2> QED
    BY <1>2, <1>3, <2>2, <2>3
<1> QED
  BY <1>4, <1>5, <1>6

\* What a pull brings was stamped before, and is seen now.
LEMMA PullStamps ==
    ASSUME Inv, Stamps, NEW i \in Inst, Pull(i)
    PROVE  /\ UNCHANGED <<now, skew, tip>>
           /\ Past(local'[i].beat)
           /\ \/ foreign'[i] \in {foreign[i], NoLease}
              \/ foreign'[i].beat = local'[i].beat /\ foreign'[i].seen = now
           /\ \A j \in Inst \ {i} : local'[j] = local[j] /\ foreign'[j] = foreign[j]
<1> DEFINE card == Integrated(i)
<1>1. /\ UNCHANGED <<now, skew, tip>> /\ local' = [local EXCEPT ![i] = card]
      /\ UNCHANGED foreign \/ foreign' = [foreign EXCEPT ![i] = Observed(i, card)]
  BY DEF Pull
<1>2. card.beat \in {local[i].beat, tip.card.beat, Nil}
  BY MergeStamps DEF Integrated, Inv, Boards, Tip
<1> HIDE DEF card
<1>3. Past(card.beat)
  BY <1>2, OwnStamps DEF Stamps
<1>4. \/ Observed(i, card) \in {foreign[i], NoLease}
      \/ Observed(i, card).beat = card.beat /\ Observed(i, card).seen = now
  BY DEF Observed
<1> QED
  BY <1>1, <1>3, <1>4 DEF Inv, Boards, Tables

\* The verified writes.
LEMMA AppliesStamp ==
    ASSUME Inv, Stamps, NEW i \in Inst,
           ApplyClaim(i) \/ ApplyForceRelease(i) \/ ApplyForeignStall(i)
    PROVE  Stamping(i)
<1>1. local[i] \in Card /\ Past(Clock(i)) /\ Past(Nil)
  BY OwnStamps DEF Inv, Boards
<1>2. ASSUME NEW c, Apply(i, c), UNCHANGED <<now, skew, tip>>, Past(c.beat) PROVE Stamping(i)
  BY <1>2 DEF Apply, Put, Stamping, Inv, Boards, Cycle, Tables
<1>3. UNCHANGED <<now, skew, tip>>
  BY DEF ApplyClaim, ApplyForceRelease, ApplyForeignStall, Applies
<1>4. CASE ApplyClaim(i)
  <2> DEFINE renewed == [local[i] EXCEPT !.beat = Clock(i), !.updated = Clock(i)]
             taken == [renewed EXCEPT !.via = i, !.at = Clock(i), !.epoch = @ + 1]
  <2>1. Apply(i, renewed) \/ Apply(i, taken)
    BY <1>4 DEF ApplyClaim
  <2>2. renewed.beat = Clock(i) /\ taken.beat = Clock(i)
    BY <1>1 DEF Card
  <2> HIDE DEF renewed, taken
  <2> QED
    BY <1>1, <1>2, <1>3, <2>1, <2>2
<1>5. CASE ApplyForceRelease(i) \/ ApplyForeignStall(i)
  <2>1. Apply(i, Dropped(i, local[i])) \/ Apply(i, Stalled(i, local[i]))
    BY <1>5 DEF ApplyForceRelease, ApplyForeignStall
  <2>2. Dropped(i, local[i]).beat = Nil /\ Stalled(i, local[i]).beat = Nil
    BY <1>1 DEF Stalled, Dropped, Cleared, Card
  <2> QED
    BY <1>1, <1>2, <1>3, <2>1, <2>2
<1> QED
  BY <1>4, <1>5

\* The other steps of a cycle restore, publish and record what there was.
LEMMA WorkingStamps ==
    ASSUME Inv, Stamps, NEW i \in Inst, Working(i) PROVE Stamping(i)
<1>1. Idle.wrote = FALSE
  BY DEF Idle
<1>2. CASE RefuseClaim(i) \/ RefuseForceRelease(i) \/ StallNothing(i)
  <2>1. UNCHANGED <<now, skew, tip, local, foreign>>
    BY <1>2 DEF RefuseClaim, RefuseForceRelease, StallNothing, Applies, RefuseApply, leaseVars
  <2>2. cycle' = [cycle EXCEPT ![i] = Idle] \/ cycle' = [cycle EXCEPT ![i].pc = "push"]
    BY <1>2 DEF RefuseClaim, RefuseForceRelease, StallNothing, RefuseApply
  <2> QED
    BY <1>1, <2>1, <2>2 DEF Stamping, Inv, Boards, Cycle
<1>3. ASSUME Success(i), tip' = tip \/ tip'.card = local[i] PROVE Stamping(i)
  <2>1. /\ UNCHANGED <<now, skew, local>> /\ cycle' = [cycle EXCEPT ![i] = Idle]
        /\ UNCHANGED foreign \/ foreign' = [foreign EXCEPT ![i] = Observed(i, local[i])]
    BY <1>3 DEF Success
  <2>2. \/ Observed(i, local[i]) \in {foreign[i], NoLease}
        \/ Observed(i, local[i]).beat = local[i].beat /\ Observed(i, local[i]).seen = now
    BY DEF Observed
  <2> QED
    BY <1>1, <1>3, <2>1, <2>2 DEF Stamping, Inv, Boards, Tables
<1>4. ASSUME NEW b \in BOOLEAN, Fail(i, b), tip' = tip \/ tip'.card = local[i] PROVE Stamping(i)
  <2> DEFINE c == [cycle[i].read EXCEPT !.updated = Clock(i)]
  <2>1. /\ UNCHANGED <<now, skew, foreign>> /\ cycle' = [cycle EXCEPT ![i] = Idle]
        /\ UNCHANGED local \/ (Undoable(i) /\ local' = [local EXCEPT ![i] = c])
    BY <1>4 DEF Fail, Put
  <2>2. Undoable(i) => Past(c.beat)
    BY DEF Undoable, Stamps, Inv, Boards, Card
  <2> HIDE DEF c
  <2> QED
    BY <1>1, <1>4, <2>1, <2>2 DEF Stamping, Inv, Boards
<1>5. ASSUME Lands(i) PROVE tip'.card = local[i]
  BY <1>5 DEF Lands
<1>6. CASE NothingToPush(i) \/ PushLands(i)
  BY <1>3, <1>5, <1>6 DEF NothingToPush, PushLands
<1>7. CASE PushFails(i) \/ PushAnswerLost(i) \/ RefetchFails(i)
  BY <1>4, <1>5, <1>7 DEF PushFails, PushAnswerLost, RefetchFails
<1>8. CASE PushRejected(i)
  <2>1. CASE /\ cycle' = [cycle EXCEPT ![i].pc = "again", ![i].attempt = @ + 1]
             /\ UNCHANGED <<now, skew, tip, local, foreign>>
    BY <2>1 DEF Stamping, Inv, Boards, Cycle
  <2> QED
    BY <1>4, <1>8, <2>1 DEF PushRejected, cardVars, leaseVars
<1>9. CASE Refetch(i)
  <2>1. Pull(i) /\ cycle' = [cycle EXCEPT ![i].pc = "push", ![i].pulled = TRUE]
    BY <1>9 DEF Refetch
  <2>2. /\ cycle'[i].wrote = cycle[i].wrote /\ cycle'[i].read = cycle[i].read
        /\ \A j \in Inst \ {i} : cycle'[j] = cycle[j]
    BY <2>1 DEF Inv, Boards, Cycle
  <2> QED
    BY <2>1, <2>2, PullStamps DEF Stamping
<1> QED
  BY <1>2, <1>6, <1>7, <1>8, <1>9, AppliesStamp DEF Working

\* Every step keeps the stamps.
LEMMA NextStamps == Inv /\ Stamps /\ [Next]_vars => Stamps'
<1> SUFFICES ASSUME Inv, Stamps, [Next]_vars PROVE Stamps'
  OBVIOUS
<1>1. ASSUME NEW i \in Inst,
             \/ Heartbeat(i) \/ ReleaseCard(i) \/ Stall(i)
             \/ \E s \in State, byHolder \in BOOLEAN : Mutate(i, s, byHolder)
      PROVE  Stamps'
  BY <1>1, WritesStamp, StampingKeeps
<1>2. ASSUME NEW i \in Inst, NEW call \in {"none", "claim", "force", "stall"}, Fetch(i, call)
      PROVE  Stamps'
  <2>1. Pull(i) /\ \E r : cycle' = [cycle EXCEPT ![i] = r] /\ ~r.wrote
    <3>1. ~[Idle EXCEPT !.pc = IF call = "none" THEN "push" ELSE "apply",
                        !.call = call, !.pulled = behind[i]].wrote
      BY DEF Idle
    <3> QED
      BY <1>2, <3>1 DEF Fetch
  <2>2. Stamping(i)
    BY <2>1, PullStamps DEF Stamping, Inv, Boards
  <2> QED
    BY <2>2, StampingKeeps
<1>3. ASSUME NEW i \in Inst, Working(i) PROVE Stamps'
  BY <1>3, WorkingStamps, StampingKeeps
<1>4. ASSUME NEW i \in Inst, AnswerClaim(i) \/ Crash(i) PROVE Stamps'
  <2>1. /\ UNCHANGED <<now, skew, tip, local>>
        /\ UNCHANGED cycle \/ cycle' = [cycle EXCEPT ![i] = Idle]
        /\ UNCHANGED foreign \/ foreign' = [foreign EXCEPT ![i] = NoLease]
    BY <1>4 DEF AnswerClaim, Crash, cardVars
  <2>2. Stamping(i)
    BY <2>1 DEF Stamping, Inv, Boards, Tables, Idle
  <2> QED
    BY <2>2, StampingKeeps
<1>5. CASE Tick
  <2>1. /\ UNCHANGED <<skew, tip, local, cycle, foreign>> /\ now' = now + 1 /\ now \in Nat
    <3>1. now \in 0..MaxTime
      BY DEF Inv, Boards
    <3> QED
      BY <1>5, <3>1, Bounds DEF Tick, cardVars, leaseVars
  <2>2. ASSUME NEW x \in Stamp, Past(x) PROVE Past(x)'
    <3>1. PICK k \in Inst : x <= Clock(k)
      BY <2>2 DEF Past
    <3>2. Clock(k) \in Nat /\ Clock(k)' = Clock(k) + 1
      <4>1. skew[k] \in Nat
        BY Bounds DEF Inv, Boards
      <4> QED
        BY <2>1, <4>1 DEF Clock
    <3>3. x <= Clock(k)'
      BY <3>1, <3>2, <2>2 DEF Stamp, Nil
    <3> QED
      BY <3>3 DEF Past
  <2>3. /\ tip.card.beat \in Stamp
        /\ \A j \in Inst : local[j].beat \in Stamp /\ (cycle[j].wrote => cycle[j].read.beat \in Stamp)
    BY DEF Inv, Boards, Tip, Card
  <2>4. Past(tip.card.beat)'
    <3>1. (Past(tip.card.beat))' <=> \E k \in Inst : tip.card.beat <= Clock(k)'
      BY <2>1 DEF Past
    <3> QED
      BY <2>2, <2>3, <3>1 DEF Stamps, Past
  <2>5. ASSUME NEW j \in Inst
        PROVE  (Past(local[j].beat))' /\ (cycle'[j].wrote => (Past(cycle[j].read.beat))')
    BY <2>1, <2>2, <2>3 DEF Stamps, Past
  <2> QED
    BY <2>1, <2>4, <2>5 DEF Stamps
<1>6. CASE UNCHANGED vars
  BY <1>6 DEF vars, cardVars, leaseVars, Stamps, Past, Clock
<1> QED
  BY <1>1, <1>2, <1>3, <1>4, <1>5, <1>6 DEF Next

\* Only a claim and a foreign stall take a card, and only after its lease expired.
LEMMA TakesExpired ==
    ASSUME Inv, Stamps, NEW i \in Inst, Cycled(i), [Next]_vars, Takes(i)
    PROVE  LeaseExpired(i, local[i])
<1>1. /\ cycle[i].pc = "apply" /\ cycle[i].call # "force" /\ cycle'[i].wrote
      /\ ~cycle[i].wrote /\ local[i].via # i /\ local[i].via # Nobody
  BY DEF Takes, ClaimedElsewhere, Cycled
<1>2. ASSUME NEW j \in Inst, Heartbeat(j) \/ ReleaseCard(j) \/ Stall(j) PROVE FALSE
  BY <1>1, <1>2 DEF Heartbeat, ReleaseCard, Stall, Writes
<1>3. ASSUME NEW j \in Inst, NEW s \in State, NEW byHolder \in BOOLEAN, Mutate(j, s, byHolder)
      PROVE  FALSE
  BY <1>1, <1>3 DEF Mutate, Writes
<1>4. ASSUME NEW j \in Inst, NEW call \in {"none", "claim", "force", "stall"}, Fetch(j, call)
      PROVE  FALSE
  <2>1. j # i /\ \E r : cycle' = [cycle EXCEPT ![j] = r]
    BY <1>1, <1>4 DEF Fetch
  <2> QED
    BY <1>1, <2>1 DEF Inv, Boards
<1>5. ASSUME NEW j \in Inst, AnswerClaim(j) \/ Crash(j) PROVE FALSE
  BY <1>1, <1>5 DEF AnswerClaim, Crash, Idle, Inv, Boards
<1>6. ASSUME NEW j \in Inst, Working(j) PROVE LeaseExpired(i, local[i])
  <2>1. j = i
    BY <1>1, <1>6, WorkingStamps DEF Stamping
  <2>2. CASE ApplyClaim(i)
    BY <1>1, <2>2 DEF ApplyClaim, Claimable
  <2>3. CASE ApplyForeignStall(i)
    BY <2>3 DEF ApplyForeignStall, StallCandidate
  <2>4. CASE RefuseClaim(i) \/ RefuseForceRelease(i)
    BY <1>1, <2>4 DEF RefuseClaim, RefuseForceRelease, RefuseApply, Idle, Inv, Boards
  <2>5. CASE StallNothing(i)
    BY <1>1, <2>5 DEF StallNothing, Inv, Boards, Cycle
  <2>6. CASE ApplyForceRelease(i)
    BY <1>1, <2>6 DEF ApplyForceRelease, Applies
  <2>7. CASE \/ NothingToPush(i) \/ PushLands(i) \/ PushFails(i) \/ PushAnswerLost(i)
             \/ PushRejected(i) \/ Refetch(i) \/ RefetchFails(i)
    BY <1>1, <2>7 DEF NothingToPush, PushLands, PushFails, PushAnswerLost, PushRejected,
                      Refetch, RefetchFails, Lands
  <2> QED
    BY <1>6, <2>1, <2>2, <2>3, <2>4, <2>5, <2>6, <2>7 DEF Working
<1>7. CASE Tick \/ UNCHANGED vars
  BY <1>1, <1>7 DEF Tick, vars
<1> QED
  BY <1>2, <1>3, <1>4, <1>5, <1>6, <1>7 DEF Next

-----------------------------------------------------------------------------
(* The theorems.                                                            *)

\* The invariant is inductive.
LEMMA NextInv == Inv /\ [Next]_vars => Inv'
<1> SUFFICES ASSUME Inv, [Next]_vars PROVE Inv'
  OBVIOUS
<1>1. BoardsInv' /\ Leases'
  BY NextBoards, LeasesStep DEF Inv, Tables, BoardsInv, Leases
<1>2. Beats' /\ Answers'
  BY BeatsStep, AnswersStep DEF Inv, Tables, Beats, Answers
<1>3. Oddities'
  BY OdditiesStay DEF Inv, Tables, Oddities
<1> QED
  BY <1>1, <1>2, <1>3 DEF Inv, Tables, BoardsInv, Leases, Beats, Answers, Oddities

\* It contains the types that the runs check.
LEMMA InvTypes == Inv => STypeOK
<1> SUFFICES ASSUME Inv PROVE STypeOK
  OBVIOUS
<1>1. now \in 0..MaxTime /\ skew \in [Inst -> Skews]
  BY DEF Inv, Boards
<1>2. \A t \in {tip} \cup {base[i] : i \in Inst} : t \in [card : Card, since : 0..now]
  BY DEF Inv, Boards, Tip
<1>3. ASSUME NEW i \in Inst
      PROVE  /\ local[i] \in Card /\ {ahead[i], behind[i]} \subseteq BOOLEAN
             /\ cycle[i].pc \in {"idle", "apply", "push", "again"}
             /\ cycle[i].attempt \in 0..(MaxAttempts - 1)
             /\ cycle[i].wrote => {cycle[i].read, cycle[i].written} \subseteq Card
  BY DEF Inv, Boards, Cycle
<1>4. ASSUME NEW i \in Inst
      PROVE  /\ asking[i] \in {"no", "running", "answer"}
             /\ {beats[i], confirmed[i], synced[i]} \subseteq Stamp
             /\ told[i] \in BOOLEAN
  BY DEF Inv, Tables
<1>5. ASSUME NEW i \in Inst PROVE foreign[i] = NoLease \/ foreign[i].seen \in 0..now
  BY DEF Inv, Tables, Lease
<1>6. {sunk, reopened} \subseteq BOOLEAN
  BY DEF Inv, Tables
<1> QED
  BY <1>1, <1>2, <1>3, <1>4, <1>5, <1>6 DEF STypeOK

\* It contains the property of cancelled cards.
LEMMA InvCancelled == Inv => CancelledIsUnheld
<1>1. ASSUME NEW c \in Card, Unheld(c) PROVE c = Cleared(c)
  BY <1>1 DEF Unheld, Cleared, Card
<1>2. ASSUME Inv, NEW i \in Inst PROVE local[i] \in Card /\ tip.card \in Card
  BY <1>2 DEF Inv, Boards, Tip
<1>3. ASSUME Inv PROVE tip.card \in Card
  BY <1>3 DEF Inv, Boards, Tip
<1> QED
  BY <1>1, <1>2, <1>3 DEF Inv, Cancelled, Sound, CancelledIsUnheld

\* The inductive invariant holds in every behaviour.
THEOREM SharedInv == Spec => []Inv
BY InitInv, NextInv, PTL DEF Spec

\* The fields of cards, cycles and lease tables stay what they should be, for
\* any number of instances, calls, failures and crashes (SharedClaims's state).
THEOREM SharedTypeOK == Spec => []STypeOK
BY SharedInv, InvTypes, PTL

\* No merge, undo, stall or late claim ever leaves a cancelled card with a
\* claim, on any board or on the remote (applyInvariants, mergeCards).
THEOREM SharedCancelledIsUnheld == Spec => []CancelledIsUnheld
BY SharedInv, InvCancelled, PTL

\* Every instance is good, always.
LEMMA AlwaysGood == Spec => [](Inv /\ \A j \in Inst : Good(j))
<1> DEFINE Both == Inv /\ \A j \in Inst : Good(j)
<1>1. Init => Both
  BY InitInv, InitGood
<1>2. Both /\ [Next]_vars => Both'
  BY NextInv, NextGood
<1> QED
  BY <1>1, <1>2, PTL DEF Spec

\* What the agents of every instance believe is so, or they are told: however
\* syncs, merges, undone writes and crashes interleave, a claim disappears in
\* silence only after the remote let a claim go at an old epoch, or a board
\* opened again what a holder closed (lostClaims, mergeClaim, undoClaimWrite).
THEOREM SharedHolderKnows == Spec => []HolderKnows
<1>1. (\A j \in Inst : Good(j)) => HolderKnows
  BY DEF Good, Cycled, Known, HolderKnows
<1> QED
  BY <1>1, AlwaysGood, PTL

\* An instance with nothing to push and nothing to fetch has the remote's card,
\* whatever pushes were refused, undone, or lost their answer on the way: the
\* safety half of BoardsAgree (integrate, push, undoClaimWrite).
THEOREM SharedSyncedAgree ==
    Spec => [](\A i \in Inst : ~ahead[i] /\ ~behind[i] => local[i] = tip.card)
<1>1. (\A j \in Inst : Good(j)) =>
        \A i \in Inst : ~ahead[i] /\ ~behind[i] => local[i] = tip.card
  BY DEF Good, Based
<1> QED
  BY <1>1, AlwaysGood, PTL

\* A card is taken from a peer, by a claim or by a foreign stall, only when the
\* fastest clock shows more than lease_timeout beyond the stamp of its lease.
TakenIsOld(i) == Takes(i) => \E k \in Inst : Clock(k) - local[i].beat > LeaseTimeout

\* A lease is judged by its age since it was first seen, and that is never more
\* than its age since it was stamped: however the clocks differ, and whatever is
\* retried, undone or merged, no lease is taken before the fastest of them is
\* lease_timeout past its stamp (ForeignLeaseExpired, ObserveLeases).
THEOREM SharedTakenIsOld == Spec => [][\A i \in Inst : TakenIsOld(i)]_vars
<1>1. Init => Inv /\ Stamps
  <2> SUFFICES ASSUME Init PROVE Stamps
    BY InitInv
  <2>1. PICK k \in Inst : skew[k] = 0
    BY DEF Init
  <2>2. Past(Nil)
    BY InitInv, OwnStamps, <2>1
  <2>3. tip.card.beat = Nil /\ \A j \in Inst : local[j].beat = Nil
    BY DEF Init
  <2> QED
    BY <2>2, <2>3 DEF Init, Stamps, Idle
<1>2. Inv /\ Stamps /\ [Next]_vars => Inv' /\ Stamps'
  BY NextInv, NextStamps
<1>3. ASSUME Inv, Stamps, \A j \in Inst : Good(j), [Next]_vars, NEW i \in Inst
      PROVE  TakenIsOld(i)
  <2> SUFFICES ASSUME Takes(i) PROVE \E k \in Inst : Clock(k) - local[i].beat > LeaseTimeout
    BY DEF TakenIsOld
  <2>1. LeaseExpired(i, local[i])
    BY <1>3, TakesExpired DEF Good
  <2>2. /\ foreign[i].beat = local[i].beat /\ foreign[i].epoch = local[i].epoch
        /\ now - foreign[i].seen > LeaseTimeout
    BY <2>1 DEF LeaseExpired, Matches
  <2>3. foreign[i] # NoLease
    <3>1. local[i].epoch \in Nat
      BY <1>3 DEF Inv, Boards, Card
    <3> QED
      BY <2>2, <3>1 DEF NoLease, Nil
  <2>4. PICK k \in Inst : foreign[i].beat <= foreign[i].seen + skew[k]
    BY <1>3, <2>3 DEF Stamps
  <2>5. /\ now \in Nat /\ foreign[i].seen \in Nat /\ skew[k] \in Nat /\ LeaseTimeout \in Nat
        /\ foreign[i].beat \in Int
    <3>1. foreign[i] \in Lease /\ now \in 0..MaxTime /\ skew[k] \in Skews
      BY <1>3, <2>3 DEF Inv, Tables, Boards
    <3>2. LeaseTimeout \in Nat
      <4>1. LeaseTimeout \in {HeartbeatTimeout, PullInterval, LeaseInterval, LeaseTimeout}
        OBVIOUS
      <4> QED
        BY <4>1, LeaseAssumption
    <3>3. now \in Nat /\ skew[k] \in Nat
      <4>1. MaxTime \in Nat /\ Skews \subseteq Nat
        BY Bounds
      <4>2. now \in Nat
        BY <3>1, <4>1
      <4>3. skew[k] \in Nat
        BY <3>1, <4>1
      <4> QED
        BY <4>2, <4>3
    <3>4. foreign[i].seen \in 0..now /\ foreign[i].beat \in Stamp
      BY <3>1 DEF Lease
    <3> QED
      BY <3>2, <3>3, <3>4 DEF Stamp, Nil
  <2>6. (now + skew[k]) - foreign[i].beat > LeaseTimeout
    BY <2>2, <2>4, <2>5
  <2>7. Clock(k) - local[i].beat > LeaseTimeout
    <3>1. Clock(k) - foreign[i].beat > LeaseTimeout
      BY <2>5, <2>6 DEF Clock
    <3>2. foreign[i].beat = local[i].beat
      BY <2>2
    <3> QED
      BY <3>1, <3>2, Zenon
  <2> QED
    BY <2>7
<1>4. (\A j \in Inst : Good(j)) /\ Inv /\ Stamps /\ [Next]_vars => [\A i \in Inst : TakenIsOld(i)]_vars
  BY <1>3
<1>5. Spec => [](Inv /\ Stamps)
  BY <1>1, <1>2, PTL DEF Spec
<1> QED
  BY <1>4, <1>5, AlwaysGood, PTL DEF Spec
=============================================================================
