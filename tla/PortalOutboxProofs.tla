--------------------------- MODULE PortalOutboxProofs ---------------------------
(***************************************************************************)
(* Proofs about PortalOutbox for every set of views, pollers and senders   *)
(* and every batch size and retry limit.  The invariants are layered: what *)
(* a poller holds, the rows in hand, deliveries, sends and announcements;  *)
(* the last one gives the refinement of ViewSignal.                        *)
(***************************************************************************)
EXTENDS PortalOutbox, FiniteSetTheorems, TLAPS

(* The steps of Next by their actor: a channel at work, a poller at its     *)
(* bookkeeping, and what happens to a view without a poller.                *)
Deliver(p) ==
  \/ InsertNotification(p) \/ InsertFails(p) \/ Publish(p) \/ PublishFails(p)
  \/ \E c \in Senders : Send(p, c) \/ SendUnchecked(p, c)

Take(p, v) ==
  Consume(p, v) \/ \E channels \in SUBSET (Senders \cup {"insert"}) : Dispatch(p, v, channels)

Outside ==
  (\E v \in Views : SeekerLeaves(v)) \/ (\E v \in Views, c \in Senders : KeyExpires(v, c))

LEMMA NextCases ==
  ASSUME Next
  PROVE  \/ \E p \in Pollers :
              \/ Claim(p) \/ Deliver(p) \/ Mark(p) \/ MarkFails(p) \/ Retry(p)
              \/ RetryFails(p) \/ Crash(p)
              \/ \E v \in Views : Take(p, v)
         \/ \E v \in Views : RecordView(v) \/ Cleanup(v)
         \/ Outside
  BY Zenon DEF Next, PollerStep, Deliver, Take, Outside

-------------------------------------------------------------------------------
(* What a poller may hold: TypeOK's clauses on it, and a row in hand is no *)
(* longer in the batch.                                                    *)
Held == [step : {"idle", "next", "dispatch", "retry"}, batch : SUBSET Views,
         view : Views \cup {NoView}, open : SUBSET (Senders \cup {"insert", "publish"})]
Sound(r) ==
  /\ (r.step \in {"dispatch", "retry"}) <=> (r.view # NoView)
  /\ r.view \notin r.batch

PollersOK ==
  /\ poller \in [Pollers -> Held]
  /\ \A p \in Pollers : Sound(poller[p])

RowsOK ==
  /\ created \in [Views -> Nat]
  /\ outbox \in [Views -> [status : RowStatus, retry : 0 .. MaxRetries]]

EffectsOK ==
  /\ notified \subseteq Views
  /\ announced \in [Views -> Nat]
  /\ keys \in [Views -> SUBSET Senders]
  /\ sent \in [Views -> [Senders -> Nat]]
  /\ lapses \in [Views -> [Senders -> Nat]]
  /\ gone \subseteq Views /\ muted \subseteq Views /\ dropped \subseteq Views

LEMMA TypeParts == PollersOK /\ RowsOK /\ EffectsOK => TypeOK
  BY DEF PollersOK, RowsOK, EffectsOK, TypeOK, Held, Sound

LEMMA RestingType ==
  /\ Resting \in Held /\ Sound(Resting)
  /\ Resting.batch = {} /\ Resting.view = NoView /\ Resting.open = {} /\ Resting.step = "idle"
  BY DEF Resting, Held, Sound

(* One poller's new state, as each kind of step leaves it. *)
LEMMA WriteHeld ==
  ASSUME PollersOK, NEW p \in Pollers, NEW r \in Held, Sound(r),
         poller' = [poller EXCEPT ![p] = r]
  PROVE  /\ PollersOK'
         /\ poller'[p] = r
         /\ \A q \in Pollers \ {p} : poller'[q] = poller[q]
  BY DEF PollersOK

LEMMA NextRowHeld ==
  ASSUME PollersOK, NEW p \in Pollers, NextRow(p)
  PROVE  /\ PollersOK'
         /\ poller'[p].batch = poller[p].batch
         /\ poller'[p].view = NoView
         /\ poller'[p].open = {}
         /\ poller'[p].step \in {"idle", "next"}
         /\ \A q \in Pollers \ {p} : poller'[q] = poller[q]
<1> DEFINE r == [Resting EXCEPT !.step = "next", !.batch = poller[p].batch]
<1>1. poller[p] \in Held
  BY DEF PollersOK
<1>2. /\ r \in Held /\ Sound(r)
      /\ r.batch = poller[p].batch /\ r.view = NoView /\ r.open = {} /\ r.step = "next"
  BY <1>1, OutboxConstants DEF Resting, Held, Sound
<1>3. poller' = [poller EXCEPT ![p] = IF poller[p].batch = {} THEN Resting ELSE r]
  BY DEF NextRow
<1> HIDE DEF r
<1>4. CASE poller[p].batch = {}
  BY <1>3, <1>4, RestingType, WriteHeld
<1>5. CASE poller[p].batch # {}
  BY <1>2, <1>3, <1>5, WriteHeld
<1> QED
  BY <1>4, <1>5

LEMMA TakeUpHeld ==
  ASSUME PollersOK, NEW p \in Pollers, NEW v \in Views,
         NEW open \in SUBSET (Senders \cup {"insert", "publish"}), TakeUp(p, v, open)
  PROVE  /\ PollersOK'
         /\ poller'[p].batch = poller[p].batch \ {v}
         /\ poller'[p].view = v
         /\ poller'[p].open = open
         /\ poller'[p].step = "dispatch"
         /\ \A q \in Pollers \ {p} : poller'[q] = poller[q]
<1> DEFINE r == [step |-> "dispatch", view |-> v, open |-> open,
                 batch |-> poller[p].batch \ {v}]
<1>1. poller[p] \in Held
  BY DEF PollersOK
<1>2. /\ r \in Held /\ Sound(r)
      /\ r.batch = poller[p].batch \ {v} /\ r.view = v /\ r.open = open /\ r.step = "dispatch"
  BY <1>1, OutboxConstants DEF Held, Sound
<1>3. poller' = [poller EXCEPT ![p] = r]
  BY DEF TakeUp
<1> HIDE DEF r
<1> QED
  BY <1>2, <1>3, WriteHeld

LEMMA CloseHeld ==
  ASSUME PollersOK, NEW p \in Pollers, NEW work,
         NEW more \in SUBSET {"publish"}, Close(p, work, more)
  PROVE  /\ PollersOK'
         /\ poller'[p].batch = poller[p].batch
         /\ poller'[p].view = poller[p].view
         /\ poller'[p].step = poller[p].step
         /\ poller'[p].open = (poller[p].open \ {work}) \cup more
         /\ \A q \in Pollers \ {p} : poller'[q] = poller[q]
<1> DEFINE r == [poller[p] EXCEPT !.open = (poller[p].open \ {work}) \cup more]
<1>1. poller[p] \in Held /\ Sound(poller[p])
  BY DEF PollersOK
<1>2. /\ r \in Held
      /\ r.batch = poller[p].batch /\ r.view = poller[p].view /\ r.step = poller[p].step
      /\ r.open = (poller[p].open \ {work}) \cup more
  BY <1>1 DEF Held
<1>3. Sound(r)
  BY <1>1, <1>2 DEF Sound
<1>4. poller' = [poller EXCEPT ![p] = r]
  BY DEF Close
<1> HIDE DEF r
<1> QED
  BY <1>2, <1>3, <1>4, WriteHeld

LEMMA StepHeld ==
  ASSUME PollersOK, NEW p \in Pollers, poller[p].step = "dispatch",
         poller' = [poller EXCEPT ![p].step = "retry"]
  PROVE  /\ PollersOK'
         /\ poller'[p].batch = poller[p].batch
         /\ poller'[p].view = poller[p].view
         /\ poller'[p].open = poller[p].open
         /\ poller'[p].step = "retry"
         /\ \A q \in Pollers \ {p} : poller'[q] = poller[q]
<1> DEFINE r == [poller[p] EXCEPT !.step = "retry"]
<1>1. poller[p] \in Held /\ Sound(poller[p])
  BY DEF PollersOK
<1>2. /\ r \in Held
      /\ r.batch = poller[p].batch /\ r.view = poller[p].view /\ r.step = "retry"
      /\ r.open = poller[p].open
  BY <1>1 DEF Held
<1>3. Sound(r)
  BY <1>1, <1>2 DEF Sound
<1>4. poller' = [poller EXCEPT ![p] = r]
  OBVIOUS
<1> HIDE DEF r
<1> QED
  BY <1>2, <1>3, <1>4, WriteHeld

LEMMA ClaimHeld ==
  ASSUME PollersOK, NEW p \in Pollers, NEW batch \in SUBSET Views,
         poller' = [poller EXCEPT ![p] = [Resting EXCEPT !.step = "next", !.batch = batch]]
  PROVE  /\ PollersOK'
         /\ poller'[p].batch = batch
         /\ poller'[p].view = NoView
         /\ poller'[p].open = {}
         /\ poller'[p].step = "next"
         /\ \A q \in Pollers \ {p} : poller'[q] = poller[q]
<1> DEFINE r == [Resting EXCEPT !.step = "next", !.batch = batch]
<1>1. /\ r \in Held /\ Sound(r)
      /\ r.batch = batch /\ r.view = NoView /\ r.open = {} /\ r.step = "next"
  BY OutboxConstants DEF Resting, Held, Sound
<1>2. poller' = [poller EXCEPT ![p] = r]
  OBVIOUS
<1> HIDE DEF r
<1> QED
  BY <1>1, <1>2, WriteHeld

-------------------------------------------------------------------------------
(* No two pollers hold one row, a row in hand is one the claim marked and *)
(* has a retry left, and a row waits only after its view.                 *)
HandInv ==
  /\ ClaimExclusive
  /\ \A p \in Pollers : \A v \in InHand(p) :
       /\ outbox[v].status \in {"processing", "processed"}
       /\ outbox[v].retry < MaxRetries
  /\ \A p \in Pollers : \A v \in InHand(p) :
       outbox[v].status = "processing" \/ (poller[p].step = "retry" /\ poller[p].view = v)
  /\ \A v \in Views : outbox[v].status = "pending" => outbox[v].retry < MaxRetries
  /\ \A v \in Views : created[v] = 0 => outbox[v].status = "absent"

BaseInv == PollersOK /\ RowsOK /\ HandInv

LEMMA BaseInit == Init => BaseInv
<1> SUFFICES ASSUME Init PROVE BaseInv
  OBVIOUS
<1>1. PollersOK
  BY RestingType DEF Init, PollersOK
<1>2. RowsOK
  BY OutboxConstants DEF Init, RowsOK, RowStatus
<1>3. \A p \in Pollers : InHand(p) = {}
  BY RestingType DEF Init, InHand
<1>4. HandInv
  BY <1>3 DEF Init, HandInv, ClaimExclusive
<1> QED
  BY <1>1, <1>2, <1>4 DEF BaseInv

(* A poller that takes nothing up leaves every row as it was. *)
LEMMA HandFrame ==
  ASSUME HandInv, UNCHANGED rows, NEW p \in Pollers,
         \A q \in Pollers \ {p} : poller'[q] = poller[q],
         InHand(p)' \subseteq InHand(p),
         \/ poller'[p].step = poller[p].step /\ poller'[p].view = poller[p].view
         \/ poller[p].step # "retry"
         \/ poller[p].view \notin InHand(p)'
  PROVE  HandInv'
<1>1. \A q \in Pollers \ {p} : InHand(q)' = InHand(q)
  BY DEF InHand
<1>2. ClaimExclusive'
  BY <1>1 DEF HandInv, ClaimExclusive
<1> QED
  BY <1>1, <1>2 DEF HandInv, rows

(* The row in hand is let go, whatever the last UPDATE made of it. *)
LEMMA HandRelease ==
  ASSUME BaseInv, PollersOK', NEW p \in Pollers, NextRow(p),
         poller[p].view # NoView, UNCHANGED created,
         \A v \in Views : v # poller[p].view => outbox'[v] = outbox[v],
         LET row == outbox'[poller[p].view] IN
           row.status # "absent" /\ (row.status = "pending" => row.retry < MaxRetries)
  PROVE  HandInv'
<1>1. /\ poller[p].view \in Views /\ poller[p].view \notin poller[p].batch
      /\ poller[p].batch \subseteq Views
  BY DEF BaseInv, PollersOK, Held, Sound
<1>2. /\ InHand(p)' = poller[p].batch
      /\ \A q \in Pollers \ {p} : InHand(q)' = InHand(q) /\ poller'[q] = poller[q]
  BY NextRowHeld DEF BaseInv, InHand
<1>3. \A q \in Pollers \ {p} : poller[p].view \notin InHand(q)
  BY <1>1 DEF BaseInv, HandInv, ClaimExclusive, InHand
<1>4. ClaimExclusive'
  BY <1>2 DEF BaseInv, HandInv, ClaimExclusive, InHand
<1>5. \A q \in Pollers : InHand(q) \subseteq Views
  BY DEF BaseInv, PollersOK, Held, InHand
<1>6. ASSUME NEW q \in Pollers, NEW v \in InHand(q)'
      PROVE  /\ outbox'[v] = outbox[v] /\ v \in InHand(q) /\ v # poller[p].view
             /\ q # p => poller'[q] = poller[q]
  BY <1>1, <1>2, <1>3, <1>5, <1>6 DEF InHand
<1>7. ASSUME NEW v \in Views
      PROVE  /\ outbox'[v].status = "pending" => outbox'[v].retry < MaxRetries
             /\ created'[v] = 0 => outbox'[v].status = "absent"
  <2>1. created[poller[p].view] # 0
    BY <1>1 DEF BaseInv, HandInv, InHand
  <2> QED
    BY <2>1 DEF BaseInv, HandInv
<1> QED
  BY <1>4, <1>6, <1>7 DEF BaseInv, HandInv

(* A channel's step closes one piece of work of the row in hand. *)
LEMMA DeliverEffect ==
  ASSUME PollersOK, NEW p \in Pollers, Deliver(p)
  PROVE  /\ PollersOK'
         /\ UNCHANGED <<rows, gone, muted>>
         /\ poller[p].step = "dispatch"
         /\ poller'[p].batch = poller[p].batch
         /\ poller'[p].view = poller[p].view
         /\ poller'[p].step = poller[p].step
         /\ \A q \in Pollers \ {p} : poller'[q] = poller[q]
<1>1. PICK work \in Senders \cup {"insert", "publish"}, more \in SUBSET {"publish"} :
        Open(p, work) /\ Close(p, work, more)
  <2>1. CASE InsertNotification(p)
    <3>1. Open(p, "insert") /\ (Close(p, "insert", {}) \/ Close(p, "insert", {"publish"}))
      BY <2>1 DEF InsertNotification
    <3> QED
      BY <3>1
  <2>2. CASE InsertFails(p)
    BY <2>2 DEF InsertFails
  <2>3. CASE Publish(p) \/ PublishFails(p)
    BY <2>3 DEF Publish, PublishFails
  <2>4. ASSUME NEW c \in Senders, Send(p, c) \/ SendUnchecked(p, c)
        PROVE  Open(p, c) /\ Close(p, c, {})
    BY <2>4 DEF Send, SendUnchecked
  <2> QED
    BY <2>1, <2>2, <2>3, <2>4 DEF Deliver
<1>2. UNCHANGED <<rows, gone, muted>>
  BY DEF Deliver, InsertNotification, InsertFails, Publish, PublishFails, Send,
         SendUnchecked, history
<1> QED
  BY <1>1, <1>2, CloseHeld DEF Open

LEMMA BaseStep == BaseInv /\ [Next]_vars => BaseInv'
<1> SUFFICES ASSUME BaseInv, PollersOK, RowsOK, HandInv, [Next]_vars PROVE BaseInv'
  BY DEF BaseInv
<1>1. ASSUME UNCHANGED <<rows, poller>> PROVE BaseInv'
  BY <1>1 DEF BaseInv, PollersOK, RowsOK, HandInv, ClaimExclusive, InHand, rows
<1>2. CASE UNCHANGED vars
  BY <1>1, <1>2 DEF vars
<1>3. CASE Outside
  BY <1>1, <1>3 DEF Outside, SeekerLeaves, KeyExpires
<1>4. ASSUME NEW v \in Views, RecordView(v) PROVE BaseInv'
  <2>1. created' \in [Views -> Nat]
    <3>1. IsFiniteSet({u \in Views : created[u] > 0})
      BY OutboxConstants, FS_Subset
    <3>2. Cardinality({u \in Views : created[u] > 0}) \in Nat
      BY <3>1, FS_CardinalityType
    <3> QED
      BY <1>4, <3>2 DEF RecordView, RowsOK
  <2>2. /\ created'[v] # 0
        /\ outbox' = [outbox EXCEPT ![v] = [status |-> "pending", retry |-> 0]]
        /\ \A u \in Views \ {v} : created'[u] = created[u]
    <3>1. IsFiniteSet({u \in Views : created[u] > 0})
      BY OutboxConstants, FS_Subset
    <3>2. Cardinality({u \in Views : created[u] > 0}) \in Nat
      BY <3>1, FS_CardinalityType
    <3> QED
      BY <1>4, <3>2 DEF RecordView, RowsOK
  <2>3. RowsOK'
    BY <2>1, <2>2, OutboxConstants DEF RowsOK, RowStatus
  <2>4. UNCHANGED poller /\ \A p \in Pollers : v \notin InHand(p) /\ InHand(p) \subseteq Views
    BY <1>4 DEF RecordView, HandInv, PollersOK, Held, InHand
  <2>5. HandInv'
    BY <2>2, <2>4, OutboxConstants DEF HandInv, ClaimExclusive, InHand, RowsOK
  <2> QED
    BY <2>3, <2>4, <2>5 DEF BaseInv, PollersOK
<1>5. ASSUME NEW v \in Views, Cleanup(v) PROVE BaseInv'
  <2>1. RowsOK'
    BY <1>5, OutboxConstants DEF Cleanup, RowsOK, RowStatus
  <2>2. HandInv'
    <3>1. \A p \in Pollers : v \notin InHand(p) /\ InHand(p) \subseteq Views
      BY <1>5 DEF Cleanup, PollersOK, Held, InHand
    <3>2. /\ \A u \in Views : u # v => outbox'[u] = outbox[u]
          /\ outbox'[v].status = "absent"
          /\ UNCHANGED <<created, poller>>
      BY <1>5 DEF Cleanup, RowsOK
    <3>3. \A p \in Pollers : InHand(p)' = InHand(p)
      BY <3>2 DEF InHand
    <3>4. ClaimExclusive'
      BY <3>3 DEF HandInv, ClaimExclusive
    <3> QED
      BY <3>1, <3>2, <3>3, <3>4 DEF HandInv
  <2> QED
    BY <1>5, <2>1, <2>2 DEF Cleanup, BaseInv, PollersOK
<1>6. ASSUME NEW p \in Pollers, Claim(p) PROVE BaseInv'
  <2>1. PICK batch \in SUBSET Pending :
          /\ poller' = [poller EXCEPT ![p] = [Resting EXCEPT !.step = "next", !.batch = batch]]
          /\ outbox' = [v \in Views |->
               IF v \in batch THEN [outbox[v] EXCEPT !.status = "processing"] ELSE outbox[v]]
    BY <1>6 DEF Claim
  <2>2. batch \subseteq Views
    BY DEF Pending
  <2>3. /\ PollersOK'
        /\ poller'[p].batch = batch /\ poller'[p].view = NoView /\ poller'[p].step = "next"
        /\ \A q \in Pollers \ {p} : poller'[q] = poller[q]
    BY <2>1, <2>2, ClaimHeld
  <2>4. \A v \in Views : /\ v \in batch => outbox'[v].status = "processing"
                         /\ outbox'[v].retry = outbox[v].retry
                         /\ v \notin batch => outbox'[v] = outbox[v]
    BY <2>1 DEF RowsOK
  <2>5. RowsOK'
    BY <1>6, <2>1 DEF Claim, RowsOK, RowStatus
  <2>6. /\ InHand(p)' = batch
        /\ \A q \in Pollers \ {p} : InHand(q)' = InHand(q)
    BY <2>3 DEF InHand
  <2>7. \A q \in Pollers : InHand(q) \cap batch = {} /\ InHand(q) \subseteq Views
    BY DEF HandInv, Pending, PollersOK, Held, InHand
  <2>8. ClaimExclusive'
    BY <2>6, <2>7 DEF HandInv, ClaimExclusive
  <2>9. \A v \in batch : outbox[v].status = "pending"
    BY DEF Pending
  <2>10. HandInv'
    BY <1>6, <2>2, <2>3, <2>4, <2>6, <2>7, <2>8, <2>9 DEF Claim, HandInv
  <2> QED
    BY <2>3, <2>5, <2>10 DEF BaseInv
<1>7. ASSUME NEW p \in Pollers, Deliver(p) PROVE BaseInv'
  <2>1. InHand(p)' = InHand(p)
    BY <1>7, DeliverEffect DEF InHand
  <2> QED
    BY <1>7, <2>1, DeliverEffect, HandFrame DEF BaseInv, RowsOK, rows
<1>8. ASSUME NEW p \in Pollers, NEW v \in Views, Take(p, v) PROVE BaseInv'
  <2>1. PICK open \in SUBSET (Senders \cup {"insert", "publish"}) : TakeUp(p, v, open)
    BY <1>8 DEF Take, Consume, Dispatch
  <2>2. /\ poller[p].step = "next" /\ v \in poller[p].batch /\ UNCHANGED rows
    BY <1>8 DEF Take, Consume, Dispatch
  <2>3. InHand(p)' \subseteq InHand(p)
    BY <2>1, <2>2, TakeUpHeld DEF InHand
  <2> QED
    BY <2>1, <2>2, <2>3, TakeUpHeld, HandFrame DEF BaseInv, RowsOK, rows
<1>9. ASSUME NEW p \in Pollers, Crash(p) PROVE BaseInv'
  <2>1. /\ PollersOK' /\ poller'[p] = Resting
        /\ \A q \in Pollers \ {p} : poller'[q] = poller[q]
    BY <1>9, RestingType, WriteHeld DEF Crash
  <2>2. InHand(p)' = {}
    BY <2>1, RestingType DEF InHand
  <2> QED
    BY <1>9, <2>1, <2>2, HandFrame DEF Crash, BaseInv, RowsOK, rows
<1>10. ASSUME NEW p \in Pollers, poller[p].step \in {"dispatch", "retry"}
       PROVE  /\ poller[p].view \in Views /\ poller[p].view # NoView
              /\ poller[p].view \in InHand(p)
  BY <1>10 DEF PollersOK, Held, Sound, InHand
<1>11. ASSUME NEW p \in Pollers, MarkFails(p) PROVE BaseInv'
  <2> DEFINE v == poller[p].view
  <2>1. /\ PollersOK' /\ InHand(p)' = InHand(p) /\ poller'[p].step = "retry"
        /\ poller'[p].view = v /\ v \in Views /\ v \in InHand(p)
        /\ \A q \in Pollers \ {p} : poller'[q] = poller[q]
    BY <1>10, <1>11, StepHeld DEF MarkFails, Settled, InHand
  <2>2. /\ \A u \in Views : u # v => outbox'[u] = outbox[u]
        /\ outbox'[v].status \in {outbox[v].status, "processed"}
        /\ outbox'[v].retry = outbox[v].retry
        /\ RowsOK' /\ UNCHANGED created
    BY <1>11, <2>1 DEF MarkFails, Processed, RowsOK, RowStatus
  <2> HIDE DEF v
  <2>3. /\ \A q \in Pollers \ {p} : InHand(q)' = InHand(q) /\ v \notin InHand(q)
        /\ \A q \in Pollers : InHand(q) \subseteq Views
    BY <2>1 DEF InHand, HandInv, ClaimExclusive, PollersOK, Held
  <2>4. ClaimExclusive'
    BY <2>1, <2>3 DEF HandInv, ClaimExclusive
  <2>5. HandInv'
    <3>1. ASSUME NEW q \in Pollers, NEW u \in InHand(q)'
          PROVE  /\ outbox'[u].status \in {"processing", "processed"}
                 /\ outbox'[u].retry < MaxRetries
                 /\ \/ outbox'[u].status = "processing"
                    \/ poller'[q].step = "retry" /\ poller'[q].view = u
      <4>1. u \in InHand(q) /\ u \in Views
        BY <2>1, <2>3, <3>1
      <4>2. CASE u = v
        BY <2>1, <2>2, <2>3, <3>1, <4>1, <4>2 DEF HandInv
      <4>3. CASE u # v
        <5>1. outbox'[u] = outbox[u]
          BY <2>2, <4>1, <4>3
        <5>2. poller[p].step # "retry"
          BY <1>11 DEF MarkFails, Settled
        <5> QED
          BY <2>1, <4>1, <5>1, <5>2 DEF HandInv
      <4> QED
        BY <4>2, <4>3
    <3>2. outbox[v].status \in {"processing", "processed"} /\ created[v] # 0
      BY <2>1 DEF HandInv
    <3> QED
      BY <2>1, <2>2, <2>4, <3>1, <3>2 DEF HandInv
  <2> QED
    BY <2>1, <2>2, <2>5 DEF BaseInv
<1>12. ASSUME NEW p \in Pollers, Mark(p) PROVE BaseInv'
  <2>1. /\ poller[p].view \in Views /\ poller[p].view # NoView
        /\ outbox' = [outbox EXCEPT ![poller[p].view].status = "processed"]
        /\ NextRow(p) /\ UNCHANGED created
    BY <1>10, <1>12 DEF Mark, Settled, Processed
  <2>2. RowsOK' /\ PollersOK'
    BY <2>1, NextRowHeld DEF RowsOK, RowStatus
  <2>3. /\ \A v \in Views : v # poller[p].view => outbox'[v] = outbox[v]
        /\ outbox'[poller[p].view].status = "processed"
    BY <2>1 DEF RowsOK
  <2> QED
    BY <2>1, <2>2, <2>3, HandRelease DEF BaseInv
<1>13. ASSUME NEW p \in Pollers, Retry(p) PROVE BaseInv'
  <2> DEFINE row == outbox[poller[p].view]
  <2>1. /\ poller[p].view \in Views /\ poller[p].view # NoView
        /\ outbox' = [outbox EXCEPT ![poller[p].view] = Retried(row)]
        /\ row.retry \in 0 .. MaxRetries - 1
        /\ NextRow(p) /\ UNCHANGED created
    BY <1>10, <1>13, OutboxConstants DEF Retry, HandInv, RowsOK
  <2>2. /\ Retried(row) \in [status : RowStatus, retry : 0 .. MaxRetries]
        /\ Retried(row).status # "absent"
        /\ Retried(row).status = "pending" => Retried(row).retry < MaxRetries
    BY <2>1, OutboxConstants DEF Retried, RowStatus
  <2> HIDE DEF row
  <2>3. RowsOK' /\ PollersOK'
    BY <2>1, <2>2, NextRowHeld DEF RowsOK
  <2>4. /\ \A v \in Views : v # poller[p].view => outbox'[v] = outbox[v]
        /\ outbox'[poller[p].view] = Retried(row)
    BY <2>1 DEF RowsOK
  <2> QED
    BY <2>1, <2>2, <2>3, <2>4, HandRelease DEF BaseInv
<1>14. ASSUME NEW p \in Pollers, RetryFails(p) PROVE BaseInv'
  <2>1. /\ poller[p].view \in Views /\ poller[p].view # NoView
        /\ outbox[poller[p].view].status \in {"processing", "processed"}
        /\ NextRow(p) /\ UNCHANGED rows
    BY <1>10, <1>14 DEF RetryFails, HandInv
  <2>2. PollersOK'
    BY <2>1, NextRowHeld
  <2> QED
    BY <2>1, <2>2, HandRelease DEF BaseInv, RowsOK, rows
<1> QED
  BY <1>2, <1>3, <1>4, <1>5, <1>6, <1>7, <1>8, <1>9, <1>11, <1>12, <1>13, <1>14, NextCases

-------------------------------------------------------------------------------
LEMMA EffectsInit == Init => EffectsOK
  BY DEF Init, EffectsOK

(* Only channels and what happens outside the pollers change the effects; *)
(* taking a row up only what history says of it.                          *)
LEMMA EffectsWriters ==
  ASSUME [Next]_vars
  PROVE  \/ UNCHANGED <<effects, history>>
         \/ UNCHANGED effects /\ \E p \in Pollers, v \in Views : Take(p, v)
         \/ \E p \in Pollers : Deliver(p)
         \/ Outside
<1>1. CASE UNCHANGED vars
  BY <1>1 DEF vars
<1>2. ASSUME NEW p \in Pollers,
             \/ Claim(p) \/ Mark(p) \/ MarkFails(p) \/ Retry(p) \/ RetryFails(p) \/ Crash(p)
      PROVE  UNCHANGED <<effects, history>>
  BY <1>2 DEF Claim, Mark, MarkFails, Retry, RetryFails, Crash
<1>3. ASSUME NEW v \in Views, RecordView(v) \/ Cleanup(v)
      PROVE  UNCHANGED <<effects, history>>
  BY <1>3 DEF RecordView, Cleanup
<1>4. ASSUME NEW p \in Pollers, NEW v \in Views, Take(p, v) PROVE UNCHANGED effects
  BY <1>4 DEF Take, Consume, Dispatch
<1> QED
  BY <1>1, <1>2, <1>3, <1>4, NextCases

LEMMA DispatchView ==
  ASSUME PollersOK, NEW p \in Pollers, poller[p].step \in {"dispatch", "retry"}
  PROVE  /\ poller[p].view \in Views /\ poller[p].view # NoView
         /\ poller[p].view \in InHand(p)
  BY DEF PollersOK, Held, Sound, InHand

LEMMA EffectsStep == BaseInv /\ EffectsOK /\ [Next]_vars => EffectsOK'
<1> SUFFICES ASSUME BaseInv, PollersOK, EffectsOK, [Next]_vars PROVE EffectsOK'
  BY DEF BaseInv
<1>1. CASE UNCHANGED <<effects, history>>
  BY <1>1 DEF EffectsOK, effects, history
<1>2. ASSUME NEW p \in Pollers, NEW v \in Views, Take(p, v) PROVE EffectsOK'
  BY <1>2 DEF Take, Consume, Dispatch, EffectsOK, effects
<1>3. ASSUME NEW p \in Pollers, Deliver(p) PROVE EffectsOK'
  <2>1. poller[p].view \in Views
    BY <1>3, DeliverEffect, DispatchView
  <2>2. CASE InsertNotification(p) \/ InsertFails(p)
    BY <2>1, <2>2 DEF InsertNotification, InsertFails, EffectsOK, history
  <2>3. CASE Publish(p) \/ PublishFails(p)
    BY <2>1, <2>3 DEF Publish, PublishFails, EffectsOK, history, effects
  <2>4. ASSUME NEW c \in Senders, Send(p, c) PROVE EffectsOK'
    <3>1. keys' \in [Views -> SUBSET Senders]
      BY <2>1, <2>4 DEF Send, EffectsOK
    <3>2. sent' \in [Views -> [Senders -> Nat]]
      BY <2>1, <2>4 DEF Send, EffectsOK
    <3> QED
      BY <2>4, <3>1, <3>2 DEF Send, EffectsOK, history
  <2>5. ASSUME NEW c \in Senders, SendUnchecked(p, c) PROVE EffectsOK'
    <3>1. sent' \in [Views -> [Senders -> Nat]] /\ lapses' \in [Views -> [Senders -> Nat]]
      BY <2>1, <2>5 DEF SendUnchecked, EffectsOK
    <3> QED
      BY <2>5, <3>1 DEF SendUnchecked, EffectsOK, history
  <2> QED
    BY <1>3, <2>2, <2>3, <2>4, <2>5 DEF Deliver
<1>4. ASSUME NEW v \in Views, SeekerLeaves(v) PROVE EffectsOK'
  BY <1>4 DEF SeekerLeaves, EffectsOK, effects
<1>5. ASSUME NEW v \in Views, NEW c \in Senders, KeyExpires(v, c) PROVE EffectsOK'
  BY <1>5 DEF KeyExpires, EffectsOK, history
<1> QED
  BY <1>1, <1>2, <1>3, <1>4, <1>5, EffectsWriters DEF Outside

LEMMA BaseHeld == Spec => [](BaseInv /\ EffectsOK)
  BY BaseInit, BaseStep, EffectsInit, EffectsStep, PTL DEF Spec

(* TypeOK holds in every reachable state, for every value of the constants. *)
THEOREM TypeCorrect == Spec => []TypeOK
<1>1. BaseInv /\ EffectsOK => TypeOK
  BY TypeParts DEF BaseInv
<1> QED
  BY <1>1, BaseHeld, PTL

(* Overlapping pollers never hold one row: SKIP LOCKED at the claim is      *)
(* enough, because nothing puts a row back while it is in somebody's hand.  *)
THEOREM RowsClaimedOnce == Spec => []ClaimExclusive
<1>1. BaseInv => ClaimExclusive
  BY DEF BaseInv, HandInv
<1> QED
  BY <1>1, BaseHeld, PTL

-------------------------------------------------------------------------------
(* Each send beyond the first is paid for by a lapse, and the first one by *)
(* the key that is still set.                                              *)
RepeatInv ==
  \A v \in Views, c \in Senders :
    sent[v][c] <= (IF c \in keys[v] THEN 1 ELSE 0) + lapses[v][c]

LEMMA RepeatInit == Init => RepeatInv
  BY DEF Init, RepeatInv

LEMMA RepeatStep == BaseInv /\ EffectsOK /\ RepeatInv /\ [Next]_vars => RepeatInv'
<1> SUFFICES ASSUME BaseInv, PollersOK, EffectsOK, RepeatInv, [Next]_vars,
                    NEW v \in Views, NEW c \in Senders
             PROVE  sent'[v][c] <= (IF c \in keys'[v] THEN 1 ELSE 0) + lapses'[v][c]
  BY DEF BaseInv, RepeatInv
<1>1. CASE UNCHANGED <<keys, sent, lapses>>
  BY <1>1 DEF RepeatInv
<1>2. ASSUME NEW p \in Pollers, NEW d \in Senders, Send(p, d) \/ SendUnchecked(p, d)
      PROVE  sent'[v][c] <= (IF c \in keys'[v] THEN 1 ELSE 0) + lapses'[v][c]
  <2>1. poller[p].view \in Views
    <3>1. Deliver(p)
      BY <1>2 DEF Deliver
    <3> QED
      BY <3>1, DeliverEffect, DispatchView
  <2>2. /\ sent[v][c] \in Nat /\ lapses[v][c] \in Nat
        /\ sent \in [Views -> [Senders -> Nat]] /\ lapses \in [Views -> [Senders -> Nat]]
        /\ keys \in [Views -> SUBSET Senders]
    BY DEF EffectsOK
  <2>3. CASE Send(p, d)
    <3>1. sent[v][c] <= (IF c \in keys[v] THEN 1 ELSE 0) + lapses[v][c] /\ lapses' = lapses
      BY <2>3 DEF Send, RepeatInv
    <3>2. CASE v = poller[p].view /\ c = d
      <4>1. c \in keys'[v] /\ sent'[v][c] = IF c \in keys[v] THEN sent[v][c] ELSE sent[v][c] + 1
        BY <2>1, <2>2, <2>3, <3>2 DEF Send
      <4> QED
        BY <2>2, <3>1, <4>1
    <3>3. CASE ~(v = poller[p].view /\ c = d)
      <4>1. ((c \in keys'[v]) <=> (c \in keys[v])) /\ sent'[v][c] = sent[v][c]
        BY <2>1, <2>2, <2>3, <3>3 DEF Send
      <4> QED
        BY <3>1, <4>1
    <3> QED
      BY <3>2, <3>3
  <2>4. CASE SendUnchecked(p, d)
    BY <2>1, <2>2, <2>4 DEF SendUnchecked, RepeatInv
  <2> QED
    BY <1>2, <2>3, <2>4
<1>3. ASSUME NEW u \in Views, NEW d \in Senders, KeyExpires(u, d)
      PROVE  sent'[v][c] <= (IF c \in keys'[v] THEN 1 ELSE 0) + lapses'[v][c]
  <2>1. /\ sent[v][c] \in Nat /\ lapses[v][c] \in Nat
        /\ lapses \in [Views -> [Senders -> Nat]] /\ keys \in [Views -> SUBSET Senders]
    BY DEF EffectsOK
  <2> QED
    BY <1>3, <2>1 DEF KeyExpires, RepeatInv
<1>4. ASSUME NEW p \in Pollers,
             InsertNotification(p) \/ InsertFails(p) \/ Publish(p) \/ PublishFails(p)
      PROVE  UNCHANGED <<keys, sent, lapses>>
  BY <1>4 DEF InsertNotification, InsertFails, Publish, PublishFails, effects
<1>5. ASSUME NEW u \in Views, SeekerLeaves(u) PROVE UNCHANGED <<keys, sent, lapses>>
  BY <1>5 DEF SeekerLeaves, effects
<1> QED
  BY <1>1, <1>2, <1>3, <1>4, <1>5, EffectsWriters DEF Outside, Deliver, effects

(* A replayed row repeats a message only as often as its Redis key expired *)
(* or the check failed open.                                               *)
THEOREM RepeatsNeedLapses == Spec => []RepeatsExcused
<1>1. EffectsOK /\ RepeatInv => RepeatsExcused
  <2> SUFFICES ASSUME EffectsOK, RepeatInv, NEW v \in Views, NEW c \in Senders
               PROVE  sent[v][c] <= 1 + lapses[v][c]
    BY DEF RepeatsExcused
  <2>1. sent[v][c] \in Nat /\ lapses[v][c] \in Nat
    BY DEF EffectsOK
  <2> QED
    BY <2>1 DEF RepeatInv
<1> QED
  BY <1>1, BaseInit, BaseStep, EffectsInit, EffectsStep, RepeatInit, RepeatStep, PTL DEF Spec

-------------------------------------------------------------------------------
(* A row whose in-app channel is done with is one NothingElseLost excuses. *)
Excused(v) == v \in notified \cup gone \cup muted \cup dropped

Accounted(p) ==
  /\ poller[p].step = "dispatch" => "insert" \in poller[p].open \/ Excused(poller[p].view)
  /\ poller[p].step = "retry" => Excused(poller[p].view)

LostInv == NothingElseLost /\ \A p \in Pollers : Accounted(p)

LEMMA LostInit == Init => LostInv
  BY RestingType DEF Init, LostInv, NothingElseLost, Accounted

(* Other pollers, and rows no step marks, stay accounted for. *)
LEMMA LostFrame ==
  ASSUME LostInv, NEW p \in Pollers, Accounted(p)',
         \A q \in Pollers \ {p} : poller'[q] = poller[q],
         \A v \in Views : Excused(v) => Excused(v)',
         PollersOK,
         \A v \in Views : outbox'[v].status = "processed"
           => outbox[v].status = "processed" \/ Excused(v)
  PROVE  LostInv'
<1>1. NothingElseLost'
  BY DEF LostInv, NothingElseLost, Excused
<1>2. ASSUME NEW q \in Pollers \ {p} PROVE Accounted(q)'
  BY <1>2, DispatchView DEF LostInv, Accounted, Excused
<1> QED
  BY <1>1, <1>2 DEF LostInv

LEMMA LostStep == BaseInv /\ LostInv /\ [Next]_vars => LostInv'
<1> SUFFICES ASSUME BaseInv, PollersOK, RowsOK, HandInv, LostInv, [Next]_vars PROVE LostInv'
  BY DEF BaseInv
<1>1. ASSUME UNCHANGED poller, \A v \in Views : Excused(v) => Excused(v)',
             \A v \in Views : outbox'[v].status = "processed" => outbox[v].status = "processed"
      PROVE  LostInv'
  <2>1. NothingElseLost'
    BY <1>1 DEF LostInv, NothingElseLost, Excused
  <2>2. ASSUME NEW q \in Pollers PROVE Accounted(q)'
    BY <1>1, <2>2, DispatchView DEF LostInv, Accounted, Excused
  <2> QED
    BY <2>1, <2>2 DEF LostInv
<1>2. CASE UNCHANGED vars
  BY <1>1, <1>2 DEF vars, rows, effects, history, Excused
<1>3. CASE Outside
  BY <1>1, <1>3 DEF Outside, SeekerLeaves, KeyExpires, rows, effects, history, Excused
<1>4. ASSUME NEW v \in Views, RecordView(v) \/ Cleanup(v) PROVE LostInv'
  BY <1>1, <1>4 DEF RecordView, Cleanup, RowsOK, effects, history, Excused
<1>5. ASSUME NEW p \in Pollers, UNCHANGED <<effects, history>>,
             \A q \in Pollers \ {p} : poller'[q] = poller[q],
             Accounted(p)',
             \A v \in Views : outbox'[v].status = "processed"
               => outbox[v].status = "processed" \/ Excused(v)
      PROVE  LostInv'
  BY <1>5, LostFrame DEF effects, history, Excused
<1>6. ASSUME NEW p \in Pollers, Claim(p) PROVE LostInv'
  <2>1. PICK batch \in SUBSET Views :
          /\ poller' = [poller EXCEPT ![p] = [Resting EXCEPT !.step = "next", !.batch = batch]]
          /\ outbox' = [v \in Views |->
               IF v \in batch THEN [outbox[v] EXCEPT !.status = "processing"] ELSE outbox[v]]
    BY <1>6 DEF Claim, Pending
  <2>2. poller'[p].step = "next" /\ \A q \in Pollers \ {p} : poller'[q] = poller[q]
    BY <2>1, ClaimHeld
  <2>3. \A v \in Views : outbox'[v].status \in {outbox[v].status, "processing"}
    BY <2>1 DEF RowsOK
  <2> QED
    BY <1>5, <1>6, <2>2, <2>3 DEF Claim, Accounted
<1>7. ASSUME NEW p \in Pollers, Crash(p) PROVE LostInv'
  <2>1. poller'[p].step = "idle" /\ \A q \in Pollers \ {p} : poller'[q] = poller[q]
    BY <1>7, RestingType, WriteHeld DEF Crash
  <2> QED
    BY <1>5, <1>7, <2>1 DEF Crash, Accounted, rows
<1>8. ASSUME NEW p \in Pollers, Mark(p) PROVE LostInv'
  <2>1. /\ poller'[p].step \in {"idle", "next"}
        /\ \A q \in Pollers \ {p} : poller'[q] = poller[q]
    BY <1>8, NextRowHeld DEF Mark
  <2>2. \A v \in Views : outbox'[v].status = "processed"
          => outbox[v].status = "processed" \/ v = poller[p].view
    BY <1>8 DEF Mark, Processed, RowsOK
  <2>3. Excused(poller[p].view)
    BY <1>8 DEF Mark, Settled, LostInv, Accounted
  <2> QED
    BY <1>5, <1>8, <2>1, <2>2, <2>3 DEF Mark, Accounted
<1>9. ASSUME NEW p \in Pollers, MarkFails(p) PROVE LostInv'
  <2>1. /\ poller'[p].step = "retry" /\ poller'[p].view = poller[p].view
        /\ \A q \in Pollers \ {p} : poller'[q] = poller[q]
    BY <1>9, StepHeld DEF MarkFails, Settled
  <2>2. \A v \in Views : outbox'[v].status = "processed"
          => outbox[v].status = "processed" \/ v = poller[p].view
    BY <1>9 DEF MarkFails, Processed, RowsOK
  <2>3. Excused(poller[p].view) /\ UNCHANGED <<effects, history>>
    BY <1>9 DEF MarkFails, Settled, LostInv, Accounted
  <2>4. Accounted(p)'
    BY <2>1, <2>3 DEF Accounted, Excused, effects, history
  <2> QED
    BY <1>5, <2>1, <2>2, <2>3, <2>4
<1>10. ASSUME NEW p \in Pollers, Retry(p) \/ RetryFails(p) PROVE LostInv'
  <2>1. /\ poller'[p].step \in {"idle", "next"}
        /\ \A q \in Pollers \ {p} : poller'[q] = poller[q]
    BY <1>10, NextRowHeld DEF Retry, RetryFails
  <2>2. \A v \in Views : outbox'[v].status = "processed" => outbox[v].status = "processed"
    BY <1>10 DEF Retry, RetryFails, Retried, RowsOK, rows
  <2> QED
    BY <1>5, <1>10, <2>1, <2>2 DEF Retry, RetryFails, Accounted
<1>11. ASSUME NEW p \in Pollers, NEW v \in Views, Take(p, v) PROVE LostInv'
  <2>1. PICK open \in SUBSET (Senders \cup {"insert", "publish"}) :
          /\ TakeUp(p, v, open)
          /\ "insert" \in open \/ Excused(v)'
    <3>1. CASE Consume(p, v)
      BY <3>1 DEF Consume, effects, Excused
    <3>2. ASSUME NEW channels \in SUBSET (Senders \cup {"insert"}), Dispatch(p, v, channels)
          PROVE  TakeUp(p, v, channels) /\ ("insert" \in channels \/ Excused(v)')
      BY <3>2 DEF Dispatch, Excused
    <3> QED
      BY <1>11, <3>1, <3>2 DEF Take
  <2>2. /\ UNCHANGED outbox
        /\ poller[p].step = "next" /\ v \in poller[p].batch
        /\ \A u \in Views \ {v} : Excused(u) => Excused(u)'
    BY <1>11 DEF Take, Consume, Dispatch, rows, effects, Excused
  <2>3. /\ poller'[p].step = "dispatch" /\ poller'[p].view = v /\ poller'[p].open = open
        /\ \A q \in Pollers \ {p} : poller'[q] = poller[q]
    BY <2>1, TakeUpHeld
  <2>4. outbox[v].status = "processing" /\ \A q \in Pollers \ {p} : v \notin InHand(q)
    BY <2>2 DEF HandInv, ClaimExclusive, InHand
  <2>5. NothingElseLost'
    BY <2>2, <2>4 DEF LostInv, NothingElseLost, Excused
  <2>6. ASSUME NEW q \in Pollers \ {p} PROVE Accounted(q)'
    BY <2>2, <2>3, <2>4, <2>6, DispatchView DEF LostInv, Accounted, Excused
  <2>7. Accounted(p)'
    BY <2>1, <2>3 DEF Accounted, Excused
  <2> QED
    BY <2>5, <2>6, <2>7 DEF LostInv
<1>12. ASSUME NEW p \in Pollers, Deliver(p) PROVE LostInv'
  <2>1. /\ poller[p].step = "dispatch" /\ poller'[p].view = poller[p].view
        /\ poller'[p].step = poller[p].step /\ UNCHANGED rows
        /\ \A q \in Pollers \ {p} : poller'[q] = poller[q]
    BY <1>12, DeliverEffect
  <2>2. \A v : Excused(v) => Excused(v)'
    BY <1>12 DEF Deliver, InsertNotification, InsertFails, Publish, PublishFails, Send,
                 SendUnchecked, effects, history, Excused
  <2>3. "insert" \in poller[p].open => "insert" \in poller'[p].open \/ Excused(poller[p].view)'
    <3>1. CASE InsertNotification(p) \/ InsertFails(p)
      BY <2>1, <3>1 DEF InsertNotification, InsertFails, Excused
    <3>2. CASE Publish(p) \/ PublishFails(p)
      <4>1. Close(p, "publish", {})
        BY <3>2 DEF Publish, PublishFails
      <4> QED
        BY <4>1, CloseHeld
    <3>3. ASSUME NEW c \in Senders, Send(p, c) \/ SendUnchecked(p, c)
          PROVE  "insert" \in poller[p].open => "insert" \in poller'[p].open
      <4>1. Close(p, c, {}) /\ c # "insert"
        BY <3>3, OutboxConstants DEF Send, SendUnchecked
      <4> QED
        BY <4>1, CloseHeld
    <3> QED
      BY <1>12, <3>1, <3>2, <3>3 DEF Deliver
  <2>4. Accounted(p)'
    <3>1. Excused(poller[p].view) => Excused(poller[p].view)'
      BY <2>1, <2>2 DEF Excused
    <3> QED
      BY <2>1, <2>3, <3>1 DEF LostInv, Accounted
  <2> QED
    BY <2>1, <2>2, <2>4, LostFrame DEF rows
<1> QED
  BY <1>2, <1>3, <1>4, <1>6, <1>7, <1>8, <1>9, <1>10, <1>11, <1>12, NextCases

(* A row is marked processed only if its seeker has the notification, wants *)
(* none, or is gone, unless the router swallowed a failure.                 *)
THEOREM ProcessedAccounted == Spec => []NothingElseLost
<1>1. LostInv => NothingElseLost
  BY DEF LostInv
<1> QED
  BY <1>1, BaseInit, BaseStep, LostInit, LostStep, PTL DEF Spec

-------------------------------------------------------------------------------
(* A row's retry_count pays for the sends: one for each dispatch before this *)
(* one, and one more for a channel this dispatch is done with.               *)
Paid(v) == \A c \in Senders : sent[v][c] <= outbox[v].retry

Charged(p) ==
  /\ \A v \in poller[p].batch : Paid(v)
  /\ poller[p].step \in {"dispatch", "retry"}
       => \A c \in Senders :
            sent[poller[p].view][c] <=
              outbox[poller[p].view].retry + (IF c \in poller[p].open THEN 0 ELSE 1)

SendInv ==
  /\ SendsBounded
  /\ \A v \in Views : outbox[v].status = "pending" => Paid(v)
  /\ \A v \in Views : created[v] = 0 => \A c \in Senders : sent[v][c] = 0
  /\ \A p \in Pollers : Charged(p)

LEMMA SendInit == Init => SendInv
  BY RestingType, OutboxConstants DEF Init, SendInv, SendsBounded, Charged

LEMMA HandViews ==
  ASSUME PollersOK, NEW p \in Pollers
  PROVE  /\ poller[p].batch \subseteq Views /\ poller[p].view \notin poller[p].batch
         /\ \A v \in poller[p].batch : v \in InHand(p)
  BY OutboxConstants DEF PollersOK, Held, Sound, InHand

(* A step that sends nothing and leaves the rows in other hands alone. *)
LEMMA SendFrame ==
  ASSUME BaseInv, SendInv, UNCHANGED sent, NEW p \in Pollers, Charged(p)',
         \A q \in Pollers \ {p} : poller'[q] = poller[q],
         \A q \in Pollers \ {p} : \A v \in InHand(q) : outbox'[v] = outbox[v],
         \A v \in Views : outbox'[v].status = "pending"
           => Paid(v)' \/ (outbox[v].status = "pending" /\ outbox'[v] = outbox[v]),
         UNCHANGED created
  PROVE  SendInv'
<1>1. ASSUME NEW q \in Pollers \ {p} PROVE Charged(q)'
  <2>1. \A v \in poller[q].batch : outbox'[v] = outbox[v]
    BY HandViews DEF BaseInv
  <2>2. poller[q].step \in {"dispatch", "retry"} => outbox'[poller[q].view] = outbox[poller[q].view]
    BY DispatchView DEF BaseInv
  <2> QED
    BY <2>1, <2>2 DEF SendInv, Charged, Paid
<1>2. SendsBounded' /\ \A v \in Views : outbox'[v].status = "pending" => Paid(v)'
  BY DEF SendInv, SendsBounded, Paid
<1> QED
  BY <1>1, <1>2 DEF SendInv

LEMMA SendStep == BaseInv /\ EffectsOK /\ SendInv /\ [Next]_vars => SendInv'
<1> SUFFICES ASSUME BaseInv, PollersOK, RowsOK, HandInv, EffectsOK, SendInv, [Next]_vars
             PROVE  SendInv'
  BY DEF BaseInv
<1>1. CASE UNCHANGED <<rows, poller, sent>>
  BY <1>1 DEF SendInv, SendsBounded, Charged, Paid, rows
<1>2. CASE UNCHANGED vars
  BY <1>1, <1>2 DEF vars, effects
<1>3. CASE Outside
  BY <1>1, <1>3 DEF Outside, SeekerLeaves, KeyExpires, effects
<1>4. ASSUME NEW v \in Views, RecordView(v) \/ Cleanup(v) PROVE SendInv'
  <2>1. /\ \A u \in Views \ {v} : outbox'[u] = outbox[u]
        /\ UNCHANGED <<poller, sent>>
        /\ \A u \in Views : created'[u] = 0 => created[u] = 0
    BY <1>4 DEF RecordView, Cleanup, RowsOK, effects
  <2>2. \A q \in Pollers : v \notin InHand(q)
    BY <1>4 DEF RecordView, Cleanup, HandInv
  <2>3. outbox'[v].status = "pending" => Paid(v)'
    <3>1. CASE RecordView(v)
      <4>1. outbox'[v].retry = 0 /\ \A c \in Senders : sent'[v][c] = 0
        BY <3>1 DEF RecordView, RowsOK, SendInv, effects
      <4> QED
        BY <4>1 DEF Paid
    <3>2. CASE Cleanup(v)
      BY <3>2 DEF Cleanup, RowsOK
    <3> QED
      BY <1>4, <3>1, <3>2
  <2>4. ASSUME NEW q \in Pollers PROVE Charged(q)'
    <3>1. \A u \in poller[q].batch : outbox'[u] = outbox[u]
      BY <2>1, <2>2, HandViews
    <3>2. poller[q].step \in {"dispatch", "retry"}
            => outbox'[poller[q].view] = outbox[poller[q].view]
      BY <2>1, <2>2, DispatchView
    <3> QED
      BY <2>1, <3>1, <3>2 DEF SendInv, Charged, Paid
  <2>5. \A u \in Views : outbox'[u].status = "pending" => Paid(u)'
    BY <2>1, <2>3 DEF SendInv, Paid
  <2> QED
    BY <2>1, <2>4, <2>5 DEF SendInv, SendsBounded
<1>5. ASSUME NEW p \in Pollers, Claim(p) PROVE SendInv'
  <2>1. PICK batch \in SUBSET Views :
          /\ batch \subseteq Pending
          /\ poller' = [poller EXCEPT ![p] = [Resting EXCEPT !.step = "next", !.batch = batch]]
          /\ outbox' = [v \in Views |->
               IF v \in batch THEN [outbox[v] EXCEPT !.status = "processing"] ELSE outbox[v]]
    BY <1>5 DEF Claim, Pending
  <2>2. /\ poller'[p].step = "next" /\ poller'[p].batch = batch
        /\ \A q \in Pollers \ {p} : poller'[q] = poller[q]
    BY <2>1, ClaimHeld
  <2>3. \A v \in Views : /\ outbox'[v].retry = outbox[v].retry
                         /\ v \in batch => outbox'[v].status = "processing"
                         /\ v \notin batch => outbox'[v] = outbox[v]
    BY <2>1 DEF RowsOK
  <2>4. UNCHANGED <<sent, created>>
    BY <1>5 DEF Claim, effects
  <2>5. Charged(p)'
    BY <2>1, <2>2, <2>3, <2>4 DEF Charged, Paid, SendInv, Pending
  <2>6. \A q \in Pollers \ {p} : \A v \in InHand(q) : v \in Views /\ v \notin batch
    BY <2>1 DEF HandInv, Pending, PollersOK, Held, InHand
  <2> QED
    BY <2>2, <2>3, <2>4, <2>5, <2>6, SendFrame
<1>6. ASSUME NEW p \in Pollers, Crash(p) PROVE SendInv'
  <2>1. /\ poller'[p].step = "idle" /\ poller'[p].batch = {}
        /\ \A q \in Pollers \ {p} : poller'[q] = poller[q]
    BY <1>6, RestingType, WriteHeld DEF Crash
  <2> QED
    BY <1>6, <2>1, SendFrame DEF Crash, Charged, rows, effects
<1>7. ASSUME NEW p \in Pollers, NEW v \in Views, Take(p, v) PROVE SendInv'
  <2>1. PICK open \in SUBSET (Senders \cup {"insert", "publish"}) : TakeUp(p, v, open)
    BY <1>7 DEF Take, Consume, Dispatch
  <2>2. v \in poller[p].batch /\ UNCHANGED <<rows, effects>>
    BY <1>7 DEF Take, Consume, Dispatch
  <2>3. /\ poller'[p].view = v /\ poller'[p].batch = poller[p].batch \ {v}
        /\ \A q \in Pollers \ {p} : poller'[q] = poller[q]
    BY <2>1, TakeUpHeld
  <2>4. Paid(v) /\ outbox[v].retry \in Nat /\ \A c \in Senders : sent[v][c] \in Nat
    BY <2>2 DEF SendInv, Charged, RowsOK, EffectsOK
  <2>5. \A c \in Senders : sent[v][c] <= outbox[v].retry + (IF c \in poller'[p].open THEN 0 ELSE 1)
    BY <2>4 DEF Paid
  <2>6. Charged(p)'
    BY <2>2, <2>3, <2>5 DEF Charged, Paid, SendInv, rows, effects
  <2> QED
    BY <2>2, <2>3, <2>6, SendFrame DEF rows, effects
<1>8. ASSUME NEW p \in Pollers, poller[p].step \in {"dispatch", "retry"}
      PROVE  /\ \A q \in Pollers \ {p} : poller[p].view \notin InHand(q)
             /\ \A q \in Pollers : InHand(q) \subseteq Views
             /\ outbox[poller[p].view].retry \in Nat
             /\ outbox[poller[p].view].retry < MaxRetries
             /\ \A c \in Senders : /\ sent[poller[p].view][c] \in Nat
                                   /\ sent[poller[p].view][c] <= outbox[poller[p].view].retry + 1
  <2>1. poller[p].view \in InHand(p) /\ poller[p].view \in Views
    BY <1>8, DispatchView
  <2>2. /\ outbox[poller[p].view].retry \in Nat
        /\ \A c \in Senders : /\ sent[poller[p].view][c] \in Nat
                              /\ sent[poller[p].view][c] <= outbox[poller[p].view].retry + 1
    <3>1. outbox[poller[p].view].retry \in Nat /\ \A c \in Senders : sent[poller[p].view][c] \in Nat
      BY <2>1 DEF RowsOK, EffectsOK
    <3> QED
      BY <1>8, <3>1 DEF SendInv, Charged
  <2> QED
    BY <2>1, <2>2 DEF HandInv, ClaimExclusive, PollersOK, Held, InHand
<1>9. ASSUME NEW p \in Pollers, Mark(p) \/ Retry(p) \/ RetryFails(p) PROVE SendInv'
  <2>1. /\ NextRow(p) /\ UNCHANGED <<created, sent>> /\ poller[p].step \in {"dispatch", "retry"}
        /\ \A v \in Views : v # poller[p].view => outbox'[v] = outbox[v]
    BY <1>9 DEF Mark, Retry, RetryFails, Settled, Processed, RowsOK, rows, effects
  <2>2. /\ poller'[p].step \in {"idle", "next"} /\ poller'[p].batch = poller[p].batch
        /\ \A q \in Pollers \ {p} : poller'[q] = poller[q]
    BY <2>1, NextRowHeld
  <2>3. \A v \in poller[p].batch : outbox'[v] = outbox[v]
    BY <2>1, HandViews
  <2>4. Charged(p)'
    BY <2>1, <2>2, <2>3 DEF SendInv, Charged, Paid
  <2>5. outbox'[poller[p].view].status = "pending"
          => \A c \in Senders : sent'[poller[p].view][c] <= outbox'[poller[p].view].retry
    <3> DEFINE v == poller[p].view
    <3>1. v \in Views
      BY <2>1, DispatchView
    <3>2. CASE Mark(p)
      BY <3>1, <3>2 DEF Mark, Processed, RowsOK
    <3>3. CASE RetryFails(p)
      BY <2>1, <3>1, <3>3, DispatchView DEF RetryFails, HandInv, rows
    <3>4. CASE Retry(p)
      <4>1. outbox'[v].retry = outbox[v].retry + 1
        BY <3>1, <3>4 DEF Retry, Retried, RowsOK
      <4>2. \A c \in Senders : sent'[v][c] <= outbox[v].retry + 1
        BY <1>8, <2>1
      <4> QED
        BY <4>1, <4>2
    <3> QED
      BY <1>9, <3>2, <3>3, <3>4
  <2>6. ASSUME NEW v \in Views, outbox'[v].status = "pending"
        PROVE  Paid(v)' \/ (outbox[v].status = "pending" /\ outbox'[v] = outbox[v])
    BY <2>1, <2>5, <2>6 DEF Paid
  <2>7. \A q \in Pollers \ {p} : \A v \in InHand(q) : outbox'[v] = outbox[v]
    BY <1>8, <2>1
  <2> QED
    BY <2>1, <2>2, <2>4, <2>6, <2>7, SendFrame
<1>10. ASSUME NEW p \in Pollers, MarkFails(p) PROVE SendInv'
  <2>1. /\ poller[p].step = "dispatch" /\ poller[p].view \in Views
        /\ poller'[p].batch = poller[p].batch /\ poller'[p].view = poller[p].view
        /\ poller'[p].open = poller[p].open
        /\ \A q \in Pollers \ {p} : poller'[q] = poller[q]
    BY <1>10, StepHeld, DispatchView DEF MarkFails, Settled
  <2>2. /\ \A v \in Views : v # poller[p].view => outbox'[v] = outbox[v]
        /\ outbox'[poller[p].view].retry = outbox[poller[p].view].retry
        /\ outbox'[poller[p].view].status \in {outbox[poller[p].view].status, "processed"}
        /\ UNCHANGED <<created, sent>>
    BY <1>10, <2>1 DEF MarkFails, Processed, RowsOK, effects
  <2>3. \A v \in poller[p].batch : outbox'[v] = outbox[v]
    BY <2>2, HandViews
  <2>4. Charged(p)'
    BY <2>1, <2>2, <2>3 DEF SendInv, Charged, Paid
  <2>5. ASSUME NEW v \in Views, outbox'[v].status = "pending"
        PROVE  Paid(v)'
    <3>1. outbox[v].status = "pending" /\ outbox'[v].retry = outbox[v].retry
      BY <2>2, <2>5
    <3> QED
      BY <2>2, <3>1 DEF SendInv, Paid
  <2>6. \A q \in Pollers \ {p} : \A v \in InHand(q) : outbox'[v] = outbox[v]
    BY <1>8, <2>1, <2>2
  <2> QED
    BY <2>1, <2>2, <2>4, <2>5, <2>6, SendFrame
<1>11. ASSUME NEW p \in Pollers, Deliver(p) PROVE SendInv'
  <2> DEFINE v == poller[p].view
  <2>1. /\ poller[p].step = "dispatch" /\ poller'[p].view = v /\ v \in Views /\ v # NoView
        /\ poller'[p].batch = poller[p].batch /\ UNCHANGED rows
        /\ \A q \in Pollers \ {p} : poller'[q] = poller[q]
    BY <1>11, DeliverEffect, DispatchView
  <2>2. CASE \E c \in Senders : Send(p, c) \/ SendUnchecked(p, c)
    <3> PICK c \in Senders : Send(p, c) \/ SendUnchecked(p, c)
      BY <2>2
    <3>1. /\ c \in poller[p].open /\ poller'[p].open = poller[p].open \ {c}
      <4>1. Open(p, c) /\ Close(p, c, {})
        BY DEF Send, SendUnchecked
      <4> QED
        BY <4>1, CloseHeld DEF Open
    <3>2. /\ sent'[v][c] \in {sent[v][c], sent[v][c] + 1}
          /\ \A u \in Views, d \in Senders : u # v \/ d # c => sent'[u][d] = sent[u][d]
      BY <2>1 DEF Send, SendUnchecked, EffectsOK
    <3>3. /\ sent[v][c] \in Nat /\ outbox[v].retry \in Nat /\ outbox[v].retry < MaxRetries
          /\ sent[v][c] <= outbox[v].retry
      BY <1>8, <2>1, <3>1 DEF SendInv, Charged
    <3> HIDE DEF v
    <3>4. SendsBounded'
      <4> SUFFICES ASSUME NEW u \in Views, NEW d \in Senders
                   PROVE  sent'[u][d] <= MaxRetries
        BY DEF SendsBounded
      <4>1. CASE u = v /\ d = c
        BY <3>2, <3>3, <4>1, OutboxConstants
      <4>2. CASE ~(u = v /\ d = c)
        BY <3>2, <4>2 DEF SendInv, SendsBounded
      <4> QED
        BY <4>1, <4>2
    <3>5. Charged(p)'
      <4>1. ASSUME NEW u \in poller[p].batch PROVE Paid(u)'
        <5>1. u \in Views /\ u # v
          BY <4>1, HandViews DEF v
        <5>2. Paid(u)
          BY <4>1 DEF SendInv, Charged
        <5> QED
          BY <2>1, <3>2, <5>1, <5>2 DEF Paid, rows
      <4>2. ASSUME NEW d \in Senders
            PROVE  sent'[v][d] <= outbox[v].retry + (IF d \in poller'[p].open THEN 0 ELSE 1)
        <5>1. sent[v][d] <= outbox[v].retry + (IF d \in poller[p].open THEN 0 ELSE 1)
          BY <2>1 DEF SendInv, Charged, v
        <5>2. CASE d = c
          BY <3>1, <3>2, <3>3, <5>2
        <5>3. CASE d # c
          <6>1. sent'[v][d] = sent[v][d] /\ ((d \in poller'[p].open) <=> (d \in poller[p].open))
            BY <2>1, <3>1, <3>2, <5>3
          <6> QED
            BY <5>1, <6>1
        <5> QED
          BY <5>2, <5>3
      <4> QED
        BY <2>1, <4>1, <4>2 DEF Charged, rows
    <3>6. ASSUME NEW q \in Pollers \ {p} PROVE Charged(q)'
      <4>1. \A u \in poller[q].batch : u \in Views /\ u # v
        BY <1>8, <2>1, HandViews DEF v
      <4>2. poller[q].step \in {"dispatch", "retry"} => poller[q].view \in Views /\ poller[q].view # v
        BY <1>8, <2>1, DispatchView DEF v
      <4> QED
        BY <2>1, <3>2, <4>1, <4>2 DEF SendInv, Charged, Paid, rows
    <3>7. ASSUME NEW u \in Views PROVE /\ outbox'[u].status = "pending" => Paid(u)'
                                       /\ created'[u] = 0 => \A d \in Senders : sent'[u][d] = 0
      <4>1. outbox[v].status \notin {"pending", "absent"}
        BY <2>1, DispatchView DEF HandInv, v
      <4>2. created[v] # 0
        BY <2>1, <4>1 DEF HandInv
      <4> QED
        BY <2>1, <3>2, <4>1, <4>2 DEF SendInv, Paid, rows
    <3> QED
      BY <3>4, <3>5, <3>6, <3>7 DEF SendInv
  <2>3. CASE InsertNotification(p) \/ InsertFails(p) \/ Publish(p) \/ PublishFails(p)
    <3>1. UNCHANGED sent /\ \E work \in {"insert", "publish"}, more \in SUBSET {"publish"} :
                              Close(p, work, more)
      <4>1. CASE InsertNotification(p)
        <5>1. UNCHANGED sent /\ (Close(p, "insert", {}) \/ Close(p, "insert", {"publish"}))
          BY <4>1 DEF InsertNotification
        <5> QED
          BY <5>1
      <4>2. CASE InsertFails(p)
        BY <4>2 DEF InsertFails
      <4>3. CASE Publish(p) \/ PublishFails(p)
        BY <4>3 DEF Publish, PublishFails, effects
      <4> QED
        BY <2>3, <4>1, <4>2, <4>3
    <3>2. \A c \in Senders : (c \in poller'[p].open) <=> (c \in poller[p].open)
      <4>1. PICK work \in {"insert", "publish"}, more \in SUBSET {"publish"} : Close(p, work, more)
        BY <3>1
      <4>2. poller'[p].open = (poller[p].open \ {work}) \cup more
        BY <4>1, CloseHeld
      <4> QED
        BY <4>2, OutboxConstants
    <3>3. Charged(p)'
      BY <2>1, <3>1, <3>2 DEF SendInv, Charged, Paid, rows
    <3> QED
      BY <2>1, <3>1, <3>3, SendFrame DEF rows
  <2> QED
    BY <1>11, <2>2, <2>3 DEF Deliver
<1> QED
  BY <1>2, <1>3, <1>4, <1>5, <1>6, <1>7, <1>9, <1>10, <1>11, NextCases

(* One view sends at most MAX_RETRIES e-mails and pushes, whatever is lost: *)
(* each dispatch after the first is one that retry_count has counted.       *)
THEOREM SendsPaid == Spec => []SendsBounded
<1>1. SendInv => SendsBounded
  BY DEF SendInv
<1> QED
  BY <1>1, BaseInit, BaseStep, EffectsInit, EffectsStep, SendInit, SendStep, PTL DEF Spec

-------------------------------------------------------------------------------
(* Only the poller whose INSERT made the notification announces it, and it *)
(* still has to.                                                           *)
SignalInv ==
  /\ \A v \in Views : announced[v] \in {0, 1} /\ (v \notin notified => announced[v] = 0)
  /\ \A p \in Pollers : Open(p, "publish") => /\ announced[poller[p].view] = 0
                                              /\ poller[p].view \in notified

LEMMA SignalInit == Init => SignalInv
  BY RestingType DEF Init, SignalInv, Open

(* A step that announces nothing and opens no announcement. *)
LEMMA SignalFrame ==
  ASSUME SignalInv, PollersOK, UNCHANGED announced, notified \subseteq notified',
         \A p \in Pollers : Open(p, "publish")'
           => \/ Open(p, "publish") /\ poller'[p].view = poller[p].view
              \/ announced[poller'[p].view] = 0 /\ poller'[p].view \in notified'
  PROVE  SignalInv'
  BY DEF SignalInv

(* An INSERT that finds the row there leaves the announcement to whom wrote it. *)
LEMMA SignalStep == BaseInv /\ EffectsOK /\ SignalInv /\ [Next]_vars => SignalInv'
<1> SUFFICES ASSUME BaseInv, PollersOK, HandInv, EffectsOK, SignalInv, [Next]_vars
             PROVE  SignalInv'
  BY DEF BaseInv
<1>1. CASE UNCHANGED vars \/ Outside \/ \E v \in Views : RecordView(v) \/ Cleanup(v)
  <2>1. UNCHANGED <<poller, announced, notified>>
    BY <1>1 DEF vars, Outside, SeekerLeaves, KeyExpires, RecordView, Cleanup, effects
  <2> QED
    BY <2>1, SignalFrame DEF Open
<1>2. ASSUME NEW p \in Pollers,
             \/ Claim(p) \/ Mark(p) \/ MarkFails(p) \/ Retry(p) \/ RetryFails(p) \/ Crash(p)
             \/ \E v \in Views : Take(p, v)
      PROVE  SignalInv'
  <2>1. UNCHANGED <<announced, notified>>
    BY <1>2 DEF Claim, Mark, MarkFails, Retry, RetryFails, Crash, Take, Consume, Dispatch, effects
  <2>2. ~Open(p, "publish")' /\ \A q \in Pollers \ {p} : poller'[q] = poller[q]
    <3>1. CASE Claim(p)
      <4>1. PICK batch \in SUBSET Views :
              poller' = [poller EXCEPT ![p] = [Resting EXCEPT !.step = "next", !.batch = batch]]
        BY <3>1 DEF Claim, Pending
      <4> QED
        BY <4>1, ClaimHeld DEF Open
    <3>2. CASE Mark(p) \/ Retry(p) \/ RetryFails(p)
      BY <3>2, NextRowHeld DEF Mark, Retry, RetryFails, Open
    <3>3. CASE MarkFails(p)
      BY <3>3, StepHeld DEF MarkFails, Settled, Open
    <3>4. CASE Crash(p)
      BY <3>4, RestingType, WriteHeld DEF Crash, Open
    <3>5. ASSUME NEW v \in Views, Take(p, v)
          PROVE  ~Open(p, "publish")' /\ \A q \in Pollers \ {p} : poller'[q] = poller[q]
      <4>1. PICK open \in SUBSET (Senders \cup {"insert"}) : TakeUp(p, v, open)
        BY <3>5 DEF Take, Consume, Dispatch
      <4>2. "publish" \notin open
        BY OutboxConstants
      <4> QED
        BY <4>1, <4>2, TakeUpHeld DEF Open
    <3> QED
      BY <1>2, <3>1, <3>2, <3>3, <3>4, <3>5
  <2> QED
    BY <2>1, <2>2, SignalFrame DEF Open
<1>3. ASSUME NEW p \in Pollers, Deliver(p) PROVE SignalInv'
  <2>1. /\ poller[p].step = "dispatch" /\ poller[p].view \in Views /\ poller[p].view \in InHand(p)
        /\ poller'[p].view = poller[p].view
        /\ \A q \in Pollers \ {p} : poller'[q] = poller[q]
    BY <1>3, DeliverEffect, DispatchView
  <2>2. ASSUME NEW work, Close(p, work, {}), UNCHANGED announced, notified \subseteq notified'
        PROVE  SignalInv'
    <3>1. Open(p, "publish")' => Open(p, "publish")
      BY <2>1, <2>2, CloseHeld DEF Open
    <3> QED
      BY <2>1, <2>2, <3>1, SignalFrame DEF Open
  <2>3. CASE InsertNotification(p)
    <3>1. CASE poller[p].view \in notified
      BY <2>2, <2>3, <3>1 DEF InsertNotification
    <3>2. CASE poller[p].view \notin notified
      <4>1. announced[poller[p].view] = 0
        BY <2>1, <3>2 DEF SignalInv
      <4>2. /\ UNCHANGED announced /\ notified \subseteq notified'
            /\ poller[p].view \in notified'
        BY <2>3 DEF InsertNotification
      <4> QED
        BY <2>1, <4>1, <4>2, SignalFrame DEF Open
    <3> QED
      BY <3>1, <3>2
  <2>4. CASE InsertFails(p)
    BY <2>2, <2>4 DEF InsertFails
  <2>5. CASE PublishFails(p)
    BY <2>2, <2>5 DEF PublishFails, effects
  <2>6. ASSUME NEW c \in Senders, Send(p, c) \/ SendUnchecked(p, c) PROVE SignalInv'
    BY <2>2, <2>6 DEF Send, SendUnchecked
  <2>7. CASE Publish(p)
    <3>1. /\ announced[poller[p].view] = 0 /\ poller[p].view \in notified
          /\ announced' = [announced EXCEPT ![poller[p].view] = 1]
          /\ UNCHANGED notified
      <4>1. announced[poller[p].view] = 0 /\ poller[p].view \in notified
        BY <2>7 DEF Publish, SignalInv
      <4>2. /\ announced' = [announced EXCEPT ![poller[p].view] = announced[poller[p].view] + 1]
            /\ UNCHANGED notified
        BY <2>7 DEF Publish
      <4>3. announced[poller[p].view] + 1 = 1
        BY <4>1
      <4> QED
        BY <4>1, <4>2, <4>3
    <3>2. ~Open(p, "publish")'
      <4>1. Close(p, "publish", {})
        BY <2>7 DEF Publish
      <4> QED
        BY <4>1, CloseHeld DEF Open
    <3>3. ASSUME NEW q \in Pollers \ {p}, Open(q, "publish")'
          PROVE  announced'[poller'[q].view] = 0 /\ poller'[q].view \in notified'
      <4>1. Open(q, "publish") /\ poller'[q] = poller[q]
        BY <2>1, <3>3 DEF Open
      <4>2. poller[q].view \in InHand(q)
        BY <4>1, DispatchView DEF Open
      <4>3. poller[q].view # poller[p].view
        BY <2>1, <4>2 DEF HandInv, ClaimExclusive
      <4> QED
        BY <3>1, <4>1, <4>3 DEF SignalInv, EffectsOK
    <3>4. \A v \in Views : announced'[v] \in {0, 1} /\ (v \notin notified' => announced'[v] = 0)
      BY <3>1 DEF SignalInv, EffectsOK
    <3> QED
      BY <3>2, <3>3, <3>4 DEF SignalInv
  <2> QED
    BY <1>3, <2>3, <2>4, <2>5, <2>6, <2>7 DEF Deliver
<1> QED
  BY <1>1, <1>2, <1>3, NextCases

(* The outbox implements the signal: only a recorded view is announced, and  *)
(* at most once, although pollers overlap, crash and dispatch a row again.   *)
THEOREM Refinement == Spec => ImplementsViewSignal
<1>1. Init => Signal!Init
  BY DEF Init, Signal!Init
<1>2. ASSUME BaseInv, RowsOK, PollersOK, HandInv, EffectsOK, SignalInv, [Next]_vars
      PROVE  [Signal!Next]_(Signal!vars)
  <2>1. CASE \E v \in Views : RecordView(v)
    <3> PICK v \in Views : RecordView(v)
      BY <2>1
    <3>1. created[v] = 0 /\ UNCHANGED announced
      BY DEF RecordView, effects
    <3>2. created'[v] > 0 /\ \A u \in Views \ {v} : created'[u] = created[u]
      <4>1. IsFiniteSet({u \in Views : created[u] > 0})
        BY OutboxConstants, FS_Subset
      <4>2. Cardinality({u \in Views : created[u] > 0}) \in Nat
        BY <4>1, FS_CardinalityType
      <4> QED
        BY <1>2, <4>2 DEF RecordView, RowsOK
    <3>3. Signal!Record(v)
      BY <3>1, <3>2 DEF Signal!Record
    <3> QED
      BY <3>3 DEF Signal!Next
  <2>2. CASE \E p \in Pollers : Publish(p)
    <3> PICK p \in Pollers : Publish(p)
      BY <2>2
    <3> DEFINE v == poller[p].view
    <3>1. v \in Views /\ v \in InHand(p) /\ announced[v] = 0
      BY <1>2, DispatchView DEF Publish, Open, SignalInv
    <3>2. created[v] > 0
      <4>1. created[v] \in Nat /\ outbox[v].status # "absent"
        BY <1>2, <3>1 DEF HandInv, RowsOK
      <4>2. created[v] # 0
        BY <1>2, <3>1, <4>1 DEF HandInv
      <4> QED
        BY <4>1, <4>2
    <3>3. announced' = [announced EXCEPT ![v] = 1] /\ UNCHANGED created
      <4>1. announced' = [announced EXCEPT ![v] = announced[v] + 1] /\ UNCHANGED created
        BY DEF Publish, rows
      <4>2. announced[v] + 1 = 1
        BY <3>1
      <4> QED
        BY <4>1, <4>2
    <3> HIDE DEF v
    <3>4. Signal!Announce(v)
      BY <3>1, <3>2, <3>3 DEF Signal!Announce
    <3> QED
      BY <3>1, <3>4 DEF Signal!Next
  <2>3. ASSUME ~\E v \in Views : RecordView(v), ~\E p \in Pollers : Publish(p)
        PROVE  UNCHANGED <<created, announced>>
    <3>1. ASSUME NEW p \in Pollers, Deliver(p) PROVE UNCHANGED <<created, announced>>
      BY <2>3, <3>1 DEF Deliver, InsertNotification, InsertFails, PublishFails, Send,
                        SendUnchecked, rows, effects
    <3>2. ASSUME NEW p \in Pollers,
                 \/ Claim(p) \/ Mark(p) \/ MarkFails(p) \/ Retry(p) \/ RetryFails(p) \/ Crash(p)
                 \/ \E v \in Views : Take(p, v)
          PROVE  UNCHANGED <<created, announced>>
      BY <3>2 DEF Claim, Mark, MarkFails, Retry, RetryFails, Crash, Take, Consume, Dispatch,
                  rows, effects
    <3>3. CASE UNCHANGED vars \/ Outside \/ \E v \in Views : Cleanup(v)
      BY <3>3 DEF vars, Outside, SeekerLeaves, KeyExpires, Cleanup, rows, effects
    <3> QED
      BY <1>2, <2>3, <3>1, <3>2, <3>3, NextCases
  <2>4. UNCHANGED <<created, announced>> => UNCHANGED Signal!vars
    BY DEF Signal!vars
  <2> QED
    BY <2>1, <2>2, <2>3, <2>4
<1>3. BaseInv /\ EffectsOK /\ SignalInv /\ [Next]_vars => [Signal!Next]_(Signal!vars)
  BY <1>2 DEF BaseInv
<1> QED
  BY <1>1, <1>3, BaseInit, BaseStep, EffectsInit, EffectsStep, SignalInit, SignalStep, PTL
     DEF Spec, ImplementsViewSignal, Signal!Spec

-------------------------------------------------------------------------------
(* No poller has a row in hand that was left behind. *)
LEMMA NobodyHolds ==
  ASSUME HandInv, NEW v \in Views, LeftBehind(v)
  PROVE  \A p \in Pollers : v \notin InHand(p)
  BY DEF LeftBehind, Orphaned, HandInv

(* A poller comes to hold a row only by claiming it while it is pending. *)
LEMMA HandsGrow ==
  ASSUME PollersOK, [Next]_vars, NEW p \in Pollers, NEW v \in InHand(p)'
  PROVE  v \in InHand(p) \/ outbox[v].status = "pending"
<1>1. CASE UNCHANGED vars \/ Outside \/ \E u \in Views : RecordView(u) \/ Cleanup(u)
  BY <1>1 DEF vars, Outside, SeekerLeaves, KeyExpires, RecordView, Cleanup, InHand
<1>2. ASSUME NEW q \in Pollers,
             poller'[q].batch \subseteq poller[q].batch,
             poller'[q].view \in InHand(q) \cup {NoView},
             \A r \in Pollers \ {q} : poller'[r] = poller[r]
      PROVE  v \in InHand(p)
  BY <1>2 DEF InHand
<1>3. ASSUME NEW q \in Pollers, Claim(q) PROVE v \in InHand(p) \/ outbox[v].status = "pending"
  <2>1. PICK batch \in SUBSET Pending :
          poller' = [poller EXCEPT ![q] = [Resting EXCEPT !.step = "next", !.batch = batch]]
    BY <1>3 DEF Claim
  <2>2. batch \in SUBSET Views /\ \A u \in batch : outbox[u].status = "pending"
    BY DEF Pending
  <2>3. /\ poller'[q].batch = batch /\ poller'[q].view = NoView
        /\ \A r \in Pollers \ {q} : poller'[r] = poller[r]
    BY <2>1, <2>2, ClaimHeld
  <2> QED BY <2>2, <2>3 DEF InHand
<1>4. ASSUME NEW q \in Pollers, Deliver(q) PROVE v \in InHand(p)
  <2>1. /\ poller'[q].batch = poller[q].batch /\ poller'[q].view = poller[q].view
        /\ \A r \in Pollers \ {q} : poller'[r] = poller[r]
    BY <1>4, DeliverEffect
  <2> QED BY <1>2, <2>1 DEF InHand
<1>5. ASSUME NEW q \in Pollers, Mark(q) \/ Retry(q) \/ RetryFails(q) PROVE v \in InHand(p)
  <2>1. NextRow(q)
    BY <1>5 DEF Mark, Retry, RetryFails
  <2> QED BY <1>2, <2>1, NextRowHeld
<1>6. ASSUME NEW q \in Pollers, MarkFails(q) PROVE v \in InHand(p)
  <2>1. /\ poller'[q].batch = poller[q].batch /\ poller'[q].view = poller[q].view
        /\ \A r \in Pollers \ {q} : poller'[r] = poller[r]
    BY <1>6, StepHeld DEF MarkFails, Settled
  <2> QED BY <1>2, <2>1 DEF InHand
<1>7. ASSUME NEW q \in Pollers, Crash(q) PROVE v \in InHand(p)
  BY <1>2, <1>7, RestingType, WriteHeld DEF Crash
<1>8. ASSUME NEW q \in Pollers, NEW u \in Views, Take(q, u) PROVE v \in InHand(p)
  <2>1. PICK open \in SUBSET (Senders \cup {"insert"}) : TakeUp(q, u, open)
    BY <1>8 DEF Take, Consume, Dispatch
  <2>2. u \in InHand(q)
    BY <1>8 DEF Take, Consume, Dispatch, InHand
  <2>3. open \in SUBSET (Senders \cup {"insert", "publish"})
    OBVIOUS
  <2> QED BY <1>2, <2>1, <2>2, <2>3, TakeUpHeld
<1> QED BY <1>1, <1>3, <1>4, <1>5, <1>6, <1>7, <1>8, NextCases

(* What a step does to a row and to the deliveries for it, when nobody has *)
(* the row in hand and it is neither pending nor processed nor absent.     *)
LEMMA RowAlone ==
  ASSUME BaseInv, EffectsOK, [Next]_vars, NEW v \in Views,
         \A p \in Pollers : v \notin InHand(p),
         outbox[v].status \in {"failed", "processing"}
  PROVE  /\ outbox'[v] = outbox[v]
         /\ announced'[v] = announced[v] /\ sent'[v] = sent[v]
         /\ v \in notified' => v \in notified
<1>0. PollersOK /\ RowsOK /\ HandInv
  BY DEF BaseInv
<1> USE <1>0
<1>1. CASE UNCHANGED vars \/ Outside
  BY <1>1 DEF vars, Outside, SeekerLeaves, KeyExpires, rows, effects
<1>2. ASSUME NEW u \in Views, RecordView(u) \/ Cleanup(u)
      PROVE  outbox'[v] = outbox[v] /\ UNCHANGED effects
  <2>1. u # v
    BY <1>2 DEF RecordView, Cleanup, HandInv
  <2> QED BY <1>2, <2>1 DEF RecordView, Cleanup, RowsOK
<1>3. ASSUME NEW p \in Pollers, Claim(p) PROVE outbox'[v] = outbox[v] /\ UNCHANGED effects
  BY <1>3 DEF Claim, Pending
<1>4. ASSUME NEW p \in Pollers, Mark(p) \/ MarkFails(p) \/ Retry(p) \/ RetryFails(p)
      PROVE  outbox'[v] = outbox[v] /\ UNCHANGED effects
  <2>1. poller[p].view \in Views /\ poller[p].view # v
    BY <1>4, DispatchView DEF Mark, MarkFails, Settled, Retry, RetryFails
  <2> QED BY <1>4, <2>1 DEF Mark, MarkFails, Retry, RetryFails, Processed, RowsOK, rows
<1>5. ASSUME NEW p \in Pollers, Crash(p) \/ \E u \in Views : Take(p, u)
      PROVE  outbox'[v] = outbox[v] /\ UNCHANGED effects
  BY <1>5 DEF Crash, Take, Consume, Dispatch, rows
<1>6. ASSUME NEW p \in Pollers, Deliver(p)
      PROVE  /\ outbox'[v] = outbox[v]
             /\ announced'[v] = announced[v] /\ sent'[v] = sent[v]
             /\ v \in notified' => v \in notified
  <2>1. poller[p].view \in Views /\ poller[p].view # v /\ UNCHANGED rows
    BY <1>6, DeliverEffect, DispatchView
  <2>2. CASE InsertNotification(p) \/ InsertFails(p)
    BY <2>1, <2>2 DEF InsertNotification, InsertFails, rows
  <2>3. CASE Publish(p) \/ PublishFails(p)
    BY <2>1, <2>3 DEF Publish, PublishFails, EffectsOK, rows, effects
  <2>4. ASSUME NEW c \in Senders, Send(p, c) \/ SendUnchecked(p, c)
        PROVE  UNCHANGED <<announced, notified>> /\ sent'[v] = sent[v]
    BY <2>1, <2>4 DEF Send, SendUnchecked, EffectsOK
  <2> QED BY <1>6, <2>1, <2>2, <2>3, <2>4 DEF Deliver, rows
<1> QED BY <1>1, <1>2, <1>3, <1>4, <1>5, <1>6, NextCases DEF effects

(* A row given up or orphaned stays as it is, and its view is heard of no  *)
(* more: what a crash strands, nothing in the outbox recovers.             *)
THEOREM StrandedRows == Spec => LeftBehindForGood
<1>1. ASSUME BaseInv, EffectsOK, [Next]_vars, NEW v \in Views, LeftBehind(v)
      PROVE  /\ LeftBehind(v)'
             /\ outbox'[v] = outbox[v]
             /\ announced'[v] = announced[v] /\ sent'[v] = sent[v]
             /\ v \in notified' => v \in notified
  <2>1. \A p \in Pollers : v \notin InHand(p)
    BY <1>1, NobodyHolds DEF BaseInv
  <2>2. outbox[v].status \in {"failed", "processing"}
    BY <1>1 DEF LeftBehind, Orphaned
  <2>3. /\ outbox'[v] = outbox[v]
        /\ announced'[v] = announced[v] /\ sent'[v] = sent[v]
        /\ v \in notified' => v \in notified
    BY <1>1, <2>1, <2>2, RowAlone
  <2>4. \A p \in Pollers : v \notin InHand(p)'
    BY <1>1, <2>1, <2>2, HandsGrow DEF BaseInv
  <2> QED BY <2>2, <2>3, <2>4 DEF LeftBehind, Orphaned
<1>2. BaseInv /\ EffectsOK /\ [Next]_vars
        => [\A v \in Views : LeftBehind(v) =>
              /\ LeftBehind(v)'
              /\ outbox'[v] = outbox[v]
              /\ announced'[v] = announced[v] /\ sent'[v] = sent[v]
              /\ v \in notified' => v \in notified]_vars
  BY <1>1
<1> QED BY <1>2, BaseHeld, PTL DEF Spec, LeftBehindForGood
===============================================================================
