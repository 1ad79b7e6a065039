----------------------------- MODULE PortalOutbox -----------------------------
(***************************************************************************)
(* The transactional outbox behind "an employer viewed your application":  *)
(* recording a view, claiming outbox rows, dispatching one row to the      *)
(* notification channels, and the bookkeeping of retries.                  *)
(*                                                                         *)
(* A poller is one call of processOutboxBatch; several run at once when    *)
(* the scheduler's calls overlap.  A row is its view: the transaction that *)
(* records a first view inserts exactly one row.                           *)
(***************************************************************************)
EXTENDS Naturals, FiniteSets

CONSTANTS
  Views,       \* (application, employer) pairs
  Pollers,     \* overlapping calls of processOutboxBatch
  Senders,     \* the channels behind a Redis dedup key: push and email
  NoView,      \* a poller between two rows
  BatchSize,   \* LIMIT of a claim
  MaxRetries   \* MAX_RETRIES

ASSUME OutboxConstants ==
  /\ IsFiniteSet(Views)
  /\ NoView \notin Views
  /\ Senders \cap {"insert", "publish"} = {}
  /\ BatchSize \in Nat \ {0}
  /\ MaxRetries \in Nat \ {0}

VARIABLES
  created,     \* created_at of a view's row: its position, 0 before the view
  outbox,      \* the row's status and retry_count; "absent" when there is none
  poller,      \* each poller: its batch, the row in hand, its step, open work
  notified,    \* views with a row in portal_notifications
  announced,   \* times notification.created was published for a view
  keys,        \* senders whose dedup key is set in Redis, by view
  sent,        \* sends that got past the dedup check, by view
  lapses,      \* history: a view's dedup check failed, or its key expired
  gone,        \* views whose seeker was deleted or anonymised
  muted,       \* history: the last dispatch found the in-app channel off
  dropped      \* history: a lookup or an insert failed and was swallowed

rows == <<created, outbox>>
effects == <<notified, announced, keys, sent, lapses>>
history == <<gone, muted, dropped>>
vars == <<rows, poller, effects, history>>

Resting == [step |-> "idle", batch |-> {}, view |-> NoView, open |-> {}]
InHand(p) == poller[p].batch \cup ({poller[p].view} \ {NoView})
(* Operators named Buggy... are wrong variants of the definition they precede. *)
(* No action uses them: they show which mistakes the properties catch.         *)
BuggyPendingOrStale == {v \in Views : outbox[v].status \in {"pending", "processing"}}
Pending == {v \in Views : outbox[v].status = "pending"}

(* The row in hand is done with: on to the next one of the batch. *)
NextRow(p) ==
  poller' = [poller EXCEPT ![p] =
    IF poller[p].batch = {} THEN Resting
    ELSE [Resting EXCEPT !.step = "next", !.batch = poller[p].batch]]

-------------------------------------------------------------------------------
Init ==
  /\ created = [v \in Views |-> 0]
  /\ outbox = [v \in Views |-> [status |-> "absent", retry |-> 0]]
  /\ poller = [p \in Pollers |-> Resting]
  /\ notified = {}
  /\ announced = [v \in Views |-> 0]
  /\ keys = [v \in Views |-> {}]
  /\ sent = [v \in Views |-> [c \in Senders |-> 0]]
  /\ lapses = [v \in Views |-> [c \in Senders |-> 0]]
  /\ gone = {} /\ muted = {} /\ dropped = {}

(* recordApplicationView: the dedup row lets only the first view insert. *)
RecordView(v) ==
  /\ created[v] = 0
  /\ created' = [created EXCEPT ![v] = 1 + Cardinality({u \in Views : created[u] > 0})]
  /\ outbox' = [outbox EXCEPT ![v] = [status |-> "pending", retry |-> 0]]
  /\ UNCHANGED <<poller, effects, history>>

(* The oldest pending rows, no more than the LIMIT. *)
OldestPending(batch) ==
  /\ Cardinality(batch) <= BatchSize
  /\ Cardinality(batch) = BatchSize \/ batch = Pending
  /\ \A v \in batch, u \in Pending \ batch : created[v] < created[u]

(* claimPendingOutboxEvents: one UPDATE ... RETURNING with SKIP LOCKED. *)
Claim(p) ==
  /\ poller[p].step = "idle"
  /\ \E batch \in SUBSET Pending \ {{}} :
       /\ OldestPending(batch)
       /\ poller' = [poller EXCEPT ![p] = [Resting EXCEPT !.step = "next", !.batch = batch]]
       /\ outbox' = [v \in Views |->
            IF v \in batch THEN [outbox[v] EXCEPT !.status = "processing"] ELSE outbox[v]]
  /\ UNCHANGED <<created, effects, history>>

TakeUp(p, v, open) ==
  poller' = [poller EXCEPT ![p] = [step |-> "dispatch", view |-> v, open |-> open,
                                   batch |-> poller[p].batch \ {v}]]

(* The seeker is gone, or findUserById failed: consumed without a word. *)
Consume(p, v) ==
  /\ poller[p].step = "next" /\ v \in poller[p].batch
  /\ TakeUp(p, v, {})
  /\ dropped' = IF v \in gone THEN dropped ELSE dropped \cup {v}
  /\ UNCHANGED <<rows, effects, gone, muted>>

(* Preferences, their fallback to the defaults and quiet hours leave any *)
(* set of channels on; every channel then runs on its own.               *)
Dispatch(p, v, channels) ==
  /\ poller[p].step = "next" /\ v \in poller[p].batch
  /\ v \notin gone
  /\ TakeUp(p, v, channels)
  /\ muted' = IF "insert" \in channels THEN muted \ {v} ELSE muted \cup {v}
  /\ UNCHANGED <<rows, effects, gone, dropped>>

Open(p, work) == poller[p].step = "dispatch" /\ work \in poller[p].open
Close(p, work, more) ==
  poller' = [poller EXCEPT ![p].open = (@ \ {work}) \cup more]

BuggyInsertNoDedup(p) ==
  /\ Open(p, "insert")
  /\ Close(p, "insert", {"publish"})
  /\ notified' = notified \cup {poller[p].view}
  /\ UNCHANGED <<rows, announced, keys, sent, lapses, history>>

(* dispatchInApp: INSERT ... ON CONFLICT (idempotency_key) DO NOTHING. *)
InsertNotification(p) ==
  LET v == poller[p].view IN
  /\ Open(p, "insert")
  /\ Close(p, "insert", IF v \in notified THEN {} ELSE {"publish"})
  /\ notified' = notified \cup {v}
  /\ UNCHANGED <<rows, announced, keys, sent, lapses, history>>

(* Its error is logged and swallowed; it may hide an INSERT that took effect. *)
InsertFails(p) ==
  /\ Open(p, "insert")
  /\ Close(p, "insert", {})
  /\ notified' = notified \cup {poller[p].view} \/ UNCHANGED notified
  /\ dropped' = dropped \cup {poller[p].view}
  /\ UNCHANGED <<rows, announced, keys, sent, lapses, gone, muted>>

Publish(p) ==
  /\ Open(p, "publish")
  /\ Close(p, "publish", {})
  /\ announced' = [announced EXCEPT ![poller[p].view] = @ + 1]
  /\ UNCHANGED <<rows, notified, keys, sent, lapses, history>>

PublishFails(p) ==
  /\ Open(p, "publish")
  /\ Close(p, "publish", {})
  /\ UNCHANGED <<rows, effects, history>>

BuggySendIgnoresKey(p, c) ==
  /\ Open(p, c)
  /\ Close(p, c, {})
  /\ keys' = [keys EXCEPT ![poller[p].view] = @ \cup {c}]
  /\ sent' = [sent EXCEPT ![poller[p].view][c] = @ + 1]
  /\ UNCHANGED <<rows, notified, announced, lapses, history>>

(* enqueueEmailJob, sendPushNotification: SET NX, then a send whose outcome *)
(* nothing waits for or records.                                          *)
Send(p, c) ==
  LET v == poller[p].view IN
  /\ Open(p, c)
  /\ Close(p, c, {})
  /\ keys' = [keys EXCEPT ![v] = @ \cup {c}]
  /\ sent' = IF c \in keys[v] THEN sent ELSE [sent EXCEPT ![v][c] = @ + 1]
  /\ UNCHANGED <<rows, notified, announced, lapses, history>>

(* Redis is down: fail open, send without the key. *)
SendUnchecked(p, c) ==
  LET v == poller[p].view IN
  /\ Open(p, c)
  /\ Close(p, c, {})
  /\ sent' = [sent EXCEPT ![v][c] = @ + 1]
  /\ lapses' = [lapses EXCEPT ![v][c] = @ + 1]
  /\ UNCHANGED <<rows, notified, announced, keys, history>>

KeyExpires(v, c) ==
  /\ c \in keys[v]
  /\ keys' = [keys EXCEPT ![v] = @ \ {c}]
  /\ lapses' = [lapses EXCEPT ![v][c] = @ + 1]
  /\ UNCHANGED <<rows, poller, notified, announced, sent, history>>

BuggySettledUnawaited(p) == poller[p].step = "dispatch"

(* markOutboxEventProcessed, once every channel has settled.  Its error *)
(* may hide an UPDATE that did take effect.                             *)
Settled(p) == poller[p].step = "dispatch" /\ poller[p].open = {}
Processed(v) == outbox' = [outbox EXCEPT ![v].status = "processed"]

Mark(p) ==
  /\ Settled(p)
  /\ Processed(poller[p].view)
  /\ NextRow(p)
  /\ UNCHANGED <<created, effects, history>>

MarkFails(p) ==
  /\ Settled(p)
  /\ Processed(poller[p].view) \/ UNCHANGED outbox
  /\ poller' = [poller EXCEPT ![p].step = "retry"]
  /\ UNCHANGED <<created, effects, history>>

BuggyRetriedOnceMore(row) ==
  [status |-> IF row.retry >= MaxRetries THEN "failed" ELSE "pending", retry |-> row.retry + 1]
BuggyRetriedUncounted(row) == [row EXCEPT !.status = "pending"]

(* incrementOutboxRetryCount: retry_count + 1, and the status it calls for. *)
Retried(row) ==
  [status |-> IF row.retry + 1 >= MaxRetries THEN "failed" ELSE "pending",
   retry |-> row.retry + 1]

Retry(p) ==
  /\ poller[p].step = "retry"
  /\ outbox' = [outbox EXCEPT ![poller[p].view] = Retried(@)]
  /\ NextRow(p)
  /\ UNCHANGED <<created, effects, history>>

RetryFails(p) ==
  /\ poller[p].step = "retry"
  /\ NextRow(p)
  /\ UNCHANGED <<rows, effects, history>>

(* The process dies: claimed rows stay "processing", nothing resets them. *)
Crash(p) ==
  /\ poller[p].step # "idle"
  /\ poller' = [poller EXCEPT ![p] = Resting]
  /\ UNCHANGED <<rows, effects, history>>

(* cleanupProcessedOutboxEvents, days after any poller held the row. *)
Cleanup(v) ==
  /\ outbox[v].status = "processed"
  /\ \A p \in Pollers : v \notin InHand(p)
  /\ outbox' = [outbox EXCEPT ![v] = [status |-> "absent", retry |-> 0]]
  /\ UNCHANGED <<created, poller, effects, history>>

SeekerLeaves(v) ==
  /\ v \notin gone
  /\ gone' = gone \cup {v}
  /\ UNCHANGED <<rows, poller, effects, muted, dropped>>

PollerStep(p) ==
  \/ Claim(p)
  \/ \E v \in Views : Consume(p, v)
  \/ \E v \in Views, channels \in SUBSET (Senders \cup {"insert"}) : Dispatch(p, v, channels)
  \/ InsertNotification(p) \/ InsertFails(p) \/ Publish(p) \/ PublishFails(p)
  \/ \E c \in Senders : Send(p, c) \/ SendUnchecked(p, c)
  \/ Mark(p) \/ MarkFails(p) \/ Retry(p) \/ RetryFails(p)

Next ==
  \/ \E p \in Pollers : PollerStep(p) \/ Crash(p)
  \/ \E v \in Views : RecordView(v) \/ Cleanup(v) \/ SeekerLeaves(v)
  \/ \E v \in Views, c \in Senders : KeyExpires(v, c)

Spec == Init /\ [][Next]_vars

(* The scheduler keeps calling the route, and a call that runs goes on. *)
FairSpec == Spec /\ \A p \in Pollers : WF_vars(PollerStep(p))

-------------------------------------------------------------------------------
RowStatus == {"absent", "pending", "processing", "processed", "failed"}

(* Every variable keeps its shape, and only a poller that dispatches or *)
(* retries holds a row (processOutboxBatch).                            *)
TypeOK ==
  /\ created \in [Views -> Nat]
  /\ outbox \in [Views -> [status : RowStatus, retry : 0 .. MaxRetries]]
  /\ poller \in [Pollers -> [step : {"idle", "next", "dispatch", "retry"},
                             batch : SUBSET Views, view : Views \cup {NoView},
                             open : SUBSET (Senders \cup {"insert", "publish"})]]
  /\ notified \subseteq Views
  /\ announced \in [Views -> Nat]
  /\ keys \in [Views -> SUBSET Senders]
  /\ sent \in [Views -> [Senders -> Nat]]
  /\ lapses \in [Views -> [Senders -> Nat]]
  /\ gone \subseteq Views /\ muted \subseteq Views /\ dropped \subseteq Views
  /\ \A p \in Pollers : (poller[p].step \in {"dispatch", "retry"}) <=> (poller[p].view # NoView)

(* Overlapping pollers never hold the same row, whatever errors and retries *)
(* have done to its status ("safe to call multiple times concurrently").    *)
ClaimExclusive ==
  \A p, q \in Pollers : p # q => InHand(p) \cap InHand(q) = {}

(* One view sends at most MAX_RETRIES e-mails and pushes, even with Redis *)
(* down for good and every acknowledgement of the row's UPDATEs lost.     *)
SendsBounded == \A v \in Views, c \in Senders : sent[v][c] <= MaxRetries

(* The Redis key makes a replayed row send again only after the key expired *)
(* or a check failed open: each such lapse excuses one repeated message.    *)
RepeatsExcused == \A v \in Views, c \in Senders : sent[v][c] <= 1 + lapses[v][c]

(* A row is marked processed only after its in-app delivery: the seeker has *)
(* the notification, or is gone, or switched the channel off ...            *)
ProcessedMeansDelivered ==
  \A v \in Views : outbox[v].status = "processed" => v \in notified \cup gone \cup muted

(* ... or the router swallowed the failure that prevented it. *)
NothingElseLost ==
  \A v \in Views : outbox[v].status = "processed"
                     => v \in notified \cup gone \cup muted \cup dropped

(* A row left "processing" by a crash or by a lost retry: no code takes it up. *)
Orphaned(v) == outbox[v].status = "processing" /\ \A p \in Pollers : v \notin InHand(p)

(* A row that was given up, or that a crash or a lost retry has orphaned,  *)
(* is left behind for good: no later claim, retry or cleanup touches it,   *)
(* and nothing more is inserted, published or sent for its view, whatever  *)
(* the other pollers do.                                                   *)
LeftBehind(v) == outbox[v].status = "failed" \/ Orphaned(v)
LeftBehindForGood ==
  [][\A v \in Views : LeftBehind(v) =>
       /\ LeftBehind(v)'
       /\ outbox'[v] = outbox[v]
       /\ announced'[v] = announced[v] /\ sent'[v] = sent[v]
       /\ v \in notified' => v \in notified]_vars

(* Every pending row is eventually processed or given up as failed, unless *)
(* it is orphaned: errors alone cannot keep it cycling.                    *)
PendingRowsSettle ==
  \A v \in Views : outbox[v].status = "pending"
                     ~> (outbox[v].status \in {"processed", "failed", "absent"} \/ Orphaned(v))

(* The outbox announces only recorded views, each at most once. *)
Signal == INSTANCE ViewSignal WITH recorded <- {v \in Views : created[v] > 0}
ImplementsViewSignal == Signal!Spec
===============================================================================
