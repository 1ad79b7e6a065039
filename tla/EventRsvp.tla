------------------------------- MODULE EventRsvp -------------------------------
(***************************************************************************)
(* RSVPs, the waitlist and attendance of one community event, over the     *)
(* two Postgres tables community_events and community_event_attendees.     *)
(*                                                                         *)
(* Every request runs in a worker.  A transaction is cut into steps at the *)
(* statements where it reads committed data or may wait for a row lock;    *)
(* its writes become visible in its last step, as READ COMMITTED has it.   *)
(* Who holds a row lock follows from the workers' program counters, so a   *)
(* rollback is just a return to "idle".                                    *)
(*                                                                         *)
(* A handler's eventBus.emit after the commit touches neither table and is *)
(* not part of this module.                                                *)
(***************************************************************************)
EXTENDS Naturals, FiniteSets

CONSTANTS
  Users,      \* members who may attend
  Workers,    \* requests in progress at one time
  Limits,     \* registration limits the creator may set
  NoLimit,    \* registration_limit IS NULL
  Nobody,     \* the waitlist is empty
  MaxTime     \* bound on the number of RSVP requests

ASSUME RsvpConstants ==
  /\ IsFiniteSet(Users)
  /\ Limits \subseteq Nat \ {0}
  /\ NoLimit \notin Nat
  /\ Nobody \notin Users
  /\ MaxTime \in Nat

VARIABLES
  event,      \* the row of community_events, with startTime <= now as "started"
  att,        \* the rows of community_event_attendees, by user
  pc,         \* where each worker's request stands
  req,        \* what each worker's request has read
  clock,      \* source of registered_at
  doubled     \* history: two cancellations of one user's RSVP overlapped

vars == <<event, att, pc, req, clock, doubled>>

Live == {"registered", "waitlisted"}
AttendeeStatus == Live \cup {"none", "attended", "cancelled"}

NoRequest == [user |-> Nobody, pick |-> Nobody, seat |-> "none", ts |-> 0, targets |-> {}]
Idle(w) == pc[w] = "idle" /\ req[w] = NoRequest
Finish(w) == pc' = [pc EXCEPT ![w] = "idle"] /\ req' = [req EXCEPT ![w] = NoRequest]
Goto(w, label) == pc' = [pc EXCEPT ![w] = label]

(* Operators named Buggy... are wrong variants of the definition they precede. *)
(* No action uses them: they show which mistakes the properties catch.         *)
BuggyHoldsEventNoForUpdate(w) == pc[w] = "cancel_settle"
BuggyHoldsEventLateDecrement(w) == pc[w] = "rsvp_settle"

(* Row locks: FOR UPDATE or an UPDATE takes one, the commit drops it.  *)
HoldsEvent(w) == pc[w] \in {"rsvp_settle", "cancel_settle"}
HoldsAttendee(w, u) == req[w].user = u /\ pc[w] \in {"cancel_pick", "cancel_settle"}
EventFree == \A w \in Workers : ~HoldsEvent(w)
AttendeeFree(w, u) == \A v \in Workers \ {w} : ~HoldsAttendee(v, u)

HasRoom == event.limit = NoLimit \/ event.count < event.limit
Registered == {u \in Users : att[u].status = "registered"}
Cancelling(w) == pc[w] \in {"cancel_write", "cancel_pick", "cancel_settle", "leave_waitlist"}

-------------------------------------------------------------------------------
Init ==
  /\ \E limit \in Limits \cup {NoLimit} :
       event = [status |-> "upcoming", limit |-> limit, count |-> 0, started |-> FALSE]
  /\ att = [u \in Users |-> [status |-> "none", at |-> 0]]
  /\ pc = [w \in Workers |-> "idle"]
  /\ req = [w \in Workers |-> NoRequest]
  /\ clock = 1
  /\ doubled = FALSE

(* rsvpToEvent: BEGIN fixes now(), the registered_at of an inserted row, *)
(* before the transaction waits for the event row.                       *)
RsvpBegin(w, u) ==
  /\ Idle(w)
  /\ clock <= MaxTime
  /\ Goto(w, "rsvp_lock")
  /\ req' = [req EXCEPT ![w] = [NoRequest EXCEPT !.user = u, !.ts = clock]]
  /\ clock' = clock + 1
  /\ UNCHANGED <<event, att, doubled>>

(* SELECT ... FOR UPDATE on the event, its checks, the attendee read: what *)
(* the request writes is decided from the rows as they are now.            *)
MayRsvp(u) ==
  /\ event.status = "upcoming"
  /\ ~event.started
  /\ att[u].status \in {"none", "cancelled"}

RsvpLock(w) ==
  /\ pc[w] = "rsvp_lock"
  /\ EventFree
  /\ MayRsvp(req[w].user)
  /\ Goto(w, "rsvp_settle")
  /\ req' = [req EXCEPT ![w].seat = IF HasRoom THEN "registered" ELSE "waitlisted"]
  /\ UNCHANGED <<event, att, clock, doubled>>

RsvpRefuse(w) ==
  /\ pc[w] = "rsvp_lock"
  /\ EventFree
  /\ ~MayRsvp(req[w].user)
  /\ Finish(w)
  /\ UNCHANGED <<event, att, clock, doubled>>

(* The attendee write, the counter and COMMIT.  An UPDATE stamps the row *)
(* with the application's clock, an INSERT keeps the column's default.   *)
RsvpSettle(w) ==
  LET u == req[w].user
      seat == req[w].seat
      at == IF att[u].status = "none" THEN req[w].ts ELSE clock
  IN
  /\ pc[w] = "rsvp_settle"
  /\ AttendeeFree(w, u)
  /\ att' = [att EXCEPT ![u] = [status |-> seat, at |-> at]]
  /\ event' = [event EXCEPT !.count = IF seat = "registered" THEN @ + 1 ELSE @]
  /\ clock' = IF at = clock THEN clock + 1 ELSE clock
  /\ Finish(w)
  /\ UNCHANGED doubled

(* cancelRsvp: the attendee row is read without a lock. *)
CancelRead(w, u) ==
  /\ Idle(w)
  /\ att[u].status \in Live
  /\ Goto(w, IF att[u].status = "registered" THEN "cancel_write" ELSE "leave_waitlist")
  /\ req' = [req EXCEPT ![w].user = u]
  /\ doubled' = (doubled \/ \E v \in Workers : Cancelling(v) /\ req[v].user = u)
  /\ UNCHANGED <<event, att, clock>>

(* The UPDATE of a user read as waitlisted, whatever the row says now. *)
LeaveWaitlist(w) ==
  /\ pc[w] = "leave_waitlist"
  /\ AttendeeFree(w, req[w].user)
  /\ att' = [att EXCEPT ![req[w].user].status = "cancelled"]
  /\ Finish(w)
  /\ UNCHANGED <<event, clock, doubled>>

(* The UPDATE of a user read as registered: it takes the row's lock. *)
CancelWrite(w) ==
  /\ pc[w] = "cancel_write"
  /\ AttendeeFree(w, req[w].user)
  /\ Goto(w, "cancel_pick")
  /\ UNCHANGED <<event, att, req, clock, doubled>>

(* The waitlist as w's transaction sees it: its own cancellation is in. *)
WaitlistFor(w) == {u \in Users \ {req[w].user} : att[u].status = "waitlisted"}
BuggyFirstWaitlistedAnyone(w) ==
  IF WaitlistFor(w) = {} THEN {Nobody} ELSE WaitlistFor(w)

FirstWaitlisted(w) ==
  IF WaitlistFor(w) = {} THEN {Nobody}
  ELSE {u \in WaitlistFor(w) : \A v \in WaitlistFor(w) : att[u].at <= att[v].at}

(* The decrement takes the event row; then the first waitlisted is read. *)
CancelPick(w) ==
  /\ pc[w] = "cancel_pick"
  /\ EventFree
  /\ \E p \in FirstWaitlisted(w) : req' = [req EXCEPT ![w].pick = p]
  /\ Goto(w, "cancel_settle")
  /\ UNCHANGED <<event, att, clock, doubled>>

BuggyReleasedBelowZero(count) == count - 1

(* GREATEST(attendee_count - 1, 0), and + 1 when someone is promoted. *)
Released(count) == IF count = 0 THEN 0 ELSE count - 1

BuggyCancelSettleUncounted(w) ==
  /\ pc[w] = "cancel_settle"
  /\ att' = [u \in Users |->
       IF u = req[w].user THEN [att[u] EXCEPT !.status = "cancelled"]
       ELSE IF u = req[w].pick THEN [att[u] EXCEPT !.status = "registered"] ELSE att[u]]
  /\ event' = [event EXCEPT !.count = Released(@)]
  /\ Finish(w)
  /\ UNCHANGED <<clock, doubled>>

CancelSettle(w) ==
  LET u == req[w].user
      p == req[w].pick
      cancelled == [att EXCEPT ![u].status = "cancelled"]
  IN
  /\ pc[w] = "cancel_settle"
  /\ IF p = Nobody
       THEN /\ att' = cancelled
            /\ event' = [event EXCEPT !.count = Released(@)]
       ELSE /\ AttendeeFree(w, p)
            /\ att' = [cancelled EXCEPT ![p].status = "registered"]
            /\ event' = [event EXCEPT !.count = Released(@) + 1]
  /\ Finish(w)
  /\ UNCHANGED <<clock, doubled>>

(* markAttended: SELECT ... FOR UPDATE, check, UPDATE on one row. *)
MarkAttended(u) ==
  /\ att[u].status \in Live
  /\ \A w \in Workers : ~HoldsAttendee(w, u)
  /\ att' = [att EXCEPT ![u].status = "attended"]
  /\ UNCHANGED <<event, pc, req, clock, doubled>>

(* cancelEvent: the status UPDATE commits on its own ... *)
CancelEvent(w) ==
  /\ Idle(w)
  /\ event.status # "cancelled"
  /\ EventFree
  /\ event' = [event EXCEPT !.status = "cancelled"]
  /\ Goto(w, "sweep_read")
  /\ UNCHANGED <<att, req, clock, doubled>>

(* ... then cancelAllEventRsvps updates the rows live in its snapshot, *)
(* checking each again once it has the row.                            *)
SweepRead(w) ==
  /\ pc[w] = "sweep_read"
  /\ req' = [req EXCEPT ![w].targets = {u \in Users : att[u].status \in Live}]
  /\ Goto(w, "sweep_write")
  /\ UNCHANGED <<event, att, clock, doubled>>

SweepWrite(w) ==
  /\ pc[w] = "sweep_write"
  /\ \A u \in req[w].targets : AttendeeFree(w, u)
  /\ att' = [u \in Users |->
               IF u \in req[w].targets /\ att[u].status \in Live
               THEN [att[u] EXCEPT !.status = "cancelled"] ELSE att[u]]
  /\ Finish(w)
  /\ UNCHANGED <<event, clock, doubled>>

(* updateEvent: one UPDATE; a new startTime must lie in the future. *)
UpdateEvent(limit, started) ==
  /\ event.status # "cancelled"
  /\ EventFree
  /\ event' = [event EXCEPT !.limit = limit, !.started = started]
  /\ UNCHANGED <<att, pc, req, clock, doubled>>

StartTimePasses ==
  /\ ~event.started
  /\ event' = [event EXCEPT !.started = TRUE]
  /\ UNCHANGED <<att, pc, req, clock, doubled>>

(* A crash, a lost connection, or Postgres choosing a deadlock's victim: *)
(* the open transaction rolls back, what was committed stays.            *)
Fail(w) ==
  /\ pc[w] # "idle"
  /\ Finish(w)
  /\ UNCHANGED <<event, att, clock, doubled>>

WorkerStep(w) ==
  \/ \E u \in Users : RsvpBegin(w, u) \/ CancelRead(w, u)
  \/ RsvpLock(w) \/ RsvpRefuse(w) \/ RsvpSettle(w)
  \/ LeaveWaitlist(w) \/ CancelWrite(w) \/ CancelPick(w) \/ CancelSettle(w)
  \/ CancelEvent(w) \/ SweepRead(w) \/ SweepWrite(w)
  \/ Fail(w)

Next ==
  \/ \E w \in Workers : WorkerStep(w)
  \/ \E u \in Users : MarkAttended(u)
  \/ \E limit \in Limits \cup {NoLimit}, started \in {event.started, FALSE} :
       UpdateEvent(limit, started)
  \/ StartTimePasses

Spec == Init /\ [][Next]_vars

-------------------------------------------------------------------------------
Labels == {"idle", "rsvp_lock", "rsvp_settle", "cancel_write", "cancel_pick",
           "cancel_settle", "leave_waitlist", "sweep_read", "sweep_write"}

EventRow == [status : {"upcoming", "cancelled"}, limit : Limits \cup {NoLimit},
             count : Nat, started : BOOLEAN]
AttendeeRow == [status : AttendeeStatus, at : Nat]
Request == [user : Users \cup {Nobody}, pick : Users \cup {Nobody},
            seat : {"none", "registered", "waitlisted"}, ts : Nat, targets : SUBSET Users]

(* Every variable ranges over the columns and values the schema allows, and *)
(* a running request knows its user (rsvpToEvent, cancelRsvp).              *)
TypeOK ==
  /\ event \in EventRow
  /\ att \in [Users -> AttendeeRow]
  /\ pc \in [Workers -> Labels]
  /\ req \in [Workers -> Request]
  /\ clock \in Nat
  /\ doubled \in BOOLEAN
  /\ \A w \in Workers : pc[w] \notin {"idle", "sweep_read", "sweep_write"}
                          => req[w].user \in Users

(* The FOR UPDATE in rsvpToEvent keeps attendee_count from passing the limit: *)
(* whatever overlaps, no commit raises it above the limit then in force.      *)
CountRisesOnlyBelowLimit ==
  [][event'.count > event.count
       => event.limit = NoLimit \/ event'.count <= event.limit]_vars

(* Nobody is put on the waitlist of an event that still has room, and nobody *)
(* joins it once the event is cancelled.                                     *)
WaitlistedOnlyWhenFull ==
  [][\A u \in Users :
       att'[u].status = "waitlisted" /\ att[u].status # "waitlisted"
         => event.status = "upcoming" /\ ~HasRoom]_vars

(* A promotion takes the member with the earliest registered_at: none who  *)
(* stays on the waitlist was there earlier, although the choice and the    *)
(* commit are separate statements.                                         *)
PromotionIsFifo ==
  [][\A p, q \in Users :
       /\ att[p].status = "waitlisted" /\ att'[p].status = "registered"
       /\ att[q].status = "waitlisted" /\ att'[q].status = "waitlisted"
       => att[p].at <= att[q].at]_vars

(* No two cancellations spend their seats on one waitlisted member: whoever *)
(* cancelRsvp has chosen to promote is not registered already.              *)
PromotionNotWasted ==
  \A w \in Workers : pc[w] = "cancel_settle" /\ req[w].pick # Nobody
                       => req[w].pick \notin Registered

(* attendee_count covers every registered member ... *)
CountCoversRegistered == Cardinality(Registered) <= event.count

(* ... as long as no member's cancellation was ever sent twice at once.     *)
SeatsBackedByCount == ~doubled => CountCoversRegistered

(* So an RSVP that is given a seat does not overbook the event: the rows   *)
(* that say "registered", which the counter only stands for, are within    *)
(* the limit it was checked against.  A promotion keeps the counter as it  *)
(* was, so under a limit that has been lowered meanwhile it may not be.    *)
SeatsWithinLimit ==
  [][event'.count > event.count /\ ~doubled'
       => event.limit = NoLimit \/ Cardinality(Registered') <= event.limit]_vars
===============================================================================
