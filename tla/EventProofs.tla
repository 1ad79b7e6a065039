------------------------------ MODULE EventProofs ------------------------------
(***************************************************************************)
(* Proofs about EventRsvp for every set of users, workers and limits, and  *)
(* about the event's recording for every set of runs and any number of     *)
(* tries.  The invariants of the RSVPs are layered: types, the event row's *)
(* lock, what a promotion has chosen, and the seats behind attendee_count. *)
(***************************************************************************)
EXTENDS EventRsvp, Recordings, FiniteSetTheorems, TLAPS

(* The steps that change a worker, with its name and its inputs. *)
LEMMA NextCases ==
  ASSUME Next
  PROVE  \/ \E w \in Workers, u \in Users : RsvpBegin(w, u) \/ CancelRead(w, u)
         \/ \E w \in Workers : \/ RsvpLock(w) \/ RsvpRefuse(w) \/ RsvpSettle(w)
                               \/ LeaveWaitlist(w) \/ CancelWrite(w)
                               \/ CancelPick(w) \/ CancelSettle(w)
                               \/ CancelEvent(w) \/ SweepRead(w) \/ SweepWrite(w)
                               \/ Fail(w)
         \/ \E u \in Users : MarkAttended(u)
         \/ \E limit \in Limits \cup {NoLimit}, started \in {event.started, FALSE} :
              UpdateEvent(limit, started)
         \/ StartTimePasses
  BY Zenon DEF Next, WorkerStep

(* Writing one column of one row keeps the rows well typed. *)
LEMMA AttendeeWrite ==
  ASSUME NEW f \in [Users -> AttendeeRow], NEW u, NEW s \in AttendeeStatus
  PROVE  [f EXCEPT ![u].status = s] \in [Users -> AttendeeRow]
  BY DEF AttendeeRow

LEMMA NoRequestType == NoRequest \in Request
  BY DEF NoRequest, Request

(* A request that ends leaves the worker's state well typed. *)
LEMMA FinishType ==
  ASSUME TypeOK, NEW w \in Workers, Finish(w)
  PROVE  /\ pc' \in [Workers -> Labels]
         /\ req' \in [Workers -> Request]
         /\ \A v \in Workers : pc'[v] \notin {"idle", "sweep_read", "sweep_write"}
                                => req'[v].user \in Users
  BY NoRequestType DEF Finish, TypeOK, Labels

(* The attendee rows change only in the last statement of a transaction. *)
LEMMA AttendeeWriters ==
  ASSUME [Next]_vars, att' # att
  PROVE  \/ \E w \in Workers : \/ RsvpSettle(w) \/ LeaveWaitlist(w)
                               \/ CancelSettle(w) \/ SweepWrite(w)
         \/ \E u \in Users : MarkAttended(u)
<1>1. att' = att \/ Next
  BY DEF vars
<1>2. ASSUME NEW w \in Workers,
             \/ RsvpLock(w) \/ RsvpRefuse(w) \/ CancelWrite(w) \/ CancelPick(w)
             \/ CancelEvent(w) \/ SweepRead(w) \/ Fail(w)
             \/ \E u \in Users : RsvpBegin(w, u) \/ CancelRead(w, u)
      PROVE  att' = att
  BY <1>2 DEF RsvpLock, RsvpRefuse, CancelWrite, CancelPick, CancelEvent, SweepRead,
              Fail, RsvpBegin, CancelRead
<1>3. ASSUME NEW limit, NEW started, UpdateEvent(limit, started) PROVE att' = att
  BY <1>3 DEF UpdateEvent
<1>4. StartTimePasses => att' = att
  BY DEF StartTimePasses
<1> QED
  BY <1>1, <1>2, <1>3, <1>4, NextCases, Zenon

LEMMA TypeInit == Init => TypeOK
<1> SUFFICES ASSUME Init PROVE TypeOK
  OBVIOUS
<1>1. event \in EventRow
  BY DEF Init, EventRow
<1>2. att \in [Users -> AttendeeRow]
  BY DEF Init, AttendeeRow, AttendeeStatus
<1>3. pc \in [Workers -> Labels] /\ req \in [Workers -> Request]
  BY NoRequestType DEF Init, Labels
<1> QED
  BY <1>1, <1>2, <1>3 DEF TypeOK, Init

LEMMA TypeStep == TypeOK /\ [Next]_vars => TypeOK'
<1> SUFFICES ASSUME TypeOK, [Next]_vars PROVE TypeOK'
  OBVIOUS
<1> USE RsvpConstants
<1>1. CASE UNCHANGED vars
  BY <1>1 DEF vars, TypeOK
<1>2. ASSUME NEW w \in Workers, NEW u \in Users, RsvpBegin(w, u) PROVE TypeOK'
  <2>1. [NoRequest EXCEPT !.user = u, !.ts = clock] \in Request
    BY DEF NoRequest, Request, TypeOK
  <2>2. [NoRequest EXCEPT !.user = u, !.ts = clock].user = u
    BY DEF NoRequest
  <2> QED BY <1>2, <2>1, <2>2 DEF RsvpBegin, Goto, TypeOK, Labels
<1>3. ASSUME NEW w \in Workers, NEW u \in Users, CancelRead(w, u) PROVE TypeOK'
  <2>1. [req[w] EXCEPT !.user = u] \in Request
    BY DEF Request, TypeOK
  <2>2. req' \in [Workers -> Request] /\ req'[w].user = u
    BY <1>3, <2>1 DEF CancelRead, TypeOK, Request
  <2>3. doubled' \in BOOLEAN
    BY <1>3 DEF CancelRead, TypeOK
  <2>4. pc' \in [Workers -> Labels]
    BY <1>3 DEF CancelRead, TypeOK, Goto, Labels
  <2>5. \A v \in Workers : pc'[v] \notin {"idle", "sweep_read", "sweep_write"}
                             => req'[v].user \in Users
    BY <1>3, <2>2 DEF CancelRead, TypeOK, Goto
  <2> QED BY <1>3, <2>2, <2>3, <2>4, <2>5 DEF CancelRead, TypeOK
<1>4. ASSUME NEW w \in Workers, RsvpLock(w) PROVE TypeOK'
  <2>1. req' \in [Workers -> Request] /\ \A v \in Workers : req'[v].user = req[v].user
    BY <1>4 DEF RsvpLock, TypeOK, Request
  <2> QED BY <1>4, <2>1 DEF RsvpLock, Goto, TypeOK, Labels
<1>5. ASSUME NEW w \in Workers, RsvpRefuse(w) PROVE TypeOK'
  BY <1>5, FinishType DEF RsvpRefuse, TypeOK
<1>6. ASSUME NEW w \in Workers, RsvpSettle(w) PROVE TypeOK'
  <2>1. att' \in [Users -> AttendeeRow]
    <3>1. req[w].ts \in Nat /\ clock \in Nat /\ req[w].seat \in AttendeeStatus
      BY DEF TypeOK, Request, AttendeeStatus, Live
    <3> QED BY <1>6, <3>1 DEF RsvpSettle, TypeOK, AttendeeRow, AttendeeStatus, Live
  <2>2. event' \in EventRow /\ clock' \in Nat
    BY <1>6 DEF RsvpSettle, TypeOK, EventRow
  <2> QED BY <1>6, <2>1, <2>2, FinishType DEF RsvpSettle, TypeOK
<1>7. ASSUME NEW w \in Workers, LeaveWaitlist(w) PROVE TypeOK'
  BY <1>7, FinishType, AttendeeWrite DEF LeaveWaitlist, TypeOK, AttendeeStatus
<1>8. ASSUME NEW w \in Workers, CancelWrite(w) PROVE TypeOK'
  BY <1>8 DEF CancelWrite, Goto, TypeOK, Labels
<1>9. ASSUME NEW w \in Workers, CancelPick(w) PROVE TypeOK'
  <2>1. FirstWaitlisted(w) \subseteq Users \cup {Nobody}
    BY DEF FirstWaitlisted, WaitlistFor
  <2>2. req' \in [Workers -> Request] /\ \A v \in Workers : req'[v].user = req[v].user
    BY <1>9, <2>1 DEF CancelPick, TypeOK, Request
  <2> QED BY <1>9, <2>2 DEF CancelPick, Goto, TypeOK, Labels
<1>10. ASSUME NEW w \in Workers, CancelSettle(w) PROVE TypeOK'
  <2> DEFINE u == req[w].user
             p == req[w].pick
             cancelled == [att EXCEPT ![u].status = "cancelled"]
  <2>1. cancelled \in [Users -> AttendeeRow]
    BY AttendeeWrite DEF TypeOK, AttendeeStatus
  <2>2. att' = cancelled \/ att' = [cancelled EXCEPT ![p].status = "registered"]
    BY <1>10 DEF CancelSettle
  <2> HIDE DEF cancelled
  <2>3. att' \in [Users -> AttendeeRow]
    <3>1. "registered" \in AttendeeStatus
      BY DEF AttendeeStatus, Live
    <3>2. [cancelled EXCEPT ![p].status = "registered"] \in [Users -> AttendeeRow]
      BY <2>1, <3>1, AttendeeWrite
    <3> QED BY <2>1, <2>2, <3>2
  <2>4. event' \in EventRow
    <3>1. Released(event.count) \in Nat /\ Released(event.count) + 1 \in Nat
      BY DEF TypeOK, EventRow, Released
    <3>2. \E n \in Nat : event' = [event EXCEPT !.count = n]
      BY <1>10, <3>1 DEF CancelSettle
    <3> QED BY <3>2 DEF TypeOK, EventRow
  <2> QED BY <1>10, <2>3, <2>4, FinishType DEF CancelSettle, TypeOK
<1>11. ASSUME NEW w \in Workers, CancelEvent(w) PROVE TypeOK'
  <2>1. event' \in EventRow
    BY <1>11 DEF CancelEvent, TypeOK, EventRow
  <2> QED BY <1>11, <2>1 DEF CancelEvent, Goto, TypeOK, Labels
<1>12. ASSUME NEW w \in Workers, SweepRead(w) PROVE TypeOK'
  <2>1. req' \in [Workers -> Request] /\ \A v \in Workers : req'[v].user = req[v].user
    BY <1>12 DEF SweepRead, TypeOK, Request
  <2> QED BY <1>12, <2>1 DEF SweepRead, Goto, TypeOK, Labels
<1>13. ASSUME NEW w \in Workers, SweepWrite(w) PROVE TypeOK'
  <2>1. att' \in [Users -> AttendeeRow]
    BY <1>13 DEF SweepWrite, TypeOK, AttendeeRow, AttendeeStatus
  <2> QED BY <1>13, <2>1, FinishType DEF SweepWrite, TypeOK
<1>14. ASSUME NEW w \in Workers, Fail(w) PROVE TypeOK'
  BY <1>14, FinishType DEF Fail, TypeOK
<1>15. ASSUME NEW u \in Users, MarkAttended(u) PROVE TypeOK'
  BY <1>15, AttendeeWrite DEF MarkAttended, TypeOK, AttendeeStatus
<1>16. ASSUME NEW limit \in Limits \cup {NoLimit}, NEW started \in {event.started, FALSE},
              UpdateEvent(limit, started)
       PROVE TypeOK'
  <2>1. event' \in EventRow
    BY <1>16 DEF UpdateEvent, TypeOK, EventRow
  <2> QED BY <1>16, <2>1 DEF UpdateEvent, TypeOK
<1>17. CASE StartTimePasses
  <2>1. event' \in EventRow
    BY <1>17 DEF StartTimePasses, TypeOK, EventRow
  <2> QED BY <1>17, <2>1 DEF StartTimePasses, TypeOK
<1> QED
  BY <1>1, <1>2, <1>3, <1>4, <1>5, <1>6, <1>7, <1>8, <1>9, <1>10, <1>11,
     <1>12, <1>13, <1>14, <1>15, <1>16, <1>17, NextCases

(* TypeOK holds in every reachable state, for every value of the constants. *)
THEOREM TypeCorrect == Spec => []TypeOK
  BY TypeInit, TypeStep, PTL DEF Spec

-------------------------------------------------------------------------------
(* At most one transaction holds the event row, and what an RSVP that holds *)
(* it has read of the event is still so.                                    *)
EventLock ==
  /\ \A v, w \in Workers : HoldsEvent(v) /\ HoldsEvent(w) => v = w
  /\ \A w \in Workers : pc[w] = "rsvp_settle"
       => event.status = "upcoming" /\ ((req[w].seat = "registered") <=> HasRoom)

LEMMA LockInit == Init => EventLock
  BY DEF Init, EventLock, HoldsEvent

LEMMA LockStep == TypeOK /\ EventLock /\ [Next]_vars => EventLock'
<1> SUFFICES ASSUME TypeOK, EventLock, [Next]_vars PROVE EventLock'
  OBVIOUS
<1> USE DEF EventLock, HoldsEvent, HasRoom
<1>1. CASE UNCHANGED vars
  BY <1>1 DEF vars
<1>2. ASSUME NEW w \in Workers, RsvpLock(w) PROVE EventLock'
  BY <1>2 DEF RsvpLock, MayRsvp, EventFree, Goto, TypeOK, Request
<1>3. ASSUME NEW w \in Workers, CancelPick(w) PROVE EventLock'
  BY <1>3 DEF CancelPick, EventFree, Goto, TypeOK, Request
<1>4. ASSUME NEW w \in Workers, CancelEvent(w) PROVE EventLock'
  BY <1>4 DEF CancelEvent, EventFree, Goto, TypeOK
<1>5. ASSUME NEW w \in Workers, RsvpSettle(w) \/ CancelSettle(w) PROVE EventLock'
  BY <1>5 DEF RsvpSettle, CancelSettle, Finish, TypeOK, EventRow
<1>6. ASSUME NEW w \in Workers,
             \/ RsvpRefuse(w) \/ LeaveWaitlist(w) \/ SweepWrite(w) \/ Fail(w)
      PROVE EventLock'
  BY <1>6 DEF RsvpRefuse, LeaveWaitlist, SweepWrite, Fail, Finish, TypeOK
<1>7. ASSUME NEW w \in Workers, NEW u \in Users, RsvpBegin(w, u) \/ CancelRead(w, u)
      PROVE EventLock'
  BY <1>7 DEF RsvpBegin, CancelRead, Goto, TypeOK
<1>8. ASSUME NEW w \in Workers, CancelWrite(w) \/ SweepRead(w) PROVE EventLock'
  BY <1>8 DEF CancelWrite, SweepRead, Goto, TypeOK, Request
<1>9. ASSUME \/ \E u \in Users : MarkAttended(u)
             \/ StartTimePasses
             \/ \E limit \in Limits \cup {NoLimit}, started \in {event.started, FALSE} :
                  UpdateEvent(limit, started)
      PROVE EventLock'
  BY <1>9 DEF MarkAttended, StartTimePasses, UpdateEvent, EventFree, TypeOK, EventRow
<1> HIDE DEF EventLock
<1> QED
  BY <1>1, <1>2, <1>3, <1>4, <1>5, <1>6, <1>7, <1>8, <1>9, NextCases

(* The FOR UPDATE of rsvpToEvent and cancelRsvp at work: at most one request *)
(* holds the event row, and what an RSVP read of the event stays true.       *)
THEOREM EventLockHeld == Spec => [](TypeOK /\ EventLock)
  BY TypeInit, TypeStep, LockInit, LockStep, PTL DEF Spec

(* The FOR UPDATE in rsvpToEvent keeps attendee_count from passing the limit. *)
THEOREM CountBelowLimit == Spec => CountRisesOnlyBelowLimit
<1>1. ASSUME TypeOK, EventLock, [Next]_vars, event'.count > event.count
      PROVE  event.limit = NoLimit \/ event'.count <= event.limit
  <2>1. event.count \in Nat /\ event.limit \in (Nat \ {0}) \cup {NoLimit}
    BY <1>1, RsvpConstants DEF TypeOK, EventRow
  <2>2. CASE \E w \in Workers : RsvpSettle(w)
    <3> PICK w \in Workers : RsvpSettle(w)
      BY <2>2
    <3>1. event' = [event EXCEPT !.count = event.count + 1] /\ req[w].seat = "registered"
      BY <1>1 DEF RsvpSettle, TypeOK, EventRow
    <3>2. HasRoom
      BY <1>1, <3>1 DEF RsvpSettle, EventLock
    <3> QED BY <1>1, <2>1, <3>1, <3>2 DEF HasRoom, TypeOK, EventRow
  <2>3. CASE \E w \in Workers : CancelSettle(w)
    <3>1. event'.count \in {Released(event.count), Released(event.count) + 1}
      BY <2>3, <1>1 DEF CancelSettle, TypeOK, EventRow
    <3>2. event'.limit = event.limit
      BY <2>3, <1>1 DEF CancelSettle, TypeOK, EventRow
    <3> QED BY <1>1, <2>1, <3>1, <3>2 DEF Released
  <2>4. event'.count = event.count
          \/ \E w \in Workers : RsvpSettle(w) \/ CancelSettle(w)
    BY <1>1, NextCases
       DEF vars, TypeOK, EventRow, RsvpBegin, CancelRead, RsvpLock, RsvpRefuse,
           LeaveWaitlist, CancelWrite, CancelPick, CancelEvent, SweepRead,
           SweepWrite, Fail, MarkAttended, UpdateEvent, StartTimePasses
  <2> QED BY <1>1, <2>1, <2>2, <2>3, <2>4
<1>2. TypeOK /\ EventLock /\ [Next]_vars
        => [event'.count > event.count
              => event.limit = NoLimit \/ event'.count <= event.limit]_vars
  BY <1>1
<1> QED BY <1>2, EventLockHeld, PTL DEF CountRisesOnlyBelowLimit, Spec

(* Nobody waits for a seat that is free, or for an event that is cancelled. *)
THEOREM WaitlistOnlyFull == Spec => WaitlistedOnlyWhenFull
<1>1. ASSUME TypeOK, EventLock, [Next]_vars, NEW u \in Users,
             att'[u].status = "waitlisted", att[u].status # "waitlisted"
      PROVE  event.status = "upcoming" /\ ~HasRoom
  <2>1. CASE \E w \in Workers : RsvpSettle(w)
    <3> PICK w \in Workers : RsvpSettle(w)
      BY <2>1
    <3>1. req[w].seat = "waitlisted"
      BY <1>1 DEF RsvpSettle, TypeOK, AttendeeRow
    <3> QED BY <1>1, <3>1 DEF RsvpSettle, EventLock
  <2>2. \E w \in Workers : RsvpSettle(w)
    <3>1. att \in [Users -> AttendeeRow]
      BY <1>1 DEF TypeOK
    <3>2. ASSUME NEW w \in Workers, CancelSettle(w) PROVE FALSE
      BY <1>1, <3>1, <3>2 DEF CancelSettle, AttendeeRow
    <3>3. ASSUME NEW w \in Workers, LeaveWaitlist(w) PROVE FALSE
      BY <1>1, <3>1, <3>3 DEF LeaveWaitlist, AttendeeRow
    <3>4. ASSUME NEW w \in Workers, SweepWrite(w) PROVE FALSE
      BY <1>1, <3>1, <3>4 DEF SweepWrite, AttendeeRow
    <3>5. ASSUME NEW v \in Users, MarkAttended(v) PROVE FALSE
      BY <1>1, <3>1, <3>5 DEF MarkAttended, AttendeeRow
    <3> QED
      BY <1>1, <3>2, <3>3, <3>4, <3>5, AttendeeWriters
  <2> QED BY <2>1, <2>2
<1>2. TypeOK /\ EventLock /\ [Next]_vars
        => [\A u \in Users : att'[u].status = "waitlisted" /\ att[u].status # "waitlisted"
              => event.status = "upcoming" /\ ~HasRoom]_vars
  BY <1>1
<1> QED BY <1>2, EventLockHeld, PTL DEF WaitlistedOnlyWhenFull, Spec

-------------------------------------------------------------------------------
(* What a cancellation that holds the event row has chosen: a member other *)
(* than its own user, not registered, and first in line while waitlisted.  *)
ChosenBy(w) ==
  /\ req[w].pick # req[w].user
  /\ req[w].pick \notin Registered
  /\ att[req[w].pick].status = "waitlisted"
       => \A q \in Users \ {req[w].user} :
            att[q].status = "waitlisted" => att[req[w].pick].at <= att[q].at

PickInv ==
  \A w \in Workers : pc[w] = "cancel_settle" /\ req[w].pick # Nobody => ChosenBy(w)

(* While one worker holds the event row, only a write that takes nobody    *)
(* into the waitlist or into the event can reach the attendees.            *)
LEMMA PickFrame ==
  ASSUME TypeOK, TypeOK', PickInv, NEW w \in Workers,
         pc'[w] = "cancel_settle", req'[w].pick # Nobody,
         pc[w] = "cancel_settle", req'[w] = req[w],
         \A u \in Users : /\ att'[u].at = att[u].at
                          /\ att'[u].status \in {att[u].status, "cancelled", "attended"}
  PROVE  ChosenBy(w)'
<1>1. req[w].pick \in Users
  BY DEF TypeOK, Request
<1> QED
  BY <1>1 DEF PickInv, ChosenBy, Registered, TypeOK, AttendeeRow

LEMMA PickStep ==
  TypeOK /\ TypeOK' /\ EventLock /\ PickInv /\ [Next]_vars => PickInv'
<1> SUFFICES ASSUME TypeOK, TypeOK', EventLock, PickInv, [Next]_vars,
                    NEW w \in Workers, pc'[w] = "cancel_settle", req'[w].pick # Nobody
             PROVE  ChosenBy(w)'
  BY DEF PickInv
<1>1. CASE pc[w] # "cancel_settle"
  <2>1. CancelPick(w)
    BY <1>1, NextCases
       DEF vars, RsvpBegin, CancelRead, RsvpLock, RsvpRefuse, RsvpSettle, LeaveWaitlist,
           CancelWrite, CancelPick, CancelSettle, CancelEvent, SweepRead, SweepWrite,
           Fail, MarkAttended, UpdateEvent, StartTimePasses, Goto, Finish, TypeOK
  <2>2. /\ req'[w].pick \in FirstWaitlisted(w) /\ req'[w].user = req[w].user
        /\ att' = att
    BY <2>1 DEF CancelPick, TypeOK, Request
  <2> QED BY <2>2 DEF ChosenBy, FirstWaitlisted, WaitlistFor, Registered
<1>2. CASE pc[w] = "cancel_settle"
  <2>1. req'[w] = req[w] /\ ~CancelSettle(w)
    BY <1>2, NextCases
       DEF vars, RsvpBegin, CancelRead, RsvpLock, RsvpRefuse, RsvpSettle, LeaveWaitlist,
           CancelWrite, CancelPick, CancelSettle, CancelEvent, SweepRead, SweepWrite,
           Fail, MarkAttended, UpdateEvent, StartTimePasses, Goto, Finish, TypeOK, Idle
  <2>2. \A v \in Workers : ~RsvpSettle(v) /\ ~CancelSettle(v)
    BY <1>2, <2>1 DEF EventLock, HoldsEvent, RsvpSettle, CancelSettle
  <2>3. \A u \in Users : /\ att'[u].at = att[u].at
                         /\ att'[u].status \in {att[u].status, "cancelled", "attended"}
    <3>1. att \in [Users -> AttendeeRow]
      BY DEF TypeOK
    <3>2. ASSUME NEW v \in Workers, LeaveWaitlist(v)
          PROVE  \A u \in Users : /\ att'[u].at = att[u].at
                                  /\ att'[u].status \in {att[u].status, "cancelled"}
      BY <3>1, <3>2 DEF LeaveWaitlist, AttendeeRow
    <3>3. ASSUME NEW v \in Workers, SweepWrite(v)
          PROVE  \A u \in Users : /\ att'[u].at = att[u].at
                                  /\ att'[u].status \in {att[u].status, "cancelled"}
      BY <3>1, <3>3 DEF SweepWrite, AttendeeRow
    <3>4. ASSUME NEW v \in Users, MarkAttended(v)
          PROVE  \A u \in Users : /\ att'[u].at = att[u].at
                                  /\ att'[u].status \in {att[u].status, "attended"}
      BY <3>1, <3>4 DEF MarkAttended, AttendeeRow
    <3> QED BY <2>2, <3>2, <3>3, <3>4, AttendeeWriters
  <2> QED BY <1>2, <2>1, <2>3, PickFrame
<1> QED BY <1>1, <1>2

LEMMA PickInit == Init => PickInv
  BY DEF Init, PickInv

(* The member a cancellation has chosen stays fit to promote, or leaves the *)
(* waitlist, until the cancellation commits (cancelRsvp).                   *)
THEOREM PickHeld == Spec => [](TypeOK /\ EventLock /\ PickInv)
  BY TypeInit, TypeStep, LockInit, LockStep, PickInit, PickStep, PTL DEF Spec

(* No two cancellations spend their seats on one waitlisted member. *)
THEOREM PromotionSpentOnce == Spec => []PromotionNotWasted
<1>1. PickInv => PromotionNotWasted
  BY DEF PickInv, ChosenBy, PromotionNotWasted
<1> QED BY <1>1, PickHeld, PTL

(* An RSVP that holds the event row still has a user who may register: only *)
(* a holder of that row can make a member registered or waitlisted.         *)
RsvpFresh ==
  \A w \in Workers : pc[w] = "rsvp_settle" => att[req[w].user].status \notin Live

LEMMA FreshStep ==
  TypeOK /\ TypeOK' /\ EventLock /\ RsvpFresh /\ [Next]_vars => RsvpFresh'
<1> SUFFICES ASSUME TypeOK, TypeOK', EventLock, RsvpFresh, [Next]_vars,
                    NEW w \in Workers, pc'[w] = "rsvp_settle"
             PROVE  att'[req'[w].user].status \notin Live
  BY DEF RsvpFresh
<1>1. CASE pc[w] # "rsvp_settle"
  <2>1. RsvpLock(w)
    BY <1>1, NextCases
       DEF vars, RsvpBegin, CancelRead, RsvpLock, RsvpRefuse, RsvpSettle, LeaveWaitlist,
           CancelWrite, CancelPick, CancelSettle, CancelEvent, SweepRead, SweepWrite,
           Fail, MarkAttended, UpdateEvent, StartTimePasses, Goto, Finish, TypeOK
  <2> QED BY <2>1 DEF RsvpLock, MayRsvp, Live, TypeOK, Request
<1>2. CASE pc[w] = "rsvp_settle"
  <2>1. req'[w] = req[w] /\ ~RsvpSettle(w)
    BY <1>2, NextCases
       DEF vars, RsvpBegin, CancelRead, RsvpLock, RsvpRefuse, RsvpSettle, LeaveWaitlist,
           CancelWrite, CancelPick, CancelSettle, CancelEvent, SweepRead, SweepWrite,
           Fail, MarkAttended, UpdateEvent, StartTimePasses, Goto, Finish, TypeOK, Idle
  <2>2. \A v \in Workers : ~RsvpSettle(v) /\ ~CancelSettle(v)
    BY <1>2, <2>1 DEF EventLock, HoldsEvent, RsvpSettle, CancelSettle
  <2>3. req[w].user \in Users /\ att[req[w].user].status \notin Live
    BY <1>2 DEF TypeOK, RsvpFresh
  <2> DEFINE Kept ==
        att'[req[w].user].status \in {att[req[w].user].status, "cancelled", "attended"}
  <2>4. Kept
    <3>1. att \in [Users -> AttendeeRow]
      BY DEF TypeOK
    <3>2. ASSUME NEW v \in Workers, LeaveWaitlist(v) PROVE Kept
      BY <2>3, <3>1, <3>2 DEF LeaveWaitlist, AttendeeRow
    <3>3. ASSUME NEW v \in Workers, SweepWrite(v) PROVE Kept
      BY <2>3, <3>1, <3>3 DEF SweepWrite, AttendeeRow
    <3>4. ASSUME NEW v \in Users, MarkAttended(v) PROVE Kept
      BY <2>3, <3>1, <3>4 DEF MarkAttended, AttendeeRow
    <3> QED BY <2>2, <3>2, <3>3, <3>4, AttendeeWriters
  <2> QED BY <2>1, <2>3, <2>4 DEF Live
<1> QED BY <1>1, <1>2

(* A promotion takes the member with the earliest registered_at. *)
THEOREM PromotionFifo == Spec => PromotionIsFifo
<1>1. ASSUME TypeOK, EventLock, PickInv, RsvpFresh, [Next]_vars, NEW p \in Users, NEW q \in Users,
             att[p].status = "waitlisted", att'[p].status = "registered",
             att[q].status = "waitlisted", att'[q].status = "waitlisted"
      PROVE  att[p].at <= att[q].at
  <2>1. att \in [Users -> AttendeeRow]
    BY <1>1 DEF TypeOK
  <2>2. PICK w \in Workers : CancelSettle(w)
    <3>1. ASSUME NEW w \in Workers, RsvpSettle(w) PROVE FALSE
      BY <1>1, <2>1, <3>1 DEF RsvpSettle, RsvpFresh, Live, TypeOK, AttendeeRow
    <3>2. ASSUME NEW w \in Workers, LeaveWaitlist(w) PROVE FALSE
      BY <1>1, <2>1, <3>2 DEF LeaveWaitlist, AttendeeRow
    <3>3. ASSUME NEW w \in Workers, SweepWrite(w) PROVE FALSE
      BY <1>1, <2>1, <3>3 DEF SweepWrite, AttendeeRow
    <3>4. ASSUME NEW u \in Users, MarkAttended(u) PROVE FALSE
      BY <1>1, <2>1, <3>4 DEF MarkAttended, AttendeeRow
    <3> QED BY <1>1, <3>1, <3>2, <3>3, <3>4, AttendeeWriters
  <2>3. p = req[w].pick /\ req[w].pick # Nobody
    BY <1>1, <2>1, <2>2, RsvpConstants DEF CancelSettle, AttendeeRow
  <2>4. ChosenBy(w)
    BY <1>1, <2>2, <2>3 DEF PickInv, CancelSettle
  <2>5. q # req[w].user
    BY <1>1, <2>1, <2>2, <2>3, <2>4 DEF CancelSettle, ChosenBy, AttendeeRow
  <2> QED BY <1>1, <2>3, <2>4, <2>5 DEF ChosenBy
<1>2. TypeOK /\ EventLock /\ PickInv /\ RsvpFresh /\ [Next]_vars
        => [\A p, q \in Users :
              /\ att[p].status = "waitlisted" /\ att'[p].status = "registered"
              /\ att[q].status = "waitlisted" /\ att'[q].status = "waitlisted"
              => att[p].at <= att[q].at]_vars
  BY <1>1
<1>3. Init => RsvpFresh
  BY DEF Init, RsvpFresh
<1> QED
  BY <1>2, <1>3, PickHeld, FreshStep, TypeInit, TypeStep, PTL DEF PromotionIsFifo, Spec

-------------------------------------------------------------------------------
(* The seats attendee_count must cover: the registered members, and those  *)
(* whose cancellation, read as registered, has still to give its seat back. *)
GivingBack(w) == pc[w] \in {"cancel_write", "cancel_pick", "cancel_settle"}
Seats == Registered \cup {u \in Users : \E w \in Workers : GivingBack(w) /\ req[w].user = u}

SeatInv ==
  ~doubled => /\ \A v, w \in Workers :
                   Cancelling(v) /\ Cancelling(w) /\ req[v].user = req[w].user => v = w
              /\ Cardinality(Seats) <= event.count

LEMMA SeatsFinite == IsFiniteSet(Seats) /\ Cardinality(Seats) \in Nat
  BY FS_Subset, FS_CardinalityType, RsvpConstants DEF Seats, Registered

(* A step that adds no seat and takes none from the count keeps the cover. *)
LEMMA SeatsShrink ==
  ASSUME TypeOK, TypeOK', Cardinality(Seats) <= event.count,
         Seats' \subseteq Seats, event'.count = event.count
  PROVE  Cardinality(Seats') <= event'.count
<1>1. /\ Cardinality(Seats') \in Nat /\ Cardinality(Seats) \in Nat
      /\ Cardinality(Seats') <= Cardinality(Seats)
  BY SeatsFinite, FS_Subset, FS_CardinalityType
<1> QED BY <1>1 DEF TypeOK, EventRow

LEMMA SeatInit == Init => SeatInv
<1> SUFFICES ASSUME Init PROVE SeatInv
  OBVIOUS
<1>1. Seats = {}
  BY DEF Init, Seats, Registered, GivingBack
<1>2. event.count = 0 /\ \A w \in Workers : ~Cancelling(w)
  BY DEF Init, Cancelling
<1> QED BY <1>1, <1>2, FS_EmptySet DEF SeatInv

(* Two cancellations of one user's RSVP overlap only once "doubled" is set. *)
LEMMA OneCancel ==
  ASSUME TypeOK, TypeOK', SeatInv, [Next]_vars, ~doubled'
  PROVE  /\ ~doubled
         /\ \A v, w \in Workers :
              Cancelling(v)' /\ Cancelling(w)' /\ req'[v].user = req'[w].user => v = w
<1>1. ~doubled
  BY NextCases
     DEF vars, RsvpBegin, CancelRead, RsvpLock, RsvpRefuse, RsvpSettle, LeaveWaitlist,
         CancelWrite, CancelPick, CancelSettle, CancelEvent, SweepRead, SweepWrite,
         Fail, MarkAttended, UpdateEvent, StartTimePasses
<1>2. ASSUME NEW x \in Workers, NEW u \in Users, CancelRead(x, u)
      PROVE  /\ \A v \in Workers : Cancelling(v) => req[v].user # u
             /\ \A v \in Workers \ {x} : pc'[v] = pc[v] /\ req'[v] = req[v]
             /\ req'[x].user = u
  BY <1>2 DEF CancelRead, Goto, TypeOK, Request
<1>3. ASSUME ~ \E x \in Workers, u \in Users : CancelRead(x, u), NEW v \in Workers,
             Cancelling(v)'
      PROVE  Cancelling(v) /\ req'[v].user = req[v].user
  <2>1. ASSUME NEW x \in Workers, Finish(x)
        PROVE  Cancelling(v) /\ req'[v].user = req[v].user
    BY <1>3, <2>1 DEF Finish, Cancelling, TypeOK
  <2>2. ASSUME NEW x \in Workers, CancelPick(x)
        PROVE  Cancelling(v) /\ req'[v].user = req[v].user
    BY <1>3, <2>2 DEF CancelPick, Goto, Cancelling, TypeOK, Request
  <2>3. ASSUME NEW x \in Workers, NEW u \in Users, RsvpBegin(x, u)
        PROVE  Cancelling(v) /\ req'[v].user = req[v].user
    BY <1>3, <2>3 DEF RsvpBegin, Goto, Cancelling, TypeOK, Request
  <2>4. ASSUME NEW x \in Workers,
               RsvpLock(x) \/ CancelWrite(x) \/ CancelEvent(x) \/ SweepRead(x)
        PROVE  Cancelling(v) /\ req'[v].user = req[v].user
    BY <1>3, <2>4 DEF RsvpLock, CancelWrite, CancelEvent, SweepRead, Goto, Cancelling,
                      TypeOK, Request
  <2>5. ASSUME UNCHANGED <<pc, req>>
        PROVE  Cancelling(v) /\ req'[v].user = req[v].user
    BY <1>3, <2>5 DEF Cancelling
  <2> QED
    BY <1>3, <2>1, <2>2, <2>3, <2>4, <2>5, NextCases
       DEF vars, RsvpRefuse, RsvpSettle, LeaveWaitlist, CancelSettle, SweepWrite, Fail,
           MarkAttended, UpdateEvent, StartTimePasses
<1>4. CASE \E x \in Workers, u \in Users : CancelRead(x, u)
  BY <1>1, <1>2, <1>4 DEF SeatInv, Cancelling
<1>5. CASE ~ \E x \in Workers, u \in Users : CancelRead(x, u)
  BY <1>1, <1>3, <1>5 DEF SeatInv
<1> QED BY <1>1, <1>4, <1>5

(* Every step but the two that move attendee_count leaves the seats covered. *)
LEMMA SeatFrame ==
  ASSUME TypeOK, TypeOK', [Next]_vars,
         \A w \in Workers : ~RsvpSettle(w) /\ ~CancelSettle(w)
  PROVE  Seats' \subseteq Seats /\ event'.count = event.count
<1>1. event'.count = event.count
  BY NextCases
     DEF vars, RsvpBegin, CancelRead, RsvpLock, RsvpRefuse, LeaveWaitlist, CancelWrite,
         CancelPick, CancelEvent, SweepRead, SweepWrite, Fail, MarkAttended, UpdateEvent,
         StartTimePasses, TypeOK, EventRow
<1>2. Registered' \subseteq Registered
  <2>1. ASSUME NEW w \in Workers, LeaveWaitlist(w) PROVE Registered' \subseteq Registered
    BY <2>1 DEF LeaveWaitlist, Registered, TypeOK, AttendeeRow
  <2>2. ASSUME NEW w \in Workers, SweepWrite(w) PROVE Registered' \subseteq Registered
    BY <2>2 DEF SweepWrite, Registered, TypeOK, AttendeeRow
  <2>3. ASSUME NEW u \in Users, MarkAttended(u) PROVE Registered' \subseteq Registered
    BY <2>3 DEF MarkAttended, Registered, TypeOK, AttendeeRow
  <2>4. att' = att => Registered' \subseteq Registered
    BY DEF Registered
  <2> QED BY <2>1, <2>2, <2>3, <2>4, AttendeeWriters
<1>3. ASSUME NEW v \in Workers, GivingBack(v)'
      PROVE  req'[v].user \in Registered
             \/ (GivingBack(v) /\ req'[v].user = req[v].user)
  <2>1. ASSUME NEW x \in Workers, Finish(x)
        PROVE  GivingBack(v) /\ req'[v].user = req[v].user
    BY <1>3, <2>1 DEF Finish, GivingBack, TypeOK
  <2>2. ASSUME NEW x \in Workers, CancelPick(x)
        PROVE  GivingBack(v) /\ req'[v].user = req[v].user
    BY <1>3, <2>2 DEF CancelPick, Goto, GivingBack, TypeOK, Request
  <2>3. ASSUME NEW x \in Workers, NEW u \in Users, RsvpBegin(x, u)
        PROVE  GivingBack(v) /\ req'[v].user = req[v].user
    BY <1>3, <2>3 DEF RsvpBegin, Goto, GivingBack, TypeOK, Request
  <2>4. ASSUME NEW x \in Workers,
               RsvpLock(x) \/ CancelWrite(x) \/ CancelEvent(x) \/ SweepRead(x)
        PROVE  GivingBack(v) /\ req'[v].user = req[v].user
    BY <1>3, <2>4 DEF RsvpLock, CancelWrite, CancelEvent, SweepRead, Goto, GivingBack,
                      TypeOK, Request
  <2>5. ASSUME NEW x \in Workers, NEW u \in Users, CancelRead(x, u)
        PROVE  req'[v].user \in Registered
               \/ (GivingBack(v) /\ req'[v].user = req[v].user)
    <3>1. CASE v # x
      BY <1>3, <2>5, <3>1 DEF CancelRead, Goto, GivingBack, TypeOK
    <3>2. CASE v = x
      <4>1. req'[v].user = u
        BY <2>5, <3>2 DEF CancelRead, TypeOK, Request
      <4>2. att[u].status = "registered"
        BY <1>3, <2>5, <3>2 DEF CancelRead, Goto, GivingBack, TypeOK
      <4>3. u \in Registered
        BY <4>2 DEF Registered
      <4> QED BY <4>1, <4>3
    <3> QED BY <3>1, <3>2
  <2>6. ASSUME UNCHANGED <<pc, req>>
        PROVE  GivingBack(v) /\ req'[v].user = req[v].user
    BY <1>3, <2>6 DEF GivingBack
  <2> QED
    BY <2>1, <2>2, <2>3, <2>4, <2>5, <2>6, NextCases
       DEF vars, RsvpRefuse, RsvpSettle, LeaveWaitlist, CancelSettle, SweepWrite, Fail,
           MarkAttended, UpdateEvent, StartTimePasses
<1> QED BY <1>1, <1>2, <1>3 DEF Seats

(* An RSVP adds its own user and, if it registers him, one to the count. *)
LEMMA SeatRsvp ==
  ASSUME TypeOK, TypeOK', Cardinality(Seats) <= event.count,
         NEW w \in Workers, RsvpSettle(w)
  PROVE  Cardinality(Seats') <= event'.count
<1> DEFINE u == req[w].user
<1>1. u \in Users
  BY DEF RsvpSettle, TypeOK
<1>2. \A v \in Workers : GivingBack(v)' => GivingBack(v) /\ req'[v].user = req[v].user
  BY DEF RsvpSettle, Finish, GivingBack, TypeOK
<1>3. CASE req[w].seat = "registered"
  <2>1. Registered' \subseteq Registered \cup {u} /\ event'.count = event.count + 1
    BY <1>1, <1>3 DEF RsvpSettle, Registered, TypeOK, EventRow
  <2>2. Seats' \subseteq Seats \cup {u}
    BY <1>2, <2>1 DEF Seats
  <2>3. /\ IsFiniteSet(Seats \cup {u}) /\ Cardinality(Seats') \in Nat
        /\ Cardinality(Seats \cup {u}) <= Cardinality(Seats) + 1
        /\ Cardinality(Seats) \in Nat
    BY SeatsFinite, FS_AddElement, <2>2, FS_Subset, FS_CardinalityType
  <2>4. Cardinality(Seats') <= Cardinality(Seats \cup {u})
    BY <2>2, <2>3, FS_Subset
  <2>5. Cardinality(Seats \cup {u}) \in Nat
    BY <2>3, FS_CardinalityType
  <2> QED BY <2>1, <2>3, <2>4, <2>5 DEF TypeOK, EventRow
<1>4. CASE req[w].seat # "registered"
  <2>1. Registered' \subseteq Registered /\ event'.count = event.count
    BY <1>1, <1>4 DEF RsvpSettle, Registered, TypeOK, EventRow
  <2>2. Seats' \subseteq Seats
    BY <1>2, <2>1 DEF Seats
  <2> QED BY <2>1, <2>2, SeatsShrink
<1> QED BY <1>3, <1>4

(* A cancellation gives its own seat back and may hand it to one other. *)
LEMMA SeatCancel ==
  ASSUME TypeOK, TypeOK', PickInv, SeatInv, ~doubled,
         NEW w \in Workers, CancelSettle(w)
  PROVE  Cardinality(Seats') <= event'.count
<1> DEFINE u == req[w].user
           p == req[w].pick
           rest == Seats \ {u}
<1>1. u \in Users /\ u \in Seats /\ Cardinality(Seats) <= event.count
  BY DEF CancelSettle, TypeOK, Seats, GivingBack, SeatInv
<1>2. \A v \in Workers : GivingBack(v)' => /\ GivingBack(v) /\ req'[v].user = req[v].user
                                           /\ req[v].user # u
  BY DEF CancelSettle, Finish, GivingBack, TypeOK, SeatInv, Cancelling
<1>3. /\ IsFiniteSet(rest) /\ Cardinality(rest) \in Nat
      /\ Cardinality(Seats) \in Nat /\ Cardinality(rest) = Cardinality(Seats) - 1
  BY <1>1, SeatsFinite, FS_RemoveElement, FS_CardinalityType
<1>4. event.count \in Nat /\ event.count # 0
  BY <1>1, <1>3 DEF TypeOK, EventRow
<1>5. CASE p = Nobody
  <2>1. Registered' \subseteq Registered \ {u} /\ event'.count = event.count - 1
    BY <1>1, <1>4, <1>5 DEF CancelSettle, Registered, Released, TypeOK, EventRow, AttendeeRow
  <2>2. Seats' \subseteq rest
    BY <1>2, <2>1 DEF Seats
  <2>3. Cardinality(Seats') <= Cardinality(rest) /\ Cardinality(Seats') \in Nat
    BY <2>2, <1>3, FS_Subset, FS_CardinalityType
  <2> QED BY <1>1, <1>3, <1>4, <2>1, <2>3
<1>6. CASE p # Nobody
  <2>1. p \in Users /\ p # u
    BY <1>6 DEF PickInv, ChosenBy, CancelSettle, TypeOK, Request
  <2>2. /\ Registered' \subseteq (Registered \ {u}) \cup {p}
        /\ event'.count = event.count
    <3>1. att' = [[att EXCEPT ![u].status = "cancelled"] EXCEPT ![p].status = "registered"]
      BY <1>6 DEF CancelSettle
    <3>2. event'.count = event.count - 1 + 1
      BY <1>4, <1>6 DEF CancelSettle, Released, TypeOK, EventRow
    <3> QED BY <1>1, <1>4, <2>1, <3>1, <3>2 DEF Registered, TypeOK, AttendeeRow
  <2>3. Seats' \subseteq rest \cup {p}
    BY <1>2, <2>2 DEF Seats
  <2> HIDE DEF rest, p
  <2>4. /\ IsFiniteSet(rest \cup {p})
        /\ Cardinality(rest \cup {p}) <= Cardinality(rest) + 1
        /\ Cardinality(rest \cup {p}) \in Nat
    <3>1. /\ IsFiniteSet(rest \cup {p})
          /\ Cardinality(rest \cup {p})
               = IF p \in rest THEN Cardinality(rest) ELSE Cardinality(rest) + 1
      BY <1>3, FS_AddElement
    <3> QED BY <1>3, <3>1
  <2>5. Cardinality(Seats') <= Cardinality(rest \cup {p}) /\ Cardinality(Seats') \in Nat
    BY <2>3, <2>4, FS_Subset, FS_CardinalityType
  <2> QED BY <1>1, <1>3, <1>4, <2>2, <2>4, <2>5
<1> QED BY <1>5, <1>6

LEMMA SeatStep ==
  TypeOK /\ TypeOK' /\ PickInv /\ SeatInv /\ [Next]_vars => SeatInv'
<1> SUFFICES ASSUME TypeOK, TypeOK', PickInv, SeatInv, [Next]_vars, ~doubled'
             PROVE  /\ \A v, w \in Workers :
                         Cancelling(v)' /\ Cancelling(w)' /\ req'[v].user = req'[w].user
                           => v = w
                    /\ Cardinality(Seats') <= event'.count
  BY DEF SeatInv
<1>1. ~doubled /\ Cardinality(Seats) <= event.count
  BY OneCancel DEF SeatInv
<1>2. CASE \E w \in Workers : RsvpSettle(w)
  BY <1>1, <1>2, OneCancel, SeatRsvp
<1>3. CASE \E w \in Workers : CancelSettle(w)
  BY <1>1, <1>3, OneCancel, SeatCancel
<1>4. CASE \A w \in Workers : ~RsvpSettle(w) /\ ~CancelSettle(w)
  BY <1>1, <1>4, OneCancel, SeatFrame, SeatsShrink
<1> QED BY <1>2, <1>3, <1>4

(* attendee_count covers every registered member as long as no member's *)
(* cancellation was ever sent twice at once.                            *)
THEOREM SeatsBacked == Spec => []SeatsBackedByCount
<1>1. TypeOK /\ SeatInv => SeatsBackedByCount
  <2> SUFFICES ASSUME TypeOK, SeatInv, ~doubled PROVE Cardinality(Registered) <= event.count
    BY DEF SeatsBackedByCount, CountCoversRegistered
  <2>1. /\ Cardinality(Registered) <= Cardinality(Seats)
        /\ Cardinality(Registered) \in Nat /\ Cardinality(Seats) \in Nat
    BY SeatsFinite, FS_Subset, FS_CardinalityType DEF Seats
  <2> QED BY <2>1 DEF SeatInv, TypeOK, EventRow
<1> QED
  BY <1>1, PickHeld, TypeInit, TypeStep, SeatInit, SeatStep, PTL DEF Spec

(* No RSVP overbooks the event, for any number of members and requests and *)
(* whatever limits the creator sets meanwhile: the seats are backed by the *)
(* counter, and the counter rises only below the limit.                    *)
THEOREM NoRsvpOverbooks == Spec => SeatsWithinLimit
<1>1. ASSUME TypeOK, TypeOK', SeatsBackedByCount', event'.count > event.count, ~doubled',
             event.limit = NoLimit \/ event'.count <= event.limit
      PROVE  event.limit = NoLimit \/ Cardinality(Registered') <= event.limit
  <2>1. Cardinality(Registered') \in Nat
    <3>1. IsFiniteSet(Registered')
      BY RsvpConstants, FS_Subset DEF Registered
    <3> QED BY <3>1, FS_CardinalityType
  <2>2. event'.count \in Nat /\ event.limit \in Nat \cup {NoLimit}
    BY <1>1, RsvpConstants DEF TypeOK, EventRow
  <2>3. Cardinality(Registered') <= event'.count
    BY <1>1 DEF SeatsBackedByCount, CountCoversRegistered
  <2> QED BY <1>1, <2>1, <2>2, <2>3
<1>2. TypeOK /\ TypeOK' /\ SeatsBackedByCount'
        /\ [event'.count > event.count
              => event.limit = NoLimit \/ event'.count <= event.limit]_vars
      => [event'.count > event.count /\ ~doubled'
            => event.limit = NoLimit \/ Cardinality(Registered') <= event.limit]_vars
  BY <1>1 DEF vars
<1> QED BY <1>2, TypeCorrect, SeatsBacked, CountBelowLimit, PTL
          DEF CountRisesOnlyBelowLimit, SeatsWithinLimit

-------------------------------------------------------------------------------
(* The recording of the event. *)

(* The steps of RecordingNext, by run, and the two that are time's. *)
LEMMA RecordingCases ==
  ASSUME [RecordingNext]_recordingVars
  PROVE  \/ \E r \in Runs :
              \/ Delivered(r) \/ MirrorList(r) \/ CleanupList(r)
              \/ PreserveCheck(r) \/ Report(r) \/ MirrorPut(r)
              \/ MirrorRecord(r) \/ MirrorFail(r) \/ Delete(r)
              \/ Forget(r) \/ Preserve(r) \/ Stop(r)
         \/ RetryComes \/ Expires
         \/ UNCHANGED recordingVars
  BY DEF RecordingNext, Go

LEMMA RetryCounts ==
  /\ 0 \in 0 .. MaxRetry - 1
  /\ \A n \in 0 .. MaxRetry - 1 : n + 1 >= MaxRetry \/ n + 1 \in 0 .. MaxRetry - 1
  BY RecordingConstants

LEMMA RecordingTypeInit == RecordingInit => RecordingTypeOK
<1> SUFFICES ASSUME RecordingInit PROVE RecordingTypeOK
  OBVIOUS
<1>1. recording \in Recording
  BY RetryCounts DEF RecordingInit, Recording
<1> QED
  BY <1>1 DEF RecordingInit, RecordingTypeOK, RunLabels

(* A run keeps the row it has read, so the count it writes after a failure *)
(* is one more than a count below the limit.                               *)
LEMMA RecordingTypeStep ==
  ASSUME RecordingTypeOK, [RecordingNext]_recordingVars
  PROVE  RecordingTypeOK'
<1> USE DEF RecordingTypeOK
<1>1. ASSUME NEW r \in Runs, NEW label \in RunLabels, StartRun(r, label)
      PROVE  at' \in [Runs -> RunLabels] /\ seen' \in [Runs -> SUBSET Recording]
  BY <1>1 DEF StartRun
<1>2. ASSUME NEW r \in Runs, NEW label \in RunLabels, Proceed(r, label)
      PROVE  at' \in [Runs -> RunLabels] /\ seen' \in [Runs -> SUBSET Recording]
  BY <1>2 DEF Proceed
<1>3. ASSUME NEW r \in Runs, EndRun(r)
      PROVE  at' \in [Runs -> RunLabels] /\ seen' \in [Runs -> SUBSET Recording]
  BY <1>3 DEF EndRun, RunLabels
<1>4. ASSUME NEW r \in Runs,
             Delivered(r) \/ MirrorList(r) \/ CleanupList(r) \/ PreserveCheck(r)
      PROVE  RecordingTypeOK'
  BY <1>1, <1>4
     DEF Delivered, MirrorList, CleanupList, PreserveCheck, RunLabels
<1>5. ASSUME NEW r \in Runs, Report(r) PROVE RecordingTypeOK'
  BY <1>3, <1>5 DEF Report, Recording
<1>6. ASSUME NEW r \in Runs, MirrorPut(r) PROVE RecordingTypeOK'
  BY <1>2, <1>6 DEF MirrorPut, RunLabels
<1>7. ASSUME NEW r \in Runs, MirrorRecord(r) PROVE RecordingTypeOK'
  <2>1. recording' \in Recording
    BY <1>7, RetryCounts DEF MirrorRecord, Recording
  <2> QED BY <1>3, <1>7, <2>1 DEF MirrorRecord
<1>8. ASSUME NEW r \in Runs, MirrorFail(r) PROVE RecordingTypeOK'
  <2>1. PICK row \in seen[r] :
          recording' = IF row.retries + 1 >= MaxRetry
                       THEN [recording EXCEPT !.status = "lost", !.url = FALSE, !.mirror = FALSE]
                       ELSE [recording EXCEPT !.retries = row.retries + 1, !.waiting = TRUE]
    BY <1>8 DEF MirrorFail
  <2>2. row.retries + 1 >= MaxRetry \/ row.retries + 1 \in 0 .. MaxRetry - 1
    <3>1. row.retries \in 0 .. MaxRetry - 1
      BY DEF Recording
    <3> QED BY <3>1, RetryCounts
  <2>3. recording' \in Recording
    <3>1. CASE row.retries + 1 >= MaxRetry
      BY <2>1, <3>1 DEF Recording
    <3>2. CASE ~(row.retries + 1 >= MaxRetry)
      <4>1. row.retries + 1 \in 0 .. MaxRetry - 1
        BY <2>2, <3>2
      <4>2. recording' = [recording EXCEPT !.retries = row.retries + 1, !.waiting = TRUE]
        BY <2>1, <3>2
      <4> HIDE <2>1
      <4> QED BY <4>1, <4>2 DEF Recording
    <3> QED BY <3>1, <3>2
  <2> QED BY <1>3, <1>8, <2>3 DEF MirrorFail
<1>9. ASSUME NEW r \in Runs, Delete(r) PROVE RecordingTypeOK'
  BY <1>2, <1>9 DEF Delete, RunLabels
<1>10. ASSUME NEW r \in Runs, Forget(r) PROVE RecordingTypeOK'
  BY <1>3, <1>10 DEF Forget, Recording
<1>11. ASSUME NEW r \in Runs, Preserve(r) PROVE RecordingTypeOK'
  BY <1>3, <1>11 DEF Preserve, Recording
<1>12. ASSUME NEW r \in Runs, Stop(r) PROVE RecordingTypeOK'
  BY <1>3, <1>12 DEF Stop
<1>13. RetryComes \/ Expires => RecordingTypeOK'
  BY DEF RetryComes, Expires, Recording
<1>14. UNCHANGED recordingVars => RecordingTypeOK'
  BY DEF recordingVars
<1> QED
  BY <1>4, <1>5, <1>6, <1>7, <1>8, <1>9, <1>10, <1>11, <1>12, <1>13, <1>14, RecordingCases

(* The types of the recording's columns, and that it is given up before    *)
(* its failures reach the limit, whichever runs overlap.                   *)
THEOREM RecordingTypeCorrect == RecordingSpec => []RecordingTypeOK
<1> QED
  BY RecordingTypeInit, RecordingTypeStep, PTL DEF RecordingSpec

(* What a run has read fits where it stands. *)
ReadFits ==
  \A r \in Runs : \A row \in seen[r] :
    /\ at[r] = "report" => ~row.url
    /\ Mirroring(r) => row.status = "mirroring" /\ row.url
    /\ at[r] \in {"delete", "forget"} => row.mirror /\ row.expires = "past"
    /\ at[r] = "preserve" => row.mirror

(* Reporting and mirroring are over before anything expires, and cleaning  *)
(* up starts after: who enters a mirror has put the object there, and no   *)
(* cleanup has taken it away since.                                        *)
AgesOrdered ==
  /\ recording.expires = "past" => ~reporting
  /\ ~reporting => recording.status # "mirroring"
  /\ \A r \in Runs :
       /\ at[r] = "report" \/ Mirroring(r) => reporting
       /\ at[r] \in {"delete", "forget"} => ~reporting
       /\ at[r] = "record" => object

(* No row was written over: a mirror that is entered has its source too,   *)
(* and is not mirrored again.                                              *)
MirrorSettled ==
  ~slipped => (recording.mirror => recording.url /\ recording.status # "mirroring")

RecordingInv == ReadFits /\ AgesOrdered /\ MirrorSettled /\ KeptUnlessSlipped

LEMMA RecordingInvInit == RecordingInit => RecordingInv
  BY DEF RecordingInit, RecordingInv, ReadFits, AgesOrdered, MirrorSettled, KeptUnlessSlipped, Mirroring

LEMMA RecordingLabels ==
  ASSUME RecordingTypeOK, NEW r \in Runs
  PROVE  /\ \A label \in RunLabels : StartRun(r, label) =>
              /\ at[r] = "idle" /\ at'[r] = label /\ seen'[r] = {recording}
              /\ \A v \in Runs \ {r} : at'[v] = at[v] /\ seen'[v] = seen[v]
         /\ \A label \in RunLabels : Proceed(r, label) =>
              /\ at'[r] = label /\ seen' = seen
              /\ \A v \in Runs \ {r} : at'[v] = at[v]
         /\ EndRun(r) =>
              /\ at'[r] = "idle" /\ seen'[r] = {}
              /\ \A v \in Runs \ {r} : at'[v] = at[v] /\ seen'[v] = seen[v]
  BY DEF RecordingTypeOK, StartRun, Proceed, EndRun

LEMMA ReadFitsStep ==
  ASSUME RecordingTypeOK, ReadFits, [RecordingNext]_recordingVars
  PROVE  ReadFits'
<1> USE DEF ReadFits, Mirroring, RunLabels
<1>1. ASSUME NEW r \in Runs, EndRun(r) PROVE ReadFits'
  BY <1>1, RecordingLabels
<1>2. ASSUME NEW r \in Runs, Delivered(r) PROVE ReadFits'
  BY <1>2, RecordingLabels DEF Delivered
<1>3. ASSUME NEW r \in Runs, MirrorList(r) PROVE ReadFits'
  BY <1>3, RecordingLabels DEF MirrorList, RetryIsDue
<1>4. ASSUME NEW r \in Runs, CleanupList(r) PROVE ReadFits'
  BY <1>4, RecordingLabels DEF CleanupList, Expired
<1>5. ASSUME NEW r \in Runs, PreserveCheck(r) PROVE ReadFits'
  BY <1>5, RecordingLabels DEF PreserveCheck
<1>6. ASSUME NEW r \in Runs, MirrorPut(r) PROVE ReadFits'
  BY <1>6, RecordingLabels DEF MirrorPut
<1>7. ASSUME NEW r \in Runs, Delete(r) PROVE ReadFits'
  BY <1>7, RecordingLabels DEF Delete
<1>8. UNCHANGED <<at, seen>> => ReadFits'
  OBVIOUS
<1> QED
  BY <1>1, <1>2, <1>3, <1>4, <1>5, <1>6, <1>7, <1>8, RecordingCases
     DEF Report, MirrorRecord, MirrorFail, Forget, Preserve, Stop,
         RetryComes, Expires, recordingVars

LEMMA AgesOrderedStep ==
  ASSUME RecordingTypeOK, ReadFits, AgesOrdered, [RecordingNext]_recordingVars
  PROVE  AgesOrdered'
<1> USE DEF AgesOrdered, Mirroring, RunLabels
<1>0. recording \in Recording /\ \A r \in Runs : at[r] \in RunLabels
  BY DEF RecordingTypeOK
<1>1. ASSUME NEW r \in Runs, Delivered(r) PROVE AgesOrdered'
  BY <1>1, RecordingLabels DEF Delivered
<1>2. ASSUME NEW r \in Runs, MirrorList(r) PROVE AgesOrdered'
  BY <1>2, RecordingLabels DEF MirrorList, RetryIsDue
<1>3. ASSUME NEW r \in Runs, CleanupList(r) PROVE AgesOrdered'
  BY <1>3, RecordingLabels DEF CleanupList, Expired
<1>4. ASSUME NEW r \in Runs, PreserveCheck(r) PROVE AgesOrdered'
  BY <1>4, RecordingLabels DEF PreserveCheck
<1>5. ASSUME NEW r \in Runs, Report(r) PROVE AgesOrdered'
  BY <1>0, <1>5, RecordingLabels DEF Report, Recording
<1>6. ASSUME NEW r \in Runs, MirrorPut(r) PROVE AgesOrdered'
  BY <1>6, RecordingLabels DEF MirrorPut
<1>7. ASSUME NEW r \in Runs, MirrorRecord(r) PROVE AgesOrdered'
  BY <1>0, <1>7, RecordingLabels DEF MirrorRecord, Recording
<1>8. ASSUME NEW r \in Runs, MirrorFail(r) PROVE AgesOrdered'
  <2>1. /\ recording'.expires = recording.expires
        /\ recording'.status \in {recording.status, "lost"}
    BY <1>0, <1>8 DEF MirrorFail, Recording
  <2> QED BY <1>8, <2>1, RecordingLabels DEF MirrorFail
<1>9. ASSUME NEW r \in Runs, Delete(r) PROVE AgesOrdered'
  BY <1>9, RecordingLabels DEF Delete
<1>10. ASSUME NEW r \in Runs, Forget(r) PROVE AgesOrdered'
  BY <1>0, <1>10, RecordingLabels DEF Forget, Recording
<1>11. ASSUME NEW r \in Runs, Preserve(r) PROVE AgesOrdered'
  BY <1>0, <1>11, RecordingLabels DEF Preserve, Recording
<1>12. ASSUME NEW r \in Runs, Stop(r) PROVE AgesOrdered'
  BY <1>12, RecordingLabels DEF Stop
<1>13. RetryComes => AgesOrdered'
  BY <1>0 DEF RetryComes, Recording
<1>14. Expires => AgesOrdered'
  BY <1>0 DEF Expires, Recording
<1>15. UNCHANGED recordingVars => AgesOrdered'
  BY DEF recordingVars
<1> QED
  BY <1>1, <1>2, <1>3, <1>4, <1>5, <1>6, <1>7, <1>8, <1>9, <1>10, <1>11, <1>12, <1>13,
     <1>14, <1>15, RecordingCases

LEMMA RecordingStep ==
  ASSUME RecordingTypeOK, RecordingInv, [RecordingNext]_recordingVars
  PROVE  RecordingInv'
<1> DEFINE Safe == MirrorSettled /\ KeptUnlessSlipped
<1> USE DEF MirrorSettled, KeptUnlessSlipped
<1>0. recording \in Recording /\ (\A r \in Runs : at[r] \in RunLabels)
      /\ ReadFits /\ AgesOrdered /\ Safe
  BY DEF RecordingTypeOK, RecordingInv
<1>1. ASSUME NEW r \in Runs,
             Delivered(r) \/ MirrorList(r) \/ CleanupList(r) \/ PreserveCheck(r)
      PROVE  Safe'
  <2>1. PICK label \in RunLabels \ {"forget"} : StartRun(r, label)
    BY <1>1 DEF Delivered, MirrorList, CleanupList, PreserveCheck, RunLabels
  <2>2. \A v \in Runs : at[v] = "forget" => at'[v] = "forget"
    BY <2>1, RecordingLabels
  <2> QED BY <1>0, <1>1, <2>2
          DEF Delivered, MirrorList, CleanupList, PreserveCheck
<1>2. ASSUME NEW r \in Runs, Report(r) PROVE Safe'
  <2>1. ~slipped' => ~slipped /\ ~recording.url
    BY <1>0, <1>2 DEF Report, Stale, ReadFits
  <2>2. ~slipped' => ~recording'.mirror /\ ~kept'
    BY <1>0, <1>2, <2>1 DEF Report, Recording
  <2> QED BY <1>2, <2>2 DEF Report
<1>3. ASSUME NEW r \in Runs, MirrorPut(r) PROVE Safe'
  <2>1. \A v \in Runs : at[v] = "forget" => at'[v] = "forget"
    BY <1>3, RecordingLabels DEF MirrorPut, RunLabels
  <2> QED BY <1>0, <1>3, <2>1 DEF MirrorPut
<1>4. ASSUME NEW r \in Runs, MirrorRecord(r) PROVE Safe'
  <2>1. ~slipped' => ~slipped /\ recording.status = "mirroring" /\ recording.url
    BY <1>0, <1>4 DEF MirrorRecord, Stale, ReadFits, Mirroring
  <2>2. ~slipped' => ~kept' /\ object'
    BY <1>0, <1>4, <2>1 DEF MirrorRecord, AgesOrdered
  <2> QED BY <1>0, <1>4, <2>1, <2>2 DEF MirrorRecord, Recording
<1>5. ASSUME NEW r \in Runs, MirrorFail(r) PROVE Safe'
  <2>1. ~slipped' => ~slipped /\ recording.status = "mirroring"
    BY <1>0, <1>5 DEF MirrorFail, Stale, ReadFits, Mirroring
  <2>2. ~slipped' => ~recording.mirror /\ ~kept'
    BY <1>0, <1>5, <2>1 DEF MirrorFail
  <2>3. recording'.mirror => recording.mirror
    BY <1>0, <1>5 DEF MirrorFail, Recording
  <2> QED BY <2>2, <2>3
<1>6. ASSUME NEW r \in Runs, Delete(r) PROVE Safe'
  <2>1. at'[r] = "forget"
    BY <1>6, RecordingLabels DEF Delete, RunLabels
  <2> QED BY <1>0, <1>6, <2>1 DEF Delete
<1>7. ASSUME NEW r \in Runs, Forget(r) PROVE Safe'
  <2>1. ~slipped' => ~slipped /\ recording.expires = "past"
    BY <1>0, <1>7 DEF Forget, Stale, ReadFits
  <2>2. ~recording'.mirror
    BY <1>0, <1>7 DEF Forget, Recording
  <2>3. ~slipped' => ~kept'
    BY <1>0, <1>7, <2>1 DEF Forget
  <2> QED BY <2>2, <2>3
<1>8. ASSUME NEW r \in Runs, Preserve(r) PROVE Safe'
  <2>1. ~slipped' => ~slipped /\ recording.mirror
    BY <1>0, <1>8 DEF Preserve, Stale, ReadFits
  <2>2. recording' = [recording EXCEPT !.expires = "none"] /\ object' = object
    BY <1>8 DEF Preserve
  <2>3. \A v \in Runs : at[v] = "forget" => at'[v] = "forget"
    BY <1>8, RecordingLabels DEF Preserve
  <2> QED BY <1>0, <2>1, <2>2, <2>3 DEF Recording
<1>9. ASSUME NEW r \in Runs, Stop(r) PROVE Safe'
  <2>1. ~slipped' => ~slipped /\ at[r] # "forget"
    BY <1>9 DEF Stop
  <2>2. ~slipped' => \A v \in Runs : at[v] = "forget" => at'[v] = "forget"
    BY <1>9, <2>1, RecordingLabels DEF Stop
  <2> QED BY <1>0, <1>9, <2>1, <2>2 DEF Stop
<1>10. RetryComes \/ Expires => Safe'
  <2> SUFFICES ASSUME RetryComes \/ Expires PROVE Safe'
    OBVIOUS
  <2>1. /\ recording'.mirror = recording.mirror /\ recording'.url = recording.url
        /\ recording'.status = recording.status
        /\ recording'.expires # recording.expires => recording.expires = "later"
    BY <1>0 DEF RetryComes, Expires, Recording
  <2> QED BY <1>0, <2>1 DEF RetryComes, Expires
<1>11. UNCHANGED recordingVars => Safe'
  BY <1>0 DEF recordingVars
<1>12. Safe'
  BY <1>1, <1>2, <1>3, <1>4, <1>5, <1>6, <1>7, <1>8, <1>9, <1>10, <1>11, RecordingCases
<1> QED
  BY <1>0, <1>12, ReadFitsStep, AgesOrderedStep DEF RecordingInv

(* A mirror that is entered can be played and a recording that was         *)
(* preserved stays, unless a cleanup is half done or a row was written over*)
(* that had changed since it was read.                                     *)
THEOREM RecordingKept == RecordingSpec => []KeptUnlessSlipped
<1>1. RecordingInit => RecordingTypeOK /\ RecordingInv
  BY RecordingTypeInit, RecordingInvInit
<1>2. RecordingTypeOK /\ RecordingInv /\ [RecordingNext]_recordingVars
        => RecordingTypeOK' /\ RecordingInv'
  BY RecordingTypeStep, RecordingStep
<1>3. RecordingInv => KeptUnlessSlipped
  BY DEF RecordingInv
<1> QED
  BY <1>1, <1>2, <1>3, PTL DEF RecordingSpec

LEMMA RemovalStep ==
  ASSUME RecordingTypeOK, RecordingInv, [RecordingNext]_recordingVars,
         (object /\ ~object') \/ (recording.mirror /\ ~recording'.mirror), ~slipped'
  PROVE  recording.expires = "past"
<1>0. recording \in Recording /\ ReadFits /\ (~slipped => MirrorSettled)
  BY DEF RecordingTypeOK, RecordingInv
<1>1. ASSUME NEW r \in Runs, Delete(r) \/ Forget(r) PROVE recording.expires = "past"
  BY <1>0, <1>1 DEF Delete, Forget, Stale, ReadFits
<1>2. ASSUME NEW r \in Runs, MirrorFail(r) PROVE FALSE
  <2>1. ~slipped /\ recording.status = "mirroring" /\ object' = object
    BY <1>0, <1>2 DEF MirrorFail, Stale, ReadFits, Mirroring
  <2> QED BY <1>0, <2>1 DEF MirrorSettled
<1>3. ASSUME NEW r \in Runs,
             \/ Delivered(r) \/ MirrorList(r) \/ CleanupList(r) \/ PreserveCheck(r)
             \/ Report(r) \/ MirrorPut(r) \/ MirrorRecord(r) \/ Preserve(r) \/ Stop(r)
      PROVE  FALSE
  <2>1. (object => object') /\ recording'.mirror \in {recording.mirror, TRUE}
    BY <1>0, <1>3 DEF Delivered, MirrorList, CleanupList, PreserveCheck, Report, MirrorPut,
                      MirrorRecord, Preserve, Stop, Recording
  <2> QED BY <1>0, <2>1 DEF Recording
<1>4. ASSUME RetryComes \/ Expires \/ UNCHANGED recordingVars PROVE FALSE
  <2>1. object' = object /\ recording'.mirror = recording.mirror
    BY <1>0, <1>4 DEF RetryComes, Expires, recordingVars, Recording
  <2> QED BY <2>1
<1> QED BY <1>1, <1>2, <1>3, <1>4, RecordingCases

(* What can be played stays so for its ninety days: only the cleanup takes *)
(* the object or the mirror away, and of what has expired, whichever mirror*)
(* runs fail late beside it, unless a row was written over.                *)
THEOREM RemovedLate == RecordingSpec => RemovedOnlyWhenExpired
<1>1. RecordingInit => RecordingTypeOK /\ RecordingInv
  BY RecordingTypeInit, RecordingInvInit
<1>2. RecordingTypeOK /\ RecordingInv /\ [RecordingNext]_recordingVars
        => RecordingTypeOK' /\ RecordingInv'
  BY RecordingTypeStep, RecordingStep
<1>3. RecordingTypeOK /\ RecordingInv /\ [RecordingNext]_recordingVars =>
        [(object /\ ~object') \/ (recording.mirror /\ ~recording'.mirror)
           => slipped' \/ recording.expires = "past"]_recordingVars
  BY RemovalStep
<1> QED BY <1>1, <1>2, <1>3, PTL DEF RecordingSpec, RemovedOnlyWhenExpired
===============================================================================
