----------------------------- MODULE AccountsProofs -----------------------------
(***************************************************************************)
(* Proofs about Accounts for any number of workers and suspensions, every  *)
(* kind of request and requests without bound.                             *)
(***************************************************************************)
EXTENDS Accounts, TLAPS

(* The steps of one worker, and those of time. *)
LEMMA NextCases ==
  ASSUME Next
  PROVE  \/ \E w \in Workers :
              \/ ConsumeLink(w) \/ Verify(w) \/ ResendCheck(w) \/ Resend(w)
              \/ \E to \in Decisions : DecideCheck(w, to)
              \/ UndoCheck(w) \/ Decide(w)
         \/ \E w \in Workers :
              \/ SuspendCheck(w) \/ Suspend(w) \/ BanCheck(w) \/ Ban(w) \/ Invalidate(w)
              \/ \E s \in Ids : LiftFind(w, s)
              \/ LiftCheck(w) \/ Lift(w)
         \/ \E w \in Workers :
              \/ JobList(w)
              \/ \E s \in Ids : JobCheck(w, s)
              \/ JobLift(w) \/ JobExpire(w) \/ JobInvalidate(w) \/ JobDone(w)
         \/ \E w \in Workers :
              \/ DeleteCheck(w) \/ Delete(w) \/ DeleteToken(w)
              \/ CancelFind(w) \/ CancelCheck(w) \/ Cancel(w) \/ CancelToken(w)
              \/ EraseList(w) \/ Erase(w) \/ Scrub(w)
         \/ \E w \in Workers : FillMiss(w) \/ FillRead(w) \/ FillSet(w) \/ Stop(w)
         \/ \E s \in Ids : SuspensionEnds(s)
         \/ GraceEnds \/ LinkExpires \/ TokenExpires \/ CacheExpires
  BY Zenon DEF Next, Admissions, Discipline, JobStep, Deletion, Guard, Time

-------------------------------------------------------------------------------
(* Workers: what a step that moves one of them makes of pc and req. *)
WorkersOK == pc \in [Workers -> Labels] /\ req \in [Workers -> Held]
WorkersFit == \A w \in Workers : ReadFits(w) /\ ToFits(w)
DataOK ==
  /\ user \in Rows
  /\ susp \in [Ids -> {"none", "running", "over", "expired", "lifted"}]
  /\ scrubbed \in BOOLEAN /\ link \in BOOLEAN /\ token \in BOOLEAN
  /\ raced \in BOOLEAN /\ banned \in BOOLEAN /\ escaped \in BOOLEAN /\ excused \in BOOLEAN
  /\ cache \in Status \cup {"none"}

LEMMA TypeParts == TypeInv <=> DataOK /\ WorkersOK /\ WorkersFit
  BY DEF TypeInv, TypeOK, DataOK, WorkersOK, WorkersFit

LEMMA HeldValues ==
  /\ NoRequest \in Held /\ NoRequest.seen = {}
  /\ \A u \in Rows, cur \in SUBSET Ids, to \in Status \cup {"none"} :
       /\ Saw(u) \in Held /\ Saw(u).seen = {u}
       /\ [Saw(u) EXCEPT !.to = to] \in Held
       /\ [Saw(u) EXCEPT !.to = to].seen = {u}
       /\ [Saw(u) EXCEPT !.to = to].to = to
       /\ [Saw(u) EXCEPT !.cur = cur] \in Held
       /\ [Saw(u) EXCEPT !.cur = cur].seen = {u}
  /\ \A cur \in SUBSET Ids : /\ [NoRequest EXCEPT !.cur = cur] \in Held
                             /\ [NoRequest EXCEPT !.cur = cur].seen = {}
  /\ \A list \in SUBSET Ids : /\ [NoRequest EXCEPT !.list = list] \in Held
                              /\ [NoRequest EXCEPT !.list = list].seen = {}
  /\ \A to \in Status : /\ [NoRequest EXCEPT !.to = to] \in Held
                        /\ [NoRequest EXCEPT !.to = to].seen = {}
  BY DEF NoRequest, Held, Saw, Holding

(* A worker goes to a label that has read nothing that matters there. *)
LEMMA GotoBlank ==
  ASSUME WorkersOK, WorkersFit, NEW w \in Workers, NEW label \in Labels \ {"decide"},
         NEW r \in Held, r.seen = {}, Goto(w, label, r)
  PROVE  WorkersOK' /\ WorkersFit'
<1>1. WorkersOK'
  BY DEF WorkersOK, Goto
<1>2. \A v \in Workers : pc'[v] = (IF v = w THEN label ELSE pc[v])
                          /\ req'[v] = (IF v = w THEN r ELSE req[v])
  BY DEF WorkersOK, Goto
<1>3. WorkersFit'
  BY <1>2 DEF WorkersFit, ReadFits, ToFits
<1> QED BY <1>1, <1>3

(* A worker goes to a label with the row it has just read. *)
LEMMA GotoSeen ==
  ASSUME WorkersOK, WorkersFit, NEW w \in Workers, NEW label \in Labels, NEW r \in Held,
         r.seen = {user}, Goto(w, label, r),
         ~user.deleted \/ label = "erase",
         label = "decide" => /\ user.status \in Decisions \cup {"PENDING_APPROVAL"}
                             /\ r.to \in Decisions \cup {"PENDING_APPROVAL"},
         label \in {"lift", "job_lift"} => user.status = "SUSPENDED",
         label = "delete" => user.status \notin DeletionBlocked,
         label = "cancel" => user.status = "PENDING_DELETION",
         label = "erase" => user.status = "PENDING_DELETION" /\ user.due = "past"
  PROVE  WorkersOK' /\ WorkersFit'
<1>1. WorkersOK'
  BY DEF WorkersOK, Goto
<1>2. \A v \in Workers : pc'[v] = (IF v = w THEN label ELSE pc[v])
                          /\ req'[v] = (IF v = w THEN r ELSE req[v])
  BY DEF WorkersOK, Goto
<1>3. WorkersFit'
  BY <1>2 DEF WorkersFit, ReadFits, ToFits
<1> QED BY <1>1, <1>3

-------------------------------------------------------------------------------
LEMMA StatusNames ==
  /\ {"PENDING_APPROVAL", "APPROVED", "SUSPENDED", "BANNED", "PENDING_DELETION",
      "ANONYMIZED"} \subseteq Status
  /\ Decisions \subseteq Status
  BY DEF Status, Decisions, DeletionBlocked, Disciplined

(* The rows the UPDATEs make of a row. *)
LEMMA RowsMade ==
  ASSUME DataOK, NEW s \in Status
  PROVE  /\ WithStatus(s) \in Rows
         /\ [user EXCEPT !.status = s, !.due = "future"] \in Rows
         /\ [user EXCEPT !.status = s, !.due = "none"] \in Rows
         /\ [user EXCEPT !.status = s, !.deleted = TRUE] \in Rows
         /\ \A m \in BOOLEAN : [user EXCEPT !.status = s, !.member = @ \/ m] \in Rows
  BY DEF DataOK, WithStatus, Rows

LEMMA InitType == Init => TypeInv
<1> SUFFICES ASSUME Init PROVE DataOK /\ WorkersOK /\ WorkersFit
  BY TypeParts
<1>1. DataOK
  BY DEF Init, DataOK, Rows, Status
<1>2. WorkersOK
  BY HeldValues DEF Init, WorkersOK, Labels
<1>3. WorkersFit
  BY HeldValues DEF Init, WorkersFit, ReadFits, ToFits
<1> QED BY <1>1, <1>2, <1>3

LEMMA AdmissionsType ==
  ASSUME TypeInv, NEW w \in Workers,
         \/ ConsumeLink(w) \/ Verify(w) \/ ResendCheck(w) \/ Resend(w)
         \/ \E to \in Decisions : DecideCheck(w, to)
         \/ UndoCheck(w) \/ Decide(w)
  PROVE  TypeInv'
<1> SUFFICES DataOK' /\ WorkersOK' /\ WorkersFit'
  BY TypeParts DEF TypeInv, TypeOK, DataOK, WorkersOK, WorkersFit
<1>t. DataOK /\ WorkersOK /\ WorkersFit
  BY TypeParts
<1>1. CASE ConsumeLink(w)
  <2>1. WorkersOK' /\ WorkersFit'
    BY <1>t, <1>1, HeldValues, GotoBlank DEF ConsumeLink, Labels
  <2>2. DataOK'
    BY <1>t, <1>1 DEF ConsumeLink, DataOK, history
  <2> QED BY <2>1, <2>2
<1>2. CASE Verify(w)
  <2>1. WorkersOK' /\ WorkersFit'
    BY <1>t, <1>2, HeldValues, GotoBlank DEF Verify, Finish, Labels
  <2>2. DataOK'
    <3>1. user' \in Rows
      BY <1>t, <1>2, RowsMade, StatusNames DEF Verify, DataOK
    <3> QED BY <1>t, <1>2, <3>1 DEF Verify, DataOK
  <2> QED BY <2>1, <2>2
<1>3. CASE ResendCheck(w)
  <2>1. WorkersOK' /\ WorkersFit'
    BY <1>t, <1>3, HeldValues, GotoBlank DEF ResendCheck, Labels
  <2>2. DataOK'
    BY <1>t, <1>3 DEF ResendCheck, DataOK, db, history
  <2> QED BY <2>1, <2>2
<1>4. CASE Resend(w)
  <2>1. WorkersOK' /\ WorkersFit'
    BY <1>t, <1>4, HeldValues, GotoBlank DEF Resend, Finish, Labels
  <2>2. DataOK'
    BY <1>t, <1>4 DEF Resend, DataOK, history
  <2> QED BY <2>1, <2>2
<1>5. ASSUME NEW to \in Decisions, DecideCheck(w, to) PROVE DataOK' /\ WorkersOK' /\ WorkersFit'
  <2> DEFINE r == [Saw(user) EXCEPT !.to = to]
  <2>a. r \in Held /\ r.seen = {user} /\ r.to = to
    BY <1>t, <1>5, StatusNames DEF DataOK, Saw, Holding, Held
  <2>1. WorkersOK' /\ WorkersFit'
    <3> HIDE DEF r
    <3> QED BY <1>t, <1>5, <2>a, GotoSeen DEF DecideCheck, Labels, r
  <2>2. DataOK'
    BY <1>t, <1>5 DEF DecideCheck, DataOK, db, history
  <2> QED BY <2>1, <2>2
<1>6. CASE UndoCheck(w)
  <2> DEFINE r == [Saw(user) EXCEPT !.to = "PENDING_APPROVAL"]
  <2>a. r \in Held /\ r.seen = {user} /\ r.to = "PENDING_APPROVAL"
    BY <1>t, StatusNames DEF DataOK, Saw, Holding, Held
  <2>1. WorkersOK' /\ WorkersFit'
    <3> HIDE DEF r
    <3> QED BY <1>t, <1>6, <2>a, GotoSeen DEF UndoCheck, Labels, r
  <2>2. DataOK'
    BY <1>t, <1>6 DEF UndoCheck, DataOK, db, history
  <2> QED BY <2>1, <2>2
<1>7. CASE Decide(w)
  <2>1. WorkersOK' /\ WorkersFit'
    BY <1>t, <1>7, HeldValues, GotoBlank DEF Decide, Finish, Labels
  <2>2. req[w].to \in Status
    BY <1>t, <1>7, StatusNames DEF Decide, WorkersFit, ToFits
  <2>3. user' \in Rows
    BY <1>t, <1>7, <2>2, RowsMade DEF Decide, DataOK, Write
  <2>4. raced' \in BOOLEAN
    BY <1>t, <1>7 DEF Decide, DataOK, Write
  <2> QED BY <1>t, <1>7, <2>1, <2>3, <2>4 DEF Decide, DataOK
<1> QED BY <1>1, <1>2, <1>3, <1>4, <1>5, <1>6, <1>7

(* A worker goes on with what it has read. *)
LEMMA GotoOn ==
  ASSUME WorkersOK, WorkersFit, NEW w \in Workers, NEW r \in Held, r.seen = req[w].seen,
         NEW label \in Labels \ {"decide", "lift", "job_lift", "delete", "cancel", "erase"},
         pc[w] # "erase", Goto(w, label, r)
  PROVE  WorkersOK' /\ WorkersFit'
<1>1. WorkersOK'
  BY DEF WorkersOK, Goto
<1>2. \A v \in Workers : pc'[v] = (IF v = w THEN label ELSE pc[v])
                          /\ req'[v] = (IF v = w THEN r ELSE req[v])
  BY DEF WorkersOK, Goto
<1>3. WorkersFit'
  BY <1>2 DEF WorkersFit, ReadFits, ToFits
<1> QED BY <1>1, <1>3

LEMMA DisciplineType ==
  ASSUME TypeInv, NEW w \in Workers,
         \/ SuspendCheck(w) \/ Suspend(w) \/ BanCheck(w) \/ Ban(w) \/ Invalidate(w)
         \/ \E s \in Ids : LiftFind(w, s)
         \/ LiftCheck(w) \/ Lift(w)
  PROVE  TypeInv'
<1> SUFFICES DataOK' /\ WorkersOK' /\ WorkersFit'
  BY TypeParts DEF TypeInv, TypeOK, DataOK, WorkersOK, WorkersFit
<1>t. DataOK /\ WorkersOK /\ WorkersFit
  BY TypeParts
<1>1. CASE SuspendCheck(w)
  <2>a. Saw(user) \in Held /\ Saw(user).seen = {user}
    BY <1>t DEF DataOK, Saw, Holding, Held, Status
  <2>1. WorkersOK' /\ WorkersFit'
    BY <1>t, <1>1, <2>a, GotoSeen DEF SuspendCheck, Labels
  <2>2. DataOK'
    BY <1>t, <1>1 DEF SuspendCheck, DataOK, db, history
  <2> QED BY <2>1, <2>2
<1>2. CASE Suspend(w)
  <2>1. WorkersOK' /\ WorkersFit'
    BY <1>t, <1>2, HeldValues, GotoBlank DEF Suspend, Finish, Labels
  <2>2. DataOK'
    <3>1. user' \in Rows /\ raced' \in BOOLEAN
      BY <1>t, <1>2, RowsMade, StatusNames DEF Suspend, DataOK, Write
    <3> QED BY <1>t, <1>2, <3>1 DEF Suspend, DataOK
  <2> QED BY <2>1, <2>2
<1>3. CASE BanCheck(w)
  <2>a. Saw(user) \in Held /\ Saw(user).seen = {user}
    BY <1>t DEF DataOK, Saw, Holding, Held, Status
  <2>1. WorkersOK' /\ WorkersFit'
    BY <1>t, <1>3, <2>a, GotoSeen DEF BanCheck, Labels
  <2>2. DataOK'
    BY <1>t, <1>3 DEF BanCheck, DataOK, db, history
  <2> QED BY <2>1, <2>2
<1>4. CASE Ban(w)
  <2>1. WorkersOK' /\ WorkersFit'
    BY <1>t, <1>4, HeldValues, GotoBlank DEF Ban, Finish, Labels
  <2>2. DataOK'
    <3>1. user' \in Rows /\ raced' \in BOOLEAN
      BY <1>t, <1>4, RowsMade, StatusNames DEF Ban, DataOK, Write
    <3> QED BY <1>t, <1>4, <3>1 DEF Ban, DataOK
  <2> QED BY <2>1, <2>2
<1>5. CASE Invalidate(w)
  <2>1. WorkersOK' /\ WorkersFit'
    BY <1>t, <1>5, HeldValues, GotoBlank DEF Invalidate, Finish, Labels
  <2>2. DataOK'
    BY <1>t, <1>5 DEF Invalidate, DataOK, db, history
  <2> QED BY <2>1, <2>2
<1>6. ASSUME NEW s \in Ids, LiftFind(w, s) PROVE DataOK' /\ WorkersOK' /\ WorkersFit'
  <2> DEFINE r == [NoRequest EXCEPT !.cur = {s}]
  <2>a. r \in Held /\ r.seen = {}
    BY <1>t, <1>6, HeldValues DEF NoRequest, Holding, Held
  <2>1. WorkersOK' /\ WorkersFit'
    <3> HIDE DEF r
    <3> QED BY <1>t, <1>6, <2>a, GotoBlank DEF LiftFind, Labels, r
  <2>2. DataOK'
    BY <1>t, <1>6 DEF LiftFind, DataOK, db, history
  <2> QED BY <2>1, <2>2
<1>7. CASE LiftCheck(w)
  <2> DEFINE r == [Saw(user) EXCEPT !.cur = req[w].cur]
  <2>a. r \in Held /\ r.seen = {user}
    BY <1>t, <1>7 DEF DataOK, WorkersOK, Saw, Holding, Held, Status
  <2>1. WorkersOK' /\ WorkersFit'
    <3>b. CASE user.status = "SUSPENDED" /\ ~user.deleted
      <4>1. Goto(w, "lift", r)
        BY <1>7, <3>b DEF LiftCheck
      <4> HIDE DEF r
      <4> QED BY <1>t, <2>a, <3>b, <4>1, GotoSeen DEF Labels
    <3>c. CASE ~(user.status = "SUSPENDED" /\ ~user.deleted)
      BY <1>t, <1>7, <3>c, HeldValues, GotoBlank DEF LiftCheck, Finish, Labels
    <3> QED BY <3>b, <3>c
  <2>2. DataOK'
    BY <1>t, <1>7 DEF LiftCheck, DataOK, db, history
  <2> QED BY <2>1, <2>2
<1>8. CASE Lift(w)
  <2>1. WorkersOK' /\ WorkersFit'
    BY <1>t, <1>8, HeldValues, GotoBlank DEF Lift, Finish, Labels
  <2>2. DataOK'
    <3>1. user' \in Rows /\ raced' \in BOOLEAN
      BY <1>t, <1>8, RowsMade, StatusNames DEF Lift, DataOK, Write
    <3> QED BY <1>t, <1>8, <3>1 DEF Lift, DataOK
  <2> QED BY <2>1, <2>2
<1> QED BY <1>1, <1>2, <1>3, <1>4, <1>5, <1>6, <1>7, <1>8

LEMMA JobType ==
  ASSUME TypeInv, NEW w \in Workers,
         \/ JobList(w)
         \/ \E s \in Ids : JobCheck(w, s)
         \/ JobLift(w) \/ JobExpire(w) \/ JobInvalidate(w) \/ JobDone(w)
  PROVE  TypeInv'
<1> SUFFICES DataOK' /\ WorkersOK' /\ WorkersFit'
  BY TypeParts DEF TypeInv, TypeOK, DataOK, WorkersOK, WorkersFit
<1>t. DataOK /\ WorkersOK /\ WorkersFit
  BY TypeParts
<1>1. CASE JobList(w)
  <2> DEFINE r == [NoRequest EXCEPT !.list = Expiring]
  <2>a. r \in Held /\ r.seen = {}
    BY <1>t, <1>1, HeldValues DEF NoRequest, Holding, Held, Expiring
  <2>1. WorkersOK' /\ WorkersFit'
    <3> HIDE DEF r
    <3> QED BY <1>t, <1>1, <2>a, GotoBlank DEF JobList, Labels, r
  <2>2. DataOK'
    BY <1>t, <1>1 DEF JobList, DataOK, db, history
  <2> QED BY <2>1, <2>2
<1>2. ASSUME NEW s \in Ids, JobCheck(w, s) PROVE DataOK' /\ WorkersOK' /\ WorkersFit'
  <2> DEFINE rest == req[w].list \ {s}
             r == Holding({user}, rest, {s}, "none")
             q == [NoRequest EXCEPT !.list = rest]
  <2>a. r \in Held /\ r.seen = {user} /\ q \in Held /\ q.seen = {}
    BY <1>t, <1>2 DEF DataOK, WorkersOK, NoRequest, Holding, Held
  <2>1. WorkersOK' /\ WorkersFit'
    <3>b. CASE user.status = "SUSPENDED" /\ ~user.deleted
      <4>1. Goto(w, "job_lift", r)
        BY <1>2, <3>b DEF JobCheck
      <4> HIDE DEF r
      <4> QED BY <1>t, <2>a, <3>b, <4>1, GotoSeen DEF Labels
    <3>c. CASE ~(user.status = "SUSPENDED" /\ ~user.deleted)
      <4>1. Goto(w, "job", q)
        BY <1>2, <3>c DEF JobCheck
      <4> HIDE DEF q
      <4> QED BY <1>t, <2>a, <4>1, GotoBlank DEF Labels
    <3> QED BY <3>b, <3>c
  <2>2. DataOK'
    BY <1>t, <1>2 DEF JobCheck, DataOK, db, history
  <2> QED BY <2>1, <2>2
<1>3. CASE JobLift(w)
  <2> DEFINE r == [req[w] EXCEPT !.seen = {}]
  <2>a. r \in Held /\ r.seen = {}
    BY <1>t, <1>3, HeldValues DEF WorkersOK, Held
  <2>1. WorkersOK' /\ WorkersFit'
    <3> HIDE DEF r
    <3> QED BY <1>t, <1>3, <2>a, GotoBlank DEF JobLift, Labels, r
  <2>2. DataOK'
    <3>1. user' \in Rows /\ raced' \in BOOLEAN
      BY <1>t, <1>3, RowsMade, StatusNames DEF JobLift, DataOK, Write
    <3> QED BY <1>t, <1>3, <3>1 DEF JobLift, DataOK
  <2> QED BY <2>1, <2>2
<1>4. CASE JobExpire(w)
  <2> DEFINE r == [req[w] EXCEPT !.cur = {}]
  <2>a. r \in Held /\ r.seen = req[w].seen
    BY <1>t DEF WorkersOK, Held
  <2>1. WorkersOK' /\ WorkersFit'
    <3> HIDE DEF r
    <3> QED BY <1>t, <1>4, <2>a, GotoOn DEF JobExpire, Labels, r
  <2>2. DataOK'
    BY <1>t, <1>4 DEF JobExpire, DataOK, db, history
  <2> QED BY <2>1, <2>2
<1>5. CASE JobInvalidate(w)
  <2>1. WorkersOK' /\ WorkersFit'
    BY <1>t, <1>5, GotoOn DEF JobInvalidate, Labels, WorkersOK
  <2>2. DataOK'
    BY <1>t, <1>5 DEF JobInvalidate, DataOK, db, history
  <2> QED BY <2>1, <2>2
<1>6. CASE JobDone(w)
  <2>1. WorkersOK' /\ WorkersFit'
    BY <1>t, <1>6, HeldValues, GotoBlank DEF JobDone, Finish, Labels
  <2>2. DataOK'
    BY <1>t, <1>6 DEF JobDone, DataOK, db, history
  <2> QED BY <2>1, <2>2
<1> QED BY <1>1, <1>2, <1>3, <1>4, <1>5, <1>6

LEMMA DeletionType ==
  ASSUME TypeInv, NEW w \in Workers,
         \/ DeleteCheck(w) \/ Delete(w) \/ DeleteToken(w)
         \/ CancelFind(w) \/ CancelCheck(w) \/ Cancel(w) \/ CancelToken(w)
         \/ EraseList(w) \/ Erase(w) \/ Scrub(w)
  PROVE  TypeInv'
<1> SUFFICES DataOK' /\ WorkersOK' /\ WorkersFit'
  BY TypeParts DEF TypeInv, TypeOK, DataOK, WorkersOK, WorkersFit
<1>t. DataOK /\ WorkersOK /\ WorkersFit
  BY TypeParts
<1>1. CASE DeleteCheck(w)
  <2>a. Saw(user) \in Held /\ Saw(user).seen = {user}
    BY <1>t DEF DataOK, Saw, Holding, Held, Status
  <2>1. WorkersOK' /\ WorkersFit'
    BY <1>t, <1>1, <2>a, GotoSeen DEF DeleteCheck, Labels
  <2>2. DataOK'
    BY <1>t, <1>1 DEF DeleteCheck, DataOK, db, history
  <2> QED BY <2>1, <2>2
<1>2. CASE Delete(w)
  <2>1. WorkersOK' /\ WorkersFit'
    BY <1>t, <1>2, HeldValues, GotoBlank DEF Delete, Finish, Labels
  <2>2. DataOK'
    <3>1. user' \in Rows /\ raced' \in BOOLEAN
      BY <1>t, <1>2, RowsMade, StatusNames DEF Delete, DataOK, Write
    <3> QED BY <1>t, <1>2, <3>1 DEF Delete, DataOK
  <2> QED BY <2>1, <2>2
<1>3. CASE DeleteToken(w)
  <2>1. WorkersOK' /\ WorkersFit'
    BY <1>t, <1>3, HeldValues, GotoBlank DEF DeleteToken, Finish, Labels
  <2>2. DataOK'
    BY <1>t, <1>3 DEF DeleteToken, DataOK, db, history
  <2> QED BY <2>1, <2>2
<1>4. CASE CancelFind(w)
  <2>1. WorkersOK' /\ WorkersFit'
    BY <1>t, <1>4, HeldValues, GotoBlank DEF CancelFind, Finish, Labels
  <2>2. DataOK'
    BY <1>t, <1>4 DEF CancelFind, DataOK, db, history
  <2> QED BY <2>1, <2>2
<1>5. CASE CancelCheck(w)
  <2>a. Saw(user) \in Held /\ Saw(user).seen = {user}
    BY <1>t DEF DataOK, Saw, Holding, Held, Status
  <2>1. WorkersOK' /\ WorkersFit'
    <3>b. CASE user.status = "PENDING_DELETION" /\ ~user.deleted
      BY <1>t, <1>5, <2>a, <3>b, GotoSeen DEF CancelCheck, Labels
    <3>c. CASE ~(user.status = "PENDING_DELETION" /\ ~user.deleted)
      BY <1>t, <1>5, <3>c, HeldValues, GotoBlank DEF CancelCheck, Labels
    <3> QED BY <3>b, <3>c
  <2>2. DataOK'
    BY <1>t, <1>5 DEF CancelCheck, DataOK, db, history
  <2> QED BY <2>1, <2>2
<1>6. CASE Cancel(w)
  <2>1. WorkersOK' /\ WorkersFit'
    BY <1>t, <1>6, HeldValues, GotoBlank DEF Cancel, Finish, Labels
  <2>2. DataOK'
    <3>1. user' \in Rows /\ raced' \in BOOLEAN
      BY <1>t, <1>6, RowsMade, StatusNames DEF Cancel, DataOK, Write
    <3> QED BY <1>t, <1>6, <3>1 DEF Cancel, DataOK
  <2> QED BY <2>1, <2>2
<1>7. CASE CancelToken(w)
  <2>1. WorkersOK' /\ WorkersFit'
    BY <1>t, <1>7, HeldValues, GotoBlank DEF CancelToken, Finish, Labels
  <2>2. DataOK'
    BY <1>t, <1>7 DEF CancelToken, DataOK, db, history
  <2> QED BY <2>1, <2>2
<1>8. CASE EraseList(w)
  <2>a. Saw(user) \in Held /\ Saw(user).seen = {user}
    BY <1>t DEF DataOK, Saw, Holding, Held, Status
  <2>1. WorkersOK' /\ WorkersFit'
    BY <1>t, <1>8, <2>a, GotoSeen DEF EraseList, Labels, ToErase
  <2>2. DataOK'
    BY <1>t, <1>8 DEF EraseList, DataOK, db, history
  <2> QED BY <2>1, <2>2
<1>9. CASE Erase(w)
  <2>1. WorkersOK' /\ WorkersFit'
    BY <1>t, <1>9, HeldValues, GotoBlank DEF Erase, Finish, Labels
  <2>2. DataOK'
    <3>1. user' \in Rows /\ raced' \in BOOLEAN
      BY <1>t, <1>9, RowsMade, StatusNames DEF Erase, DataOK, Write
    <3> QED BY <1>t, <1>9, <3>1 DEF Erase, DataOK
  <2> QED BY <2>1, <2>2
<1>10. CASE Scrub(w)
  <2>1. WorkersOK' /\ WorkersFit'
    BY <1>t, <1>10, HeldValues, GotoBlank DEF Scrub, Finish, Labels
  <2>2. DataOK'
    BY <1>t, <1>10 DEF Scrub, DataOK, db, history
  <2> QED BY <2>1, <2>2
<1> QED BY <1>1, <1>2, <1>3, <1>4, <1>5, <1>6, <1>7, <1>8, <1>9, <1>10

LEMMA GuardType ==
  ASSUME TypeInv, NEW w \in Workers, FillMiss(w) \/ FillRead(w) \/ FillSet(w) \/ Stop(w)
  PROVE  TypeInv'
<1> SUFFICES DataOK' /\ WorkersOK' /\ WorkersFit'
  BY TypeParts DEF TypeInv, TypeOK, DataOK, WorkersOK, WorkersFit
<1>t. DataOK /\ WorkersOK /\ WorkersFit
  BY TypeParts
<1>1. CASE FillMiss(w)
  <2>1. WorkersOK' /\ WorkersFit'
    BY <1>t, <1>1, HeldValues, GotoBlank DEF FillMiss, Labels
  <2>2. DataOK'
    BY <1>t, <1>1 DEF FillMiss, DataOK, db, history
  <2> QED BY <2>1, <2>2
<1>2. CASE FillRead(w)
  <2> DEFINE r == [NoRequest EXCEPT !.to = user.status]
  <2>a. r \in Held /\ r.seen = {}
    BY <1>t, HeldValues DEF DataOK, Rows
  <2>1. WorkersOK' /\ WorkersFit'
    <3> HIDE DEF r
    <3> QED BY <1>t, <1>2, <2>a, GotoBlank DEF FillRead, Labels, r
  <2>2. DataOK'
    BY <1>t, <1>2 DEF FillRead, DataOK, db, history
  <2> QED BY <2>1, <2>2
<1>3. CASE FillSet(w)
  <2>1. WorkersOK' /\ WorkersFit'
    BY <1>t, <1>3, HeldValues, GotoBlank DEF FillSet, Finish, Labels
  <2>2. req[w].to \in Status \cup {"none"}
    BY <1>t DEF WorkersOK, Held
  <2>3. DataOK'
    BY <1>t, <1>3, <2>2 DEF FillSet, DataOK, db, history
  <2> QED BY <2>1, <2>3
<1>4. CASE Stop(w)
  <2>1. WorkersOK' /\ WorkersFit'
    BY <1>t, <1>4, HeldValues, GotoBlank DEF Stop, Finish, Labels
  <2>2. DataOK'
    BY <1>t, <1>4 DEF Stop, DataOK, db, history
  <2> QED BY <2>1, <2>2
<1> QED BY <1>1, <1>2, <1>3, <1>4

LEMMA TimeType ==
  ASSUME TypeInv,
         \/ \E s \in Ids : SuspensionEnds(s)
         \/ GraceEnds \/ LinkExpires \/ TokenExpires \/ CacheExpires
         \/ UNCHANGED vars
  PROVE  TypeInv'
<1> SUFFICES DataOK' /\ WorkersOK' /\ WorkersFit'
  BY TypeParts DEF TypeInv, TypeOK, DataOK, WorkersOK, WorkersFit
<1>t. DataOK /\ WorkersOK /\ WorkersFit
  BY TypeParts
<1>1. UNCHANGED <<pc, req>>
  BY DEF SuspensionEnds, GraceEnds, LinkExpires, TokenExpires, CacheExpires, vars
<1>2. WorkersOK' /\ WorkersFit'
  BY <1>t, <1>1 DEF WorkersOK, WorkersFit, ReadFits, ToFits
<1>3. DataOK'
  <2>1. CASE \E s \in Ids : SuspensionEnds(s)
    BY <1>t, <2>1 DEF SuspensionEnds, DataOK, history
  <2>2. CASE GraceEnds
    BY <1>t, <2>2 DEF GraceEnds, DataOK, Rows, history
  <2>3. CASE LinkExpires
    BY <1>t, <2>3 DEF LinkExpires, DataOK, history
  <2>4. CASE TokenExpires
    BY <1>t, <2>4 DEF TokenExpires, DataOK, db, history
  <2>5. CASE CacheExpires
    BY <1>t, <2>5 DEF CacheExpires, DataOK, db, history
  <2>6. CASE UNCHANGED vars
    BY <1>t, <2>6 DEF vars, DataOK, db, history
  <2> QED BY <2>1, <2>2, <2>3, <2>4, <2>5, <2>6
<1> QED BY <1>2, <1>3

LEMMA NextType == ASSUME TypeInv, [Next]_vars PROVE TypeInv'
  BY NextCases, AdmissionsType, DisciplineType, JobType, DeletionType, GuardType, TimeType

(* The row a worker writes over is the one it read, and what it read       *)
(* allowed the write: every variable is of its kind in every reachable     *)
(* state, whatever overlaps.                                               *)
THEOREM TypeCorrect == Spec => []TypeInv
<1>1. TypeInv /\ [Next]_vars => TypeInv'
  BY NextType
<1> QED BY InitType, <1>1, PTL DEF Spec

-------------------------------------------------------------------------------
(* Which steps change the row: the others leave it, and what the history   *)
(* says of it, alone.                                                      *)
Writes(w) ==
  Verify(w) \/ Decide(w) \/ Suspend(w) \/ Ban(w) \/ Lift(w) \/ JobLift(w) \/ Delete(w)
    \/ Cancel(w) \/ Erase(w)

LEMMA WritesOrNot ==
  ASSUME [Next]_vars
  PROVE  \/ \E w \in Workers : Writes(w)
         \/ GraceEnds
         \/ UNCHANGED <<user, history>>
<1>1. CASE UNCHANGED vars
  BY <1>1 DEF vars, db
<1>2. CASE Next
  <2>1. CASE \E w \in Workers :
              \/ ConsumeLink(w) \/ Verify(w) \/ ResendCheck(w) \/ Resend(w)
              \/ \E to \in Decisions : DecideCheck(w, to)
              \/ UndoCheck(w) \/ Decide(w)
    BY <2>1 DEF Writes, ConsumeLink, ResendCheck, Resend, DecideCheck, UndoCheck, db
  <2>2. CASE \E w \in Workers :
              \/ SuspendCheck(w) \/ Suspend(w) \/ BanCheck(w) \/ Ban(w) \/ Invalidate(w)
              \/ \E s \in Ids : LiftFind(w, s)
              \/ LiftCheck(w) \/ Lift(w)
    BY <2>2 DEF Writes, SuspendCheck, BanCheck, Invalidate, LiftFind, LiftCheck, db
  <2>3. CASE \E w \in Workers :
              \/ JobList(w)
              \/ \E s \in Ids : JobCheck(w, s)
              \/ JobLift(w) \/ JobExpire(w) \/ JobInvalidate(w) \/ JobDone(w)
    BY <2>3 DEF Writes, JobList, JobCheck, JobExpire, JobInvalidate, JobDone, db
  <2>4. CASE \E w \in Workers :
              \/ DeleteCheck(w) \/ Delete(w) \/ DeleteToken(w)
              \/ CancelFind(w) \/ CancelCheck(w) \/ Cancel(w) \/ CancelToken(w)
              \/ EraseList(w) \/ Erase(w) \/ Scrub(w)
    BY <2>4 DEF Writes, DeleteCheck, DeleteToken, CancelFind, CancelCheck, CancelToken,
                EraseList, Scrub, db
  <2>5. CASE \E w \in Workers : FillMiss(w) \/ FillRead(w) \/ FillSet(w) \/ Stop(w)
    BY <2>5 DEF FillMiss, FillRead, FillSet, Stop, db
  <2>6. CASE \/ \E s \in Ids : SuspensionEnds(s)
             \/ LinkExpires \/ TokenExpires \/ CacheExpires
    BY <2>6 DEF SuspensionEnds, LinkExpires, TokenExpires, CacheExpires, db
  <2> QED BY <1>2, <2>1, <2>2, <2>3, <2>4, <2>5, <2>6, NextCases
<1> QED BY <1>1, <1>2

(* A worker whose write is not remembered as raced writes over the row it  *)
(* has read.                                                               *)
LEMMA WriteFits ==
  ASSUME TypeInv, NEW w \in Workers, NEW u, Write(w, u), ~raced'
  PROVE  ~raced /\ user \in req[w].seen /\ ReadFits(w) /\ user' = u
  BY DEF TypeInv, TypeOK, Write

LEMMA EndsStep ==
  ASSUME TypeInv, EndsHold, [Next]_vars
  PROVE  EndsHold'
<1> USE DEF EndsHold
<1>0. user \in Rows /\ raced \in BOOLEAN /\ banned \in BOOLEAN /\ escaped \in BOOLEAN
  BY TypeParts DEF DataOK
<1>1. ASSUME NEW w \in Workers, Writes(w) PROVE EndsHold'
  <2>1. CASE Verify(w)
    BY <1>0, <2>1 DEF Verify, WithStatus, Rows
  <2>2. CASE Decide(w)
    <3>1. CASE user.deleted
      BY <2>2, <3>1 DEF Decide
    <3>2. ASSUME ~user.deleted, ~raced'
          PROVE  ~raced /\ user.status # "BANNED" /\ ~user'.deleted
      <4>1. ~raced /\ user \in req[w].seen /\ ReadFits(w) /\ user'.deleted = user.deleted
        <5>1. ~raced /\ user \in req[w].seen
          BY <1>0, <2>2, <3>2 DEF Decide, Write
        <5>2. user'.deleted = user.deleted
          BY <1>0, <2>2, <3>2 DEF Decide, Write, Rows
        <5> QED BY <5>1, <5>2 DEF TypeInv
      <4> QED BY <2>2, <3>2, <4>1 DEF Decide, ReadFits, Decisions
    <3> QED BY <1>0, <2>2, <3>1, <3>2 DEF Decide
  <2>3. CASE Suspend(w)
    BY <1>0, <2>3, WriteFits DEF Suspend, ReadFits, WithStatus, Rows
  <2>4. CASE Ban(w)
    BY <1>0, <2>4, WriteFits DEF Ban, ReadFits, WithStatus, Rows
  <2>5. CASE Lift(w)
    BY <1>0, <2>5, WriteFits DEF Lift, ReadFits, WithStatus, Rows
  <2>6. CASE JobLift(w)
    BY <1>0, <2>6, WriteFits DEF JobLift, ReadFits, WithStatus, Rows
  <2>7. CASE Delete(w)
    <3>1. ASSUME ~raced'
          PROVE  ~raced /\ user.status # "BANNED" /\ ~user'.deleted
      <4>1. ~raced /\ user \in req[w].seen /\ ReadFits(w) /\ user'.deleted = user.deleted
        <5>1. ~raced /\ user \in req[w].seen
          BY <1>0, <2>7, <3>1 DEF Delete, Write
        <5>2. user'.deleted = user.deleted
          BY <1>0, <2>7 DEF Delete, Write, Rows
        <5> QED BY <5>1, <5>2 DEF TypeInv
      <4> QED BY <2>7, <4>1 DEF Delete, ReadFits, DeletionBlocked, Disciplined
    <3> QED BY <1>0, <2>7, <3>1 DEF Delete
  <2>8. CASE Cancel(w)
    <3>1. ASSUME ~raced'
          PROVE  ~raced /\ user.status # "BANNED" /\ ~user'.deleted
      <4>1. ~raced /\ user \in req[w].seen /\ ReadFits(w) /\ user'.deleted = user.deleted
        <5>1. ~raced /\ user \in req[w].seen
          BY <1>0, <2>8, <3>1 DEF Cancel, Write
        <5>2. user'.deleted = user.deleted
          BY <1>0, <2>8 DEF Cancel, Write, Rows
        <5> QED BY <5>1, <5>2 DEF TypeInv
      <4> QED BY <2>8, <4>1 DEF Cancel, ReadFits
    <3> QED BY <1>0, <2>8, <3>1 DEF Cancel
  <2>9. CASE Erase(w)
    <3>1. ASSUME ~raced'
          PROVE  /\ ~raced /\ user.status # "BANNED"
                 /\ user'.status = "ANONYMIZED" /\ user'.due = "past"
      <4>1. /\ ~raced /\ user \in req[w].seen /\ ReadFits(w)
            /\ user'.status = "ANONYMIZED" /\ user'.due = user.due
        <5>1. ~raced /\ user \in req[w].seen
          BY <1>0, <2>9, <3>1 DEF Erase, Write
        <5>2. user'.status = "ANONYMIZED" /\ user'.due = user.due
          BY <1>0, <2>9 DEF Erase, Write, Rows
        <5> QED BY <5>1, <5>2 DEF TypeInv
      <4> QED BY <2>9, <4>1 DEF Erase, ReadFits
    <3> QED BY <1>0, <2>9, <3>1 DEF Erase
  <2> QED BY <1>1, <2>1, <2>2, <2>3, <2>4, <2>5, <2>6, <2>7, <2>8, <2>9 DEF Writes
<1>2. CASE GraceEnds
  BY <1>0, <1>2 DEF GraceEnds, Rows, history
<1>3. CASE UNCHANGED <<user, history>>
  BY <1>3 DEF history
<1> QED BY <1>1, <1>2, <1>3, WritesOrNot

(* A ban stands, an anonymised account stays so and is anonymised only     *)
(* after its grace period, unless a request wrote over a row it had not    *)
(* read, or the banned account was suspended anew or its link followed.    *)
THEOREM EndsHeld == Spec => []EndsHold
<1>1. Init => EndsHold
  BY DEF Init, EndsHold
<1>2. TypeInv /\ EndsHold /\ [Next]_vars => EndsHold'
  BY EndsStep
<1> QED BY <1>1, <1>2, TypeCorrect, PTL DEF Spec

-------------------------------------------------------------------------------
(* Suspensions are numbered without gaps; the one issued last is active    *)
(* while the account is suspended, and a run of the job about to expire    *)
(* that one has already lifted the account.                                *)
Used(s) == susp[s] # "none"
Last(s) == Used(s) /\ \A t \in Ids : t > s => ~Used(t)

RecordInv ==
  /\ \A s, t \in Ids : s < t /\ Used(t) => Used(s)
  /\ \A w \in Workers : \A s \in req[w].cur \cup req[w].list : Used(s)
  /\ user.status = "SUSPENDED" => \E s \in Ids : Last(s) /\ Active(s)
  /\ \A w \in Workers : pc[w] = "job_expire" =>
       \A s \in req[w].cur : Last(s) => user.status # "SUSPENDED"

(* Which steps change a suspension. *)
LEMMA SuspensionSteps ==
  ASSUME [Next]_vars
  PROVE  \/ \E w \in Workers : Suspend(w) \/ Lift(w) \/ JobExpire(w)
         \/ \E s \in Ids : SuspensionEnds(s)
         \/ UNCHANGED susp
<1>1. CASE UNCHANGED vars
  BY <1>1 DEF vars, db
<1>2. CASE Next
  <2>1. CASE \E w \in Workers :
              \/ ConsumeLink(w) \/ Verify(w) \/ ResendCheck(w) \/ Resend(w)
              \/ \E to \in Decisions : DecideCheck(w, to)
              \/ UndoCheck(w) \/ Decide(w)
    BY <2>1 DEF ConsumeLink, Verify, ResendCheck, Resend, DecideCheck, UndoCheck, Decide, db
  <2>2. CASE \E w \in Workers :
              \/ SuspendCheck(w) \/ Suspend(w) \/ BanCheck(w) \/ Ban(w) \/ Invalidate(w)
              \/ \E s \in Ids : LiftFind(w, s)
              \/ LiftCheck(w) \/ Lift(w)
    BY <2>2 DEF SuspendCheck, BanCheck, Ban, Invalidate, LiftFind, LiftCheck, db
  <2>3. CASE \E w \in Workers :
              \/ JobList(w)
              \/ \E s \in Ids : JobCheck(w, s)
              \/ JobLift(w) \/ JobExpire(w) \/ JobInvalidate(w) \/ JobDone(w)
    BY <2>3 DEF JobList, JobCheck, JobLift, JobInvalidate, JobDone, db
  <2>4. CASE \E w \in Workers :
              \/ DeleteCheck(w) \/ Delete(w) \/ DeleteToken(w)
              \/ CancelFind(w) \/ CancelCheck(w) \/ Cancel(w) \/ CancelToken(w)
              \/ EraseList(w) \/ Erase(w) \/ Scrub(w)
    BY <2>4 DEF DeleteCheck, Delete, DeleteToken, CancelFind, CancelCheck, Cancel,
                CancelToken, EraseList, Erase, Scrub, db
  <2>5. CASE \E w \in Workers : FillMiss(w) \/ FillRead(w) \/ FillSet(w) \/ Stop(w)
    BY <2>5 DEF FillMiss, FillRead, FillSet, Stop, db
  <2>6. CASE GraceEnds \/ LinkExpires \/ TokenExpires \/ CacheExpires
    BY <2>6 DEF GraceEnds, LinkExpires, TokenExpires, CacheExpires, db
  <2> QED BY <1>2, <2>1, <2>2, <2>3, <2>4, <2>5, <2>6, NextCases
<1> QED BY <1>1, <1>2

(* No step but issueSuspension's leaves an account suspended that was not. *)
LEMMA OnlySuspendSuspends ==
  ASSUME TypeInv, [Next]_vars, user'.status = "SUSPENDED",
         ~ \E w \in Workers : Suspend(w)
  PROVE  user.status = "SUSPENDED"
<1>0. user \in Rows
  BY DEF TypeInv, TypeOK
<1>1. ASSUME NEW w \in Workers, Writes(w) PROVE user.status = "SUSPENDED"
  <2>1. CASE Verify(w)
    BY <1>0, <2>1 DEF Verify, WithStatus, Rows
  <2>2. CASE Decide(w)
    <3>1. req[w].to # "SUSPENDED"
      BY <2>2 DEF TypeInv, ToFits, Decide, Decisions
    <3> QED BY <1>0, <2>2, <3>1 DEF Decide, Write, Rows
  <2>3. CASE Ban(w) \/ Lift(w) \/ JobLift(w)
    BY <1>0, <2>3 DEF Ban, Lift, JobLift, Write, WithStatus, Rows
  <2>4. CASE Delete(w) \/ Cancel(w) \/ Erase(w)
    BY <1>0, <2>4 DEF Delete, Cancel, Erase, Write, Rows
  <2> QED BY <1>1, <2>1, <2>2, <2>3, <2>4 DEF Writes
<1>2. CASE GraceEnds
  BY <1>0, <1>2 DEF GraceEnds, Rows
<1> QED BY <1>1, <1>2, WritesOrNot

(* What workers keep of suspensions: a worker takes up an active one, or   *)
(* one the list held, and drops it.                                        *)
LEMMA KeptIds ==
  ASSUME TypeInv, RecordInv, [Next]_vars, NEW w \in Workers,
         NEW s \in req'[w].cur \cup req'[w].list
  PROVE  Used(s)
<1>0. /\ pc \in [Workers -> Labels] /\ req \in [Workers -> Held]
      /\ susp \in [Ids -> {"none", "running", "over", "expired", "lifted"}]
  BY DEF TypeInv, TypeOK
<1>1. CASE s \in req[w].cur \cup req[w].list
  BY <1>1 DEF RecordInv
<1>2. CASE s \notin req[w].cur \cup req[w].list
  <2> USE <1>0, <1>2 DEF Goto, Finish, NoRequest, Saw, Holding
  <2>1. CASE \E v \in Workers :
              \/ ConsumeLink(v) \/ Verify(v) \/ ResendCheck(v) \/ Resend(v)
              \/ \E to \in Decisions : DecideCheck(v, to)
              \/ UndoCheck(v) \/ Decide(v)
    BY <2>1 DEF ConsumeLink, Verify, ResendCheck, Resend, DecideCheck, UndoCheck, Decide
  <2>2. CASE \E v \in Workers :
              \/ SuspendCheck(v) \/ Suspend(v) \/ BanCheck(v) \/ Ban(v) \/ Invalidate(v)
              \/ \E t \in Ids : LiftFind(v, t)
              \/ LiftCheck(v) \/ Lift(v)
    BY <2>2 DEF SuspendCheck, Suspend, BanCheck, Ban, Invalidate, LiftFind, LiftCheck, Lift,
                Used, Active
  <2>3. CASE \E v \in Workers :
              \/ JobList(v)
              \/ \E t \in Ids : JobCheck(v, t)
              \/ JobLift(v) \/ JobExpire(v) \/ JobInvalidate(v) \/ JobDone(v)
    <3>1. CASE \E v \in Workers : JobList(v)
      BY <3>1 DEF JobList, Expiring, Used
    <3>2. CASE \E v \in Workers, t \in Ids : JobCheck(v, t)
      BY <3>2 DEF JobCheck
    <3>3. CASE \E v \in Workers : JobLift(v) \/ JobExpire(v) \/ JobInvalidate(v)
      BY <3>3 DEF JobLift, JobExpire, JobInvalidate, Held
    <3>4. CASE \E v \in Workers : JobDone(v)
      BY <3>4 DEF JobDone
    <3> QED BY <2>3, <3>1, <3>2, <3>3, <3>4
  <2>4. CASE \E v \in Workers :
              \/ DeleteCheck(v) \/ Delete(v) \/ DeleteToken(v)
              \/ CancelFind(v) \/ CancelCheck(v) \/ Cancel(v) \/ CancelToken(v)
              \/ EraseList(v) \/ Erase(v) \/ Scrub(v)
    BY <2>4 DEF DeleteCheck, Delete, DeleteToken, CancelFind, CancelCheck, Cancel,
                CancelToken, EraseList, Erase, Scrub
  <2>5. CASE \E v \in Workers : FillMiss(v) \/ FillRead(v) \/ FillSet(v) \/ Stop(v)
    BY <2>5 DEF FillMiss, FillRead, FillSet, Stop
  <2>6. CASE \/ \E t \in Ids : SuspensionEnds(t)
             \/ GraceEnds \/ LinkExpires \/ TokenExpires \/ CacheExpires
    BY <2>6 DEF SuspensionEnds, GraceEnds, LinkExpires, TokenExpires, CacheExpires
  <2>7. CASE UNCHANGED vars
    BY <2>7 DEF vars
  <2> QED BY <2>1, <2>2, <2>3, <2>4, <2>5, <2>6, <2>7, NextCases
<1> QED BY <1>1, <1>2

(* A worker is about to expire a suspension because it was so before, with *)
(* the same suspension, or because it has just lifted the account.         *)
LEMMA ExpireFrom ==
  ASSUME TypeInv, [Next]_vars, NEW w \in Workers, pc'[w] = "job_expire"
  PROVE  \/ pc[w] = "job_expire" /\ req'[w] = req[w]
         \/ JobLift(w)
<1>0. pc \in [Workers -> Labels] /\ req \in [Workers -> Held]
  BY DEF TypeInv, TypeOK
<1> USE <1>0 DEF Goto, Finish
<1>1. CASE \E v \in Workers :
            \/ ConsumeLink(v) \/ Verify(v) \/ ResendCheck(v) \/ Resend(v)
            \/ \E to \in Decisions : DecideCheck(v, to)
            \/ UndoCheck(v) \/ Decide(v)
  BY <1>1 DEF ConsumeLink, Verify, ResendCheck, Resend, DecideCheck, UndoCheck, Decide
<1>2. CASE \E v \in Workers :
            \/ SuspendCheck(v) \/ Suspend(v) \/ BanCheck(v) \/ Ban(v) \/ Invalidate(v)
            \/ \E t \in Ids : LiftFind(v, t)
            \/ LiftCheck(v) \/ Lift(v)
  BY <1>2 DEF SuspendCheck, Suspend, BanCheck, Ban, Invalidate, LiftFind, LiftCheck, Lift
<1>3. CASE \E v \in Workers :
            \/ JobList(v)
            \/ \E t \in Ids : JobCheck(v, t)
            \/ JobLift(v) \/ JobExpire(v) \/ JobInvalidate(v) \/ JobDone(v)
  <2>1. CASE \E v \in Workers : JobLift(v)
    BY <2>1 DEF JobLift
  <2>2. CASE \E v \in Workers :
              \/ JobList(v)
              \/ \E t \in Ids : JobCheck(v, t)
              \/ JobExpire(v) \/ JobInvalidate(v) \/ JobDone(v)
    BY <2>2 DEF JobList, JobCheck, JobExpire, JobInvalidate, JobDone
  <2> QED BY <1>3, <2>1, <2>2
<1>4. CASE \E v \in Workers :
            \/ DeleteCheck(v) \/ Delete(v) \/ DeleteToken(v)
            \/ CancelFind(v) \/ CancelCheck(v) \/ Cancel(v) \/ CancelToken(v)
            \/ EraseList(v) \/ Erase(v) \/ Scrub(v)
  BY <1>4 DEF DeleteCheck, Delete, DeleteToken, CancelFind, CancelCheck, Cancel,
              CancelToken, EraseList, Erase, Scrub
<1>5. CASE \E v \in Workers : FillMiss(v) \/ FillRead(v) \/ FillSet(v) \/ Stop(v)
  BY <1>5 DEF FillMiss, FillRead, FillSet, Stop
<1>6. CASE \/ \E t \in Ids : SuspensionEnds(t)
           \/ GraceEnds \/ LinkExpires \/ TokenExpires \/ CacheExpires
  BY <1>6 DEF SuspensionEnds, GraceEnds, LinkExpires, TokenExpires, CacheExpires
<1>7. CASE UNCHANGED vars
  BY <1>7 DEF vars
<1> QED BY <1>1, <1>2, <1>3, <1>4, <1>5, <1>6, <1>7, NextCases

LEMMA RecordStep ==
  ASSUME TypeInv, RecordInv, [Next]_vars
  PROVE  RecordInv'
<1>0. /\ user \in Rows /\ pc \in [Workers -> Labels] /\ req \in [Workers -> Held]
      /\ susp \in [Ids -> {"none", "running", "over", "expired", "lifted"}]
  BY DEF TypeInv, TypeOK
<1>i. \A s, t \in Ids : s < t => ~(t < s)
  BY AccountConstants DEF Ids
<1>n. \A s, t \in Ids : s # t => s < t \/ t < s
  BY AccountConstants DEF Ids
<1>k. \A w \in Workers : \A s \in req[w].cur \cup req[w].list : s \in Ids /\ Used(s)
  BY <1>0 DEF RecordInv, Held
<1>l. \A w \in Workers : \A s \in req'[w].cur \cup req'[w].list : Used(s)
  BY KeptIds
<1>t. \A w \in Workers : req'[w].cur \subseteq Ids /\ req'[w].list \subseteq Ids
  BY NextType DEF TypeInv, TypeOK, Held
<1>1. ASSUME NEW w \in Workers, Suspend(w) PROVE RecordInv'
  <2>1. PICK s \in Ids : NextId(s) /\ susp' = [susp EXCEPT ![s] = "running"]
    BY <1>1 DEF Suspend
  <2>2. \A t \in Ids : Used(t)' <=> Used(t) \/ t = s
    BY <1>0, <2>1 DEF Used
  <2>3. ~Used(s) /\ \A t \in Ids : (t < s => Used(t)) /\ (s < t => ~Used(t))
    BY <2>1 DEF NextId, Used, RecordInv
  <2>4. Last(s)' /\ Active(s)'
    <3>1. Last(s)'
      BY <2>2, <2>3, <1>i DEF Last, Ids
    <3> QED BY <1>0, <2>1, <3>1 DEF Active
  <2>5. (\A u, t \in Ids : u < t /\ Used(t) => Used(u))'
    <3> SUFFICES ASSUME NEW u \in Ids, NEW t \in Ids, u < t, Used(t)' PROVE Used(u)'
      OBVIOUS
    <3> QED BY <2>2, <2>3 DEF RecordInv
  <2>6. (\A v \in Workers : \A u \in req[v].cur \cup req[v].list : Used(u))'
    BY <1>l, <1>t, <2>2
  <2>7. (\A v \in Workers : pc[v] = "job_expire" =>
           \A u \in req[v].cur : Last(u) => user.status # "SUSPENDED")'
    <3> SUFFICES ASSUME NEW v \in Workers, NEW u \in req'[v].cur PROVE ~Last(u)'
      OBVIOUS
    <3>1. u \in Ids /\ Used(u) /\ u # s
      BY <1>l, <1>t, <2>3
    <3>2. u < s
      BY <1>n, <2>3, <3>1
    <3> QED BY <2>2, <3>1, <3>2 DEF Last, Ids
  <2> QED BY <2>4, <2>5, <2>6, <2>7 DEF RecordInv
<1>2. ASSUME ~ \E w \in Workers : Suspend(w), \A s \in Ids : Used(s)' <=> Used(s),
             user'.status = "SUSPENDED" => \A s \in Ids : Last(s) /\ Active(s) => Active(s)'
      PROVE  RecordInv'
  <2>1. \A s \in Ids : Last(s)' <=> Last(s)
    BY <1>2 DEF Last
  <2>2. user'.status = "SUSPENDED" => user.status = "SUSPENDED"
    BY <1>2, OnlySuspendSuspends
  <2>3. (user.status = "SUSPENDED" => \E s \in Ids : Last(s) /\ Active(s))'
    BY <1>2, <2>1, <2>2 DEF RecordInv
  <2>4. (\A s, t \in Ids : s < t /\ Used(t) => Used(s))'
    BY <1>2 DEF RecordInv
  <2>5. (\A v \in Workers : \A s \in req[v].cur \cup req[v].list : Used(s))'
    BY <1>2, <1>l, <1>t
  <2>6. (\A v \in Workers : pc[v] = "job_expire" =>
           \A s \in req[v].cur : Last(s) => user.status # "SUSPENDED")'
    <3> SUFFICES ASSUME NEW v \in Workers, pc'[v] = "job_expire", NEW s \in req'[v].cur,
                        Last(s)', user'.status = "SUSPENDED"
                 PROVE  FALSE
      OBVIOUS
    <3>1. CASE JobLift(v)
      BY <1>0, <3>1 DEF JobLift, Write, WithStatus, Rows
    <3>2. CASE pc[v] = "job_expire" /\ req'[v] = req[v]
      BY <1>t, <2>1, <2>2, <3>2 DEF RecordInv
    <3> QED BY <3>1, <3>2, ExpireFrom
  <2> QED BY <2>3, <2>4, <2>5, <2>6 DEF RecordInv
<1>3. ASSUME NEW w \in Workers, Lift(w), ~ \E v \in Workers : Suspend(v) PROVE RecordInv'
  <2>1. \A s \in Ids : Used(s)' <=> Used(s)
    BY <1>0, <1>3, <1>k DEF Lift, Used
  <2>2. user'.status # "SUSPENDED"
    BY <1>0, <1>3 DEF Lift, Write, WithStatus, Rows
  <2> QED BY <1>2, <1>3, <2>1, <2>2
<1>4. ASSUME NEW w \in Workers, JobExpire(w), ~ \E v \in Workers : Suspend(v)
      PROVE  RecordInv'
  <2>1. \A s \in Ids : Used(s)' <=> Used(s)
    BY <1>0, <1>4, <1>k DEF JobExpire, Used
  <2>2. ASSUME user'.status = "SUSPENDED", NEW s \in Ids, Last(s), Active(s)
        PROVE  Active(s)'
    <3>1. s \notin req[w].cur
      BY <1>4, <2>2 DEF JobExpire, RecordInv
    <3> QED BY <1>4, <2>2, <3>1 DEF JobExpire, Active
  <2> QED BY <1>2, <1>4, <2>1, <2>2
<1>5. ASSUME NEW s \in Ids, SuspensionEnds(s), ~ \E v \in Workers : Suspend(v)
      PROVE  RecordInv'
  <2>1. \A t \in Ids : (Used(t)' <=> Used(t)) /\ (Active(t) => Active(t)')
    BY <1>0, <1>5 DEF SuspensionEnds, Used, Active
  <2> QED BY <1>2, <1>5, <2>1
<1>6. ASSUME UNCHANGED susp, ~ \E v \in Workers : Suspend(v) PROVE RecordInv'
  <2>1. \A t \in Ids : (Used(t)' <=> Used(t)) /\ (Active(t) => Active(t)')
    BY <1>6 DEF Used, Active
  <2> QED BY <1>2, <1>6, <2>1
<1> QED BY <1>1, <1>3, <1>4, <1>5, <1>6, SuspensionSteps

(* A suspended account has an active suspension, however suspensions,      *)
(* liftings and runs of the job overlap and wherever they stop.            *)
THEOREM SuspensionsRecorded == Spec => []SuspensionIsRecorded
<1>1. Init => RecordInv
  BY DEF Init, RecordInv, NoRequest, Holding, Used
<1>2. TypeInv /\ RecordInv /\ [Next]_vars => RecordInv'
  BY RecordStep
<1>3. RecordInv => SuspensionIsRecorded
  BY DEF RecordInv, SuspensionIsRecorded
<1> QED BY <1>1, <1>2, <1>3, TypeCorrect, PTL DEF Spec

-------------------------------------------------------------------------------
Dropping(w) == pc[w] \in {"invalidate", "job_invalidate"}

(* A step that disciplines nobody, leaves the cache alone and takes no     *)
(* worker away from the cache entry it has yet to drop.                    *)
Calm ==
  /\ user'.status \in Disciplined => user.status \in Disciplined
  /\ cache' = cache
  /\ excused => excused'
  /\ (\E w \in Workers : Dropping(w)) => excused' \/ \E w \in Workers : Dropping(w)'

(* A worker that is not about to drop the entry moves, others stay. *)
LEMMA CalmMove ==
  ASSUME TypeInv, NEW w \in Workers, NEW label, NEW r, Goto(w, label, r), ~Dropping(w)
  PROVE  (\E v \in Workers : Dropping(v)) => \E v \in Workers : Dropping(v)'
<1> SUFFICES ASSUME NEW v \in Workers, Dropping(v) PROVE Dropping(v)'
  OBVIOUS
<1>1. pc'[v] = pc[v]
  BY DEF Goto, Dropping, TypeInv, TypeOK
<1> QED BY <1>1 DEF Dropping

LEMMA CacheSteps ==
  ASSUME TypeInv, [Next]_vars
  PROVE  \/ \E w \in Workers : Suspend(w) \/ Ban(w)
         \/ \E w \in Workers : FillSet(w)
         \/ cache' = "none"
         \/ Calm
<1>0. user \in Rows /\ pc \in [Workers -> Labels]
  BY DEF TypeInv, TypeOK
<1>1. CASE UNCHANGED vars
  BY <1>1 DEF vars, db, Calm, Dropping
<1>2. CASE Next
  <2>1. ASSUME NEW w \in Workers,
               \/ ConsumeLink(w) \/ Verify(w) \/ ResendCheck(w) \/ Resend(w)
               \/ \E to \in Decisions : DecideCheck(w, to)
               \/ UndoCheck(w) \/ Decide(w)
        PROVE  Calm
    <3>1. \E label, r : Goto(w, label, r) /\ ~Dropping(w)
      BY <2>1 DEF ConsumeLink, Verify, ResendCheck, Resend, DecideCheck, UndoCheck, Decide,
                  Finish, Idle, Dropping
    <3>2. cache' = cache /\ excused' = excused
      BY <2>1 DEF ConsumeLink, Verify, ResendCheck, Resend, DecideCheck, UndoCheck, Decide, db
    <3>3. user'.status \in Disciplined => user.status \in Disciplined
      <4>1. CASE Verify(w)
        BY <1>0, <4>1 DEF Verify, WithStatus, Rows, Disciplined
      <4>2. CASE Decide(w)
        <5>1. req[w].to \notin Disciplined
          BY <4>2 DEF TypeInv, ToFits, Decide, Decisions, Disciplined
        <5> QED BY <1>0, <4>2, <5>1 DEF Decide, Write, Rows
      <4>3. CASE UNCHANGED user
        BY <4>3
      <4> QED BY <2>1, <4>1, <4>2, <4>3 DEF ConsumeLink, ResendCheck, Resend, DecideCheck,
                                            UndoCheck, db
    <3> QED BY <3>1, <3>2, <3>3, CalmMove DEF Calm
  <2>2. ASSUME NEW w \in Workers,
               \/ SuspendCheck(w) \/ BanCheck(w) \/ (\E s \in Ids : LiftFind(w, s))
               \/ LiftCheck(w) \/ Lift(w)
        PROVE  Calm
    <3>1. \E label, r : Goto(w, label, r) /\ ~Dropping(w)
      BY <2>2 DEF SuspendCheck, BanCheck, LiftFind, LiftCheck, Lift, Finish, Idle, Dropping
    <3>2. cache' = cache /\ excused' = excused
      BY <2>2 DEF SuspendCheck, BanCheck, LiftFind, LiftCheck, Lift, db
    <3>3. user'.status \in Disciplined => user.status \in Disciplined
      BY <1>0, <2>2 DEF SuspendCheck, BanCheck, LiftFind, LiftCheck, Lift, Write, WithStatus,
                        Rows, Disciplined, db
    <3> QED BY <3>1, <3>2, <3>3, CalmMove DEF Calm
  <2>3. ASSUME NEW w \in Workers,
               \/ JobList(w) \/ (\E s \in Ids : JobCheck(w, s))
               \/ JobLift(w) \/ JobExpire(w) \/ JobDone(w)
        PROVE  Calm
    <3>1. \E label, r : Goto(w, label, r) /\ ~Dropping(w)
      BY <2>3 DEF JobList, JobCheck, JobLift, JobExpire, JobDone, Finish, Idle, Dropping
    <3>2. cache' = cache /\ excused' = excused
      BY <2>3 DEF JobList, JobCheck, JobLift, JobExpire, JobDone, db
    <3>3. user'.status \in Disciplined => user.status \in Disciplined
      BY <1>0, <2>3 DEF JobList, JobCheck, JobLift, JobExpire, JobDone, Write, WithStatus,
                        Rows, Disciplined, db
    <3> QED BY <3>1, <3>2, <3>3, CalmMove DEF Calm
  <2>4. ASSUME NEW w \in Workers,
               \/ DeleteCheck(w) \/ Delete(w) \/ DeleteToken(w)
               \/ CancelFind(w) \/ CancelCheck(w) \/ Cancel(w) \/ CancelToken(w)
               \/ EraseList(w) \/ Erase(w) \/ Scrub(w)
        PROVE  Calm
    <3>1. \E label, r : Goto(w, label, r) /\ ~Dropping(w)
      BY <2>4 DEF DeleteCheck, Delete, DeleteToken, CancelFind, CancelCheck, Cancel,
                  CancelToken, EraseList, Erase, Scrub, Finish, Idle, Dropping
    <3>2. cache' = cache /\ excused' = excused
      BY <2>4 DEF DeleteCheck, Delete, DeleteToken, CancelFind, CancelCheck, Cancel,
                  CancelToken, EraseList, Erase, Scrub, db
    <3>3. user'.status \in Disciplined => user.status \in Disciplined
      <4>1. CASE Delete(w) \/ Cancel(w) \/ Erase(w)
        BY <1>0, <4>1 DEF Delete, Cancel, Erase, Write, Rows, Disciplined
      <4>2. CASE UNCHANGED user
        BY <4>2
      <4> QED BY <2>4, <4>1, <4>2 DEF DeleteCheck, DeleteToken, CancelFind, CancelCheck,
                                      CancelToken, EraseList, Scrub, db
    <3> QED BY <3>1, <3>2, <3>3, CalmMove DEF Calm
  <2>5. ASSUME NEW w \in Workers, FillMiss(w) \/ FillRead(w) PROVE Calm
    <3>1. \E label, r : Goto(w, label, r) /\ ~Dropping(w)
      BY <2>5 DEF FillMiss, FillRead, Idle, Dropping
    <3>2. UNCHANGED <<user, cache, excused>>
      BY <2>5 DEF FillMiss, FillRead, db
    <3> QED BY <3>1, <3>2, CalmMove DEF Calm
  <2>6. ASSUME NEW w \in Workers, Stop(w) PROVE Calm
    <3>1. UNCHANGED <<user, cache>> /\ excused' = (excused \/ Dropping(w))
      BY <2>6 DEF Stop, db, Dropping
    <3>2. ~Dropping(w) => ((\E v \in Workers : Dropping(v)) => \E v \in Workers : Dropping(v)')
      BY <2>6, CalmMove DEF Stop, Finish
    <3> QED BY <3>1, <3>2 DEF Calm
  <2>7. CASE (\E s \in Ids : SuspensionEnds(s)) \/ GraceEnds \/ LinkExpires \/ TokenExpires
    <3>1. UNCHANGED <<pc, cache, excused>> /\ user'.status = user.status
      BY <1>0, <2>7 DEF SuspensionEnds, GraceEnds, LinkExpires, TokenExpires, Rows, db
    <3> QED BY <3>1 DEF Calm, Dropping
  <2>8. ASSUME NEW w \in Workers, Invalidate(w) \/ JobInvalidate(w) PROVE cache' = "none"
    BY <2>8 DEF Invalidate, JobInvalidate
  <2>9. CASE CacheExpires
    BY <2>9 DEF CacheExpires
  <2> QED BY <1>2, <2>1, <2>2, <2>3, <2>4, <2>5, <2>6, <2>7, <2>8, <2>9, NextCases
<1> QED BY <1>1, <1>2

LEMMA CacheStep ==
  ASSUME TypeInv, CacheFollowsDiscipline, [Next]_vars
  PROVE  CacheFollowsDiscipline'
<1>0. pc \in [Workers -> Labels]
  BY DEF TypeInv, TypeOK
<1>1. ASSUME NEW w \in Workers, Suspend(w) \/ Ban(w) PROVE CacheFollowsDiscipline'
  <2>1. pc'[w] = "invalidate"
    BY <1>0, <1>1 DEF Suspend, Ban, Goto
  <2> QED BY <2>1 DEF CacheFollowsDiscipline
<1>2. ASSUME NEW w \in Workers, FillSet(w) PROVE CacheFollowsDiscipline'
  BY <1>2 DEF FillSet, CacheFollowsDiscipline, Disciplined, db
<1>3. CASE cache' = "none"
  BY <1>3 DEF CacheFollowsDiscipline
<1>4. CASE Calm
  BY <1>4 DEF Calm, CacheFollowsDiscipline, Dropping
<1> QED BY <1>1, <1>2, <1>3, <1>4, CacheSteps

(* The proxy's cache never says a disciplined member is approved once the  *)
(* action that disciplined has dropped the entry, unless that failed or    *)
(* the entry was read before the action and stored after it.               *)
THEOREM CacheFollows == Spec => []CacheFollowsDiscipline
<1>1. Init => CacheFollowsDiscipline
  BY DEF Init, CacheFollowsDiscipline
<1>2. TypeInv /\ CacheFollowsDiscipline /\ [Next]_vars => CacheFollowsDiscipline'
  BY CacheStep
<1> QED BY <1>1, <1>2, TypeCorrect, PTL DEF Spec
-------------------------------------------------------------------------------
(* A request that is about to discipline, restore, delete or erase an      *)
(* account has been let through for a member.                              *)
MemberLabels == {"suspend", "ban", "lift", "job_lift", "delete", "cancel", "erase"}
MemberInv ==
  /\ AdmittedByAdmin
  /\ \A w \in Workers : pc[w] \in MemberLabels => user.member

(* A membership is never taken back, and only a decision or a request that *)
(* was let through for a member writes an admitted status.                 *)
LEMMA MemberSteps ==
  ASSUME TypeInv, MemberInv, [Next]_vars
  PROVE  /\ user.member => user'.member
         /\ AdmittedByAdmin'
<1>0. user \in Rows /\ pc \in [Workers -> Labels]
  BY DEF TypeInv, TypeOK
<1>a. \A s \in Status : WithStatus(s).status = s /\ WithStatus(s).member = user.member
  BY <1>0 DEF WithStatus, Rows
<1>1. ASSUME NEW w \in Workers, Decide(w)
      PROVE  (user.member => user'.member) /\ AdmittedByAdmin'
  <2>1. CASE user.deleted
    BY <1>1, <2>1 DEF Decide, MemberInv, AdmittedByAdmin
  <2>2. CASE ~user.deleted
    <3>1. user'.member = (user.member \/ req[w].to = "APPROVED") /\ user'.status = req[w].to
      BY <1>0, <1>1, <2>2 DEF Decide, Write, Rows
    <3>2. req[w].to \in Decisions \cup {"PENDING_APPROVAL"}
      BY <1>1 DEF Decide, TypeInv, ToFits
    <3> QED BY <3>1, <3>2 DEF AdmittedByAdmin, Admitted, Decisions, DeletionBlocked, Disciplined
  <2> QED BY <2>1, <2>2
<1>2. ASSUME NEW w \in Workers, Verify(w)
      PROVE  (user.member => user'.member) /\ AdmittedByAdmin'
  <2>1. CASE user.deleted
    BY <1>2, <2>1 DEF Verify, MemberInv, AdmittedByAdmin
  <2>2. CASE ~user.deleted
    <3>1. user'.status = "PENDING_APPROVAL" /\ user'.member = user.member
      BY <1>2, <1>a, <2>2, StatusNames DEF Verify
    <3> QED BY <3>1 DEF AdmittedByAdmin, Admitted, DeletionBlocked, Disciplined
  <2> QED BY <2>1, <2>2
<1>3. ASSUME NEW w \in Workers,
             Suspend(w) \/ Ban(w) \/ Lift(w) \/ JobLift(w) \/ Delete(w) \/ Cancel(w) \/ Erase(w)
      PROVE  (user.member => user'.member) /\ AdmittedByAdmin'
  <2>1. user.member
    BY <1>3 DEF Suspend, Ban, Lift, JobLift, Delete, Cancel, Erase, MemberInv, MemberLabels
  <2>2. user'.member = user.member
    BY <1>0, <1>3 DEF Suspend, Ban, Lift, JobLift, Delete, Cancel, Erase, Write, WithStatus, Rows
  <2> QED BY <2>1, <2>2 DEF AdmittedByAdmin
<1>4. CASE user'.status = user.status /\ user'.member = user.member
  BY <1>4 DEF MemberInv, AdmittedByAdmin
<1>5. CASE UNCHANGED user
  BY <1>4, <1>5
<1>6. CASE GraceEnds
  <2>1. user'.status = user.status /\ user'.member = user.member
    BY <1>0, <1>6 DEF GraceEnds, Rows
  <2> QED BY <1>4, <2>1
<1>7. CASE Next
  <2>1. CASE \E w \in Workers :
               \/ ConsumeLink(w) \/ Verify(w) \/ ResendCheck(w) \/ Resend(w)
               \/ \E to \in Decisions : DecideCheck(w, to)
               \/ UndoCheck(w) \/ Decide(w)
    BY <1>1, <1>2, <1>5, <2>1 DEF ConsumeLink, ResendCheck, Resend, DecideCheck, UndoCheck, db
  <2>2. CASE \E w \in Workers :
               \/ SuspendCheck(w) \/ Suspend(w) \/ BanCheck(w) \/ Ban(w) \/ Invalidate(w)
               \/ \E s \in Ids : LiftFind(w, s)
               \/ LiftCheck(w) \/ Lift(w)
    BY <1>3, <1>5, <2>2 DEF SuspendCheck, BanCheck, Invalidate, LiftFind, LiftCheck, db
  <2>3. CASE \E w \in Workers :
               \/ JobList(w)
               \/ \E s \in Ids : JobCheck(w, s)
               \/ JobLift(w) \/ JobExpire(w) \/ JobInvalidate(w) \/ JobDone(w)
    BY <1>3, <1>5, <2>3 DEF JobList, JobCheck, JobExpire, JobInvalidate, JobDone, db
  <2>4. CASE \E w \in Workers :
               \/ DeleteCheck(w) \/ Delete(w) \/ DeleteToken(w)
               \/ CancelFind(w) \/ CancelCheck(w) \/ Cancel(w) \/ CancelToken(w)
               \/ EraseList(w) \/ Erase(w) \/ Scrub(w)
    BY <1>3, <1>5, <2>4 DEF DeleteCheck, DeleteToken, CancelFind, CancelCheck, CancelToken,
                            EraseList, Scrub, db
  <2>5. CASE \E w \in Workers : FillMiss(w) \/ FillRead(w) \/ FillSet(w) \/ Stop(w)
    BY <1>5, <2>5 DEF FillMiss, FillRead, FillSet, Stop, db
  <2>6. CASE (\E s \in Ids : SuspensionEnds(s)) \/ LinkExpires \/ TokenExpires \/ CacheExpires
    BY <1>5, <2>6 DEF SuspensionEnds, LinkExpires, TokenExpires, CacheExpires, db
  <2> QED BY <1>6, <1>7, <2>1, <2>2, <2>3, <2>4, <2>5, <2>6, NextCases
<1> QED BY <1>5, <1>7 DEF vars, db

(* Every check that lets a request through to one of those labels has seen *)
(* a member, or a status that only members have.                           *)
LEMMA MemberChecked ==
  ASSUME TypeInv, MemberInv, [Next]_vars, NEW w \in Workers, pc'[w] \in MemberLabels
  PROVE  user.member
<1>0. pc \in [Workers -> Labels]
  BY DEF TypeInv, TypeOK
<1>a. user.status \in {"SUSPENDED", "PENDING_DELETION"} => user.member
  BY DEF MemberInv, AdmittedByAdmin, Admitted, DeletionBlocked, Disciplined
<1>b. pc[w] \in MemberLabels => user.member
  BY DEF MemberInv
<1> USE <1>0, <1>a, <1>b DEF Goto, Finish, MemberLabels
<1>1. CASE \E v \in Workers :
            \/ ConsumeLink(v) \/ Verify(v) \/ ResendCheck(v) \/ Resend(v)
            \/ \E to \in Decisions : DecideCheck(v, to)
            \/ UndoCheck(v) \/ Decide(v)
  BY <1>1 DEF ConsumeLink, Verify, ResendCheck, Resend, DecideCheck, UndoCheck, Decide
<1>2. CASE \E v \in Workers :
            \/ SuspendCheck(v) \/ Suspend(v) \/ BanCheck(v) \/ Ban(v) \/ Invalidate(v)
            \/ \E t \in Ids : LiftFind(v, t)
            \/ LiftCheck(v) \/ Lift(v)
  BY <1>2 DEF SuspendCheck, Suspend, BanCheck, Ban, Invalidate, LiftFind, LiftCheck, Lift
<1>3. CASE \E v \in Workers :
            \/ JobList(v)
            \/ \E t \in Ids : JobCheck(v, t)
            \/ JobLift(v) \/ JobExpire(v) \/ JobInvalidate(v) \/ JobDone(v)
  BY <1>3 DEF JobList, JobCheck, JobLift, JobExpire, JobInvalidate, JobDone
<1>4. CASE \E v \in Workers :
            \/ DeleteCheck(v) \/ Delete(v) \/ DeleteToken(v)
            \/ CancelFind(v) \/ CancelCheck(v) \/ Cancel(v) \/ CancelToken(v)
            \/ EraseList(v) \/ Erase(v) \/ Scrub(v)
  BY <1>4 DEF DeleteCheck, Delete, DeleteToken, CancelFind, CancelCheck, Cancel,
              CancelToken, EraseList, Erase, Scrub, ToErase
<1>5. CASE \E v \in Workers : FillMiss(v) \/ FillRead(v) \/ FillSet(v) \/ Stop(v)
  BY <1>5 DEF FillMiss, FillRead, FillSet, Stop
<1>6. CASE \/ \E t \in Ids : SuspensionEnds(t)
           \/ GraceEnds \/ LinkExpires \/ TokenExpires \/ CacheExpires
  BY <1>6 DEF SuspensionEnds, GraceEnds, LinkExpires, TokenExpires, CacheExpires
<1>7. CASE UNCHANGED vars
  BY <1>7 DEF vars
<1> QED BY <1>1, <1>2, <1>3, <1>4, <1>5, <1>6, <1>7, NextCases

(* Nobody is let in whom no admin has approved, with any number of         *)
(* requests that overlap: a stale lift, cancellation or undo cannot admit. *)
THEOREM AdmittedOnlyByAdmin == Spec => []AdmittedByAdmin
<1>1. Init => MemberInv
  BY DEF Init, MemberInv, AdmittedByAdmin, Admitted, DeletionBlocked, Disciplined, MemberLabels
<1>2. TypeInv /\ MemberInv /\ [Next]_vars => MemberInv'
  <2> SUFFICES ASSUME TypeInv, MemberInv, [Next]_vars PROVE MemberInv'
    OBVIOUS
  <2>1. \A w \in Workers : pc'[w] \in MemberLabels => user'.member
    BY MemberChecked, MemberSteps
  <2> QED BY <2>1, MemberSteps DEF MemberInv
<1>3. MemberInv => AdmittedByAdmin
  BY DEF MemberInv
<1> QED BY <1>1, <1>2, <1>3, TypeCorrect, PTL DEF Spec
===============================================================================
