------------------------- MODULE JobApplicationsProofs -------------------------
(***************************************************************************)
(* Proofs about JobApplications for every set of seekers, workers and keys *)
(* and every bound on the trail.  The invariants are layered: types, the   *)
(* trail's end, what an updating request has read, and the chain that an   *)
(* application without overlapping transitions keeps.                      *)
(***************************************************************************)
EXTENDS JobApplications, FiniteSetTheorems, TLAPS

(* The requests' steps that touch no application and no trail. *)
Aside(w) ==
  \/ \E s \in Seekers, key \in Keys \cup {NoKey} : SubmitCheck(w, s, key)
  \/ AcquireKey(w) \/ Replay(w) \/ InsertRefused(w) \/ SaveKey(w) \/ Fail(w)

(* The steps of Next, by what they do to the applications. *)
LEMMA NextCases ==
  ASSUME Next
  PROVE  \/ JobMoves
         \/ \E s \in Seekers, key \in Keys : KeyExpires(s, key)
         \/ \E w \in Workers :
              \/ Aside(w) \/ Insert(w) \/ TransitionCommit(w)
              \/ \E s \in Seekers, actor \in Actors, to \in Status :
                   TransitionRead(w, s, actor, to)
  BY Zenon DEF Next, Aside

LEMMA StatusFacts ==
  /\ Status = {"submitted", "under_review", "shortlisted", "interview", "offered",
               "hired", "rejected", "withdrawn"}
  /\ "none" \notin Status
<1>1. \A i \in 1 .. 6 : Stages[i] \in {"submitted", "under_review", "shortlisted", "interview",
                                       "offered", "hired"}
  BY DEF Stages
<1>2. /\ Stages[1] = "submitted" /\ Stages[2] = "under_review" /\ Stages[3] = "shortlisted"
      /\ Stages[4] = "interview" /\ Stages[5] = "offered" /\ Stages[6] = "hired"
  BY DEF Stages
<1> QED
  BY <1>1, <1>2 DEF Status, Terminal

LEMMA NoRequestType == NoRequest \in Request /\ NoRequest.seeker = NoSeeker
  BY DEF NoRequest, Request, Actors

(* A step that leaves the applications and their trails alone. *)
LEMMA AsideEffect ==
  ASSUME TypeOK, NEW w \in Workers, Aside(w)
  PROVE  /\ UNCHANGED <<app, trail, raced>>
         /\ \A v \in Workers : pc'[v] = "update" => pc[v] = "update" /\ req'[v] = req[v]
  BY DEF Aside, SubmitCheck, AcquireKey, Replay, InsertRefused, SaveKey, Fail, Finish, TypeOK

LEMMA InsertEffect ==
  ASSUME TypeOK, NEW w \in Workers, Insert(w)
  PROVE  \E s \in Seekers :
           /\ app[s] = "none" /\ UNCHANGED raced
           /\ app' = [app EXCEPT ![s] = "submitted"]
           /\ trail' = [trail EXCEPT ![s] = Append(@,
                [from |-> "submitted", to |-> "submitted", actor |-> "job_seeker"])]
           /\ \A v \in Workers : pc'[v] = "update" => pc[v] = "update" /\ req'[v] = req[v]
<1>1. req[w].seeker \in Seekers
  BY DEF Insert, TypeOK
<1>2. \A v \in Workers : pc'[v] = "update" => pc[v] = "update" /\ req'[v] = req[v]
  BY DEF Insert, Finish, TypeOK
<1> QED
  BY <1>1, <1>2 DEF Insert, UniqueAllows

LEMMA CommitEffect ==
  ASSUME TypeOK, NEW w \in Workers, TransitionCommit(w)
  PROVE  /\ req[w].seeker \in Seekers
         /\ pc[w] = "update" /\ Allowed(req[w].actor, req[w].from, req[w].to)
         /\ app' = [app EXCEPT ![req[w].seeker] = req[w].to]
         /\ trail' = [trail EXCEPT ![req[w].seeker] = Append(@,
              [from |-> req[w].from, to |-> req[w].to, actor |-> req[w].actor])]
         /\ UNCHANGED raced
         /\ \A v \in Workers : pc'[v] = "update" => v # w /\ pc[v] = "update" /\ req'[v] = req[v]
<1>1. \A v \in Workers : pc'[v] = "update" => v # w /\ pc[v] = "update" /\ req'[v] = req[v]
  BY DEF TransitionCommit, Finish, TypeOK
<1> QED
  BY <1>1 DEF TransitionCommit, TypeOK

(* The table leads to statuses only, and starts from them. *)
LEMMA AllowedType ==
  ASSUME NEW actor, NEW from \in Status \cup {"none"}, NEW to \in Status \cup {"none"},
         Allowed(actor, from, to)
  PROVE  actor \in Actors /\ to \in Status /\ from \notin Terminal
<1>1. Advances(from, to) => to \in Status
  BY DEF Advances, Stages, Status
<1> QED
  BY <1>1, StatusFacts DEF Allowed, Actors

-------------------------------------------------------------------------------
(* TypeOK is inductive once an updating request is known to have read a   *)
(* status, which it writes into the trail, and one that is at an           *)
(* idempotency key to have sent one: the requests, and the tables.         *)
RequestsOK ==
  /\ pc \in [Workers -> {"idle", "acquire", "insert", "save_key", "update"}]
  /\ req \in [Workers -> Request]
  /\ \A w \in Workers : pc[w] # "idle" => req[w].seeker \in Seekers
  /\ \A w \in Workers : pc[w] = "update"
       => Allowed(req[w].actor, req[w].from, req[w].to) /\ req[w].from \in Status
  /\ \A w \in Workers : pc[w] \in {"acquire", "save_key"} => req[w].key \in Keys

TypeInv == TypeOK /\ RequestsOK

LEMMA TypeInit == Init => TypeInv
<1> SUFFICES ASSUME Init PROVE TypeInv
  OBVIOUS
<1>1. req \in [Workers -> Request]
  BY NoRequestType DEF Init
<1>2. trail \in [Seekers -> Seq(Entry)]
  BY DEF Init
<1> QED
  BY <1>1, <1>2 DEF Init, TypeInv, RequestsOK, TypeOK

(* A request that ends leaves the requests well typed. *)
LEMMA FinishType ==
  ASSUME TypeInv, NEW w \in Workers, Finish(w)
  PROVE  RequestsOK'
<1>1. req' \in [Workers -> Request]
  BY NoRequestType DEF Finish, TypeInv, RequestsOK
<1>2. /\ pc' \in [Workers -> {"idle", "acquire", "insert", "save_key", "update"}]
      /\ pc'[w] = "idle"
      /\ \A v \in Workers : v # w => pc'[v] = pc[v] /\ req'[v] = req[v]
  BY DEF Finish, TypeInv, RequestsOK
<1> QED
  BY <1>1, <1>2 DEF TypeInv, RequestsOK

LEMMA TypeStep == TypeInv /\ [Next]_vars => TypeInv'
<1> SUFFICES ASSUME TypeInv, [Next]_vars PROVE TypeInv'
  OBVIOUS
<1> TypeOK /\ RequestsOK
  BY DEF TypeInv
<1> USE DEF TypeInv, RequestsOK
<1>1. CASE UNCHANGED vars
  BY <1>1 DEF vars, TypeOK
<1>2. CASE JobMoves
  BY <1>2 DEF JobMoves, TypeOK
<1>3. ASSUME NEW s \in Seekers, NEW key \in Keys, KeyExpires(s, key) PROVE TypeInv'
  <2>1. acquired' \in [Seekers -> SUBSET Keys]
    BY <1>3 DEF KeyExpires, TypeOK
  <2> QED
    BY <1>3, <2>1 DEF KeyExpires, TypeOK
<1>4. ASSUME NEW w \in Workers, NEW s \in Seekers, NEW key \in Keys \cup {NoKey},
             SubmitCheck(w, s, key)
      PROVE  TypeInv'
  <2>1. [NoRequest EXCEPT !.seeker = s, !.key = key] \in Request
    BY DEF NoRequest, Request, Actors
  <2>2. /\ [NoRequest EXCEPT !.seeker = s, !.key = key].seeker = s
        /\ [NoRequest EXCEPT !.seeker = s, !.key = key].key = key
    BY DEF NoRequest
  <2>3. /\ req' \in [Workers -> Request]
        /\ req'[w].seeker = s
        /\ pc'[w] = IF key = NoKey THEN "insert" ELSE "acquire"
        /\ req'[w].key = key
        /\ pc' \in [Workers -> {"idle", "acquire", "insert", "save_key", "update"}]
        /\ \A v \in Workers : v # w => pc'[v] = pc[v] /\ req'[v] = req[v]
    BY <1>4, <2>1, <2>2 DEF SubmitCheck, TypeOK
  <2> QED
    BY <1>4, <2>3 DEF SubmitCheck, TypeOK
<1>5. ASSUME NEW w \in Workers, NEW s \in Seekers, NEW actor \in Actors, NEW to \in Status,
             TransitionRead(w, s, actor, to)
      PROVE  TypeInv'
  <2> DEFINE r == [NoRequest EXCEPT !.seeker = s, !.actor = actor, !.from = app[s], !.to = to]
  <2>1. r \in Request /\ r.seeker = s /\ r.actor = actor /\ r.from = app[s] /\ r.to = to
    BY DEF NoRequest, Request, TypeOK
  <2>2. req' = [req EXCEPT ![w] = r] /\ pc' = [pc EXCEPT ![w] = "update"]
    BY <1>5 DEF TransitionRead
  <2> HIDE DEF r
  <2>3. app[s] \in Status /\ Allowed(actor, app[s], to)
    BY <1>5 DEF TransitionRead, TypeOK
  <2>4. raced' \in [Seekers -> BOOLEAN]
    BY <1>5 DEF TransitionRead, TypeOK
  <2> QED
    BY <1>5, <2>1, <2>2, <2>3, <2>4 DEF TransitionRead, TypeOK
<1>6. ASSUME NEW w \in Workers, AcquireKey(w) PROVE TypeInv'
  <2>1. req[w].seeker \in Seekers /\ req[w].key \in Keys
    BY <1>6 DEF AcquireKey
  <2>2. acquired' \in [Seekers -> SUBSET Keys]
    BY <1>6, <2>1 DEF AcquireKey, TypeOK
  <2> QED
    BY <1>6, <2>2 DEF AcquireKey, TypeOK
<1>7. ASSUME NEW w \in Workers, Insert(w) PROVE TypeInv'
  <2>1. PICK s \in Seekers :
          /\ app' = [app EXCEPT ![s] = "submitted"]
          /\ trail' = [trail EXCEPT ![s] = Append(@,
               [from |-> "submitted", to |-> "submitted", actor |-> "job_seeker"])]
    BY <1>7, InsertEffect
  <2>2. [from |-> "submitted", to |-> "submitted", actor |-> "job_seeker"] \in Entry
    BY StatusFacts DEF Entry, Actors
  <2>3. app' \in [Seekers -> Status \cup {"none"}] /\ trail' \in [Seekers -> Seq(Entry)]
    BY <2>1, <2>2, StatusFacts DEF TypeOK
  <2>4. RequestsOK'
    <3>1. CASE Finish(w)
      BY <3>1, FinishType
    <3>2. CASE pc' = [pc EXCEPT ![w] = "save_key"] /\ UNCHANGED req /\ req[w].key # NoKey
      <4>1. req[w].key \in Keys /\ req[w].seeker \in Seekers
        BY <1>7, <3>2 DEF Insert, Request
      <4>2. pc[w] = "insert"
        BY <1>7 DEF Insert
      <4>3. /\ pc'[w] = "save_key" /\ req' = req
            /\ \A v \in Workers \ {w} : pc'[v] = pc[v]
        BY <3>2
      <4>4. pc' \in [Workers -> {"idle", "acquire", "insert", "save_key", "update"}]
        BY <3>2
      <4> QED
        BY <4>1, <4>3, <4>4
    <3> QED
      BY <1>7, <3>1, <3>2 DEF Insert
  <2> QED
    BY <1>7, <2>3, <2>4 DEF Insert, TypeOK
<1>8. ASSUME NEW w \in Workers, SaveKey(w) PROVE TypeInv'
  <2>1. acquired' \in [Seekers -> SUBSET Keys]
    BY <1>8 DEF SaveKey, TypeOK
  <2> QED
    BY <1>8, <2>1, FinishType DEF SaveKey, TypeOK
<1>9. ASSUME NEW w \in Workers, Replay(w) \/ Fail(w) PROVE TypeInv'
  BY <1>9, FinishType DEF Replay, Fail, TypeOK
<1>10. ASSUME NEW w \in Workers, InsertRefused(w) PROVE TypeInv'
  <2>1. app[req[w].seeker] \in Status
    BY <1>10 DEF InsertRefused, UniqueAllows, TypeOK
  <2> QED
    BY <1>10, <2>1, FinishType DEF InsertRefused, TypeOK
<1>11. ASSUME NEW w \in Workers, TransitionCommit(w) PROVE TypeInv'
  <2>1. req[w].actor \in Actors /\ req[w].to \in Status
    BY <1>11, CommitEffect, AllowedType DEF TypeOK, Request
  <2>2. [from |-> req[w].from, to |-> req[w].to, actor |-> req[w].actor] \in Entry
    BY <1>11, <2>1 DEF TransitionCommit, Entry
  <2> DEFINE e == [from |-> req[w].from, to |-> req[w].to, actor |-> req[w].actor]
  <2>3. app' \in [Seekers -> Status \cup {"none"}] /\ trail' \in [Seekers -> Seq(Entry)]
    <3>1. /\ req[w].seeker \in Seekers
          /\ app' = [app EXCEPT ![req[w].seeker] = req[w].to]
          /\ trail' = [trail EXCEPT ![req[w].seeker] = Append(@, e)]
      BY <1>11, CommitEffect
    <3>2. trail[req[w].seeker] \in Seq(Entry) /\ e \in Entry
      BY <2>2, <3>1 DEF TypeOK
    <3> HIDE DEF e
    <3>3. Append(trail[req[w].seeker], e) \in Seq(Entry)
      BY <3>2
    <3> QED
      BY <2>1, <3>1, <3>3 DEF TypeOK
  <2> QED
    BY <1>11, <2>3, FinishType DEF TransitionCommit, TypeOK
<1> QED
  BY <1>1, <1>2, <1>3, <1>4, <1>5, <1>6, <1>7, <1>8, <1>9, <1>10, <1>11, NextCases DEF Aside

(* TypeOK holds in every reachable state, for every value of the constants. *)
THEOREM TypeCorrect == Spec => []TypeOK
<1>1. TypeInv => TypeOK
  BY DEF TypeInv
<1> QED
  BY <1>1, TypeInit, TypeStep, PTL DEF Spec

-------------------------------------------------------------------------------
LEMMA TrailInit == Init => TrailEndsAtStatus
  BY DEF Init, TrailEndsAtStatus

(* Every step that changes a status appends the entry that ends at it. *)
LEMMA TrailStep == TypeInv /\ TrailEndsAtStatus /\ [Next]_vars => TrailEndsAtStatus'
<1> SUFFICES ASSUME TypeInv, TypeOK, TrailEndsAtStatus, [Next]_vars PROVE TrailEndsAtStatus'
  BY DEF TypeInv
<1>1. CASE UNCHANGED <<app, trail>>
  BY <1>1 DEF TrailEndsAtStatus
<1>2. ASSUME NEW s \in Seekers, NEW e \in Entry, e.to \in Status,
             app' = [app EXCEPT ![s] = e.to], trail' = [trail EXCEPT ![s] = Append(@, e)]
      PROVE  TrailEndsAtStatus'
  <2>1. trail[s] \in Seq(Entry) /\ app'[s] = e.to /\ trail'[s] = Append(trail[s], e)
    BY <1>2 DEF TypeOK
  <2>2. trail'[s] # <<>> /\ trail'[s][Len(trail'[s])] = e
    BY <1>2, <2>1
  <2>3. \A t \in Seekers \ {s} : app'[t] = app[t] /\ trail'[t] = trail[t]
    BY <1>2 DEF TypeOK
  <2> QED
    BY <1>2, <2>1, <2>2, <2>3, StatusFacts DEF TrailEndsAtStatus
<1>3. ASSUME NEW w \in Workers, Insert(w) PROVE TrailEndsAtStatus'
  <2> DEFINE e == [from |-> "submitted", to |-> "submitted", actor |-> "job_seeker"]
  <2>1. e \in Entry /\ e.to = "submitted" /\ e.to \in Status
    BY StatusFacts DEF Entry, Actors
  <2>2. PICK s \in Seekers : /\ app' = [app EXCEPT ![s] = e.to]
                             /\ trail' = [trail EXCEPT ![s] = Append(@, e)]
    BY <1>3, InsertEffect
  <2> HIDE DEF e
  <2> QED
    BY <1>2, <2>1, <2>2
<1>4. ASSUME NEW w \in Workers, TransitionCommit(w) PROVE TrailEndsAtStatus'
  <2> DEFINE e == [from |-> req[w].from, to |-> req[w].to, actor |-> req[w].actor]
  <2>1. e \in Entry /\ e.to = req[w].to /\ e.to \in Status
    <3>1. req[w].actor \in Actors /\ req[w].to \in Status
      BY <1>4, CommitEffect, AllowedType DEF TypeOK, Request
    <3>2. req[w].from \in Status
      BY <1>4 DEF TransitionCommit, TypeInv, RequestsOK
    <3> QED
      BY <3>1, <3>2 DEF Entry
  <2>2. /\ req[w].seeker \in Seekers
        /\ app' = [app EXCEPT ![req[w].seeker] = e.to]
        /\ trail' = [trail EXCEPT ![req[w].seeker] = Append(@, e)]
    BY <1>4, CommitEffect
  <2> HIDE DEF e
  <2> QED
    BY <1>2, <2>1, <2>2
<1>5. ASSUME NEW w \in Workers,
             \/ Aside(w)
             \/ \E s \in Seekers, actor \in Actors, to \in Status :
                  TransitionRead(w, s, actor, to)
      PROVE  UNCHANGED <<app, trail>>
  BY <1>5, AsideEffect DEF TransitionRead
<1>6. JobMoves \/ (\E s \in Seekers, key \in Keys : KeyExpires(s, key))
        => UNCHANGED <<app, trail>>
  BY DEF JobMoves, KeyExpires
<1> QED
  BY <1>1, <1>3, <1>4, <1>5, <1>6, NextCases DEF vars

LEMMA TrailHeld == Spec => [](TypeInv /\ TrailEndsAtStatus)
  BY TypeInit, TypeStep, TrailInit, TrailStep, PTL DEF Spec

(* No status is reached that the audit trail does not end at, whatever *)
(* transitions race: status and trail row commit in one transaction.   *)
THEOREM StatusExplained == Spec => []TrailEndsAtStatus
  BY TrailHeld, PTL

-------------------------------------------------------------------------------
(* What an updating request has read is in the trail, and stays there: *)
(* NoStageSkipped rests on it.                                         *)
InTrail(s, status) == \E i \in 1 .. Len(trail[s]) : trail[s][i].to = status

StageInv ==
  /\ NoStageSkipped
  /\ \A w \in Workers : pc[w] = "update" => InTrail(req[w].seeker, req[w].from)

LEMMA StageInit == Init => StageInv
  BY DEF Init, StageInv, NoStageSkipped

(* An entry that the table allows, from a status the trail already shows, *)
(* or the first one of an empty trail.                                    *)
LEMMA StageAppend ==
  ASSUME TypeOK, StageInv, NEW s \in Seekers, NEW e \in Entry,
         trail' = [trail EXCEPT ![s] = Append(@, e)],
         trail[s] # <<>> => Allowed(e.actor, e.from, e.to) /\ InTrail(s, e.from),
         \A v \in Workers : pc'[v] = "update" => pc[v] = "update" /\ req'[v] = req[v]
  PROVE  StageInv'
<1>1. /\ trail[s] \in Seq(Entry) /\ trail'[s] = Append(trail[s], e)
      /\ \A t \in Seekers \ {s} : trail'[t] = trail[t]
  BY DEF TypeOK
<1>2. /\ Len(trail'[s]) = Len(trail[s]) + 1 /\ Len(trail[s]) \in Nat
      /\ \A i \in 1 .. Len(trail[s]) : trail'[s][i] = trail[s][i]
      /\ trail'[s][Len(trail[s]) + 1] = e
  BY <1>1
<1>3. NoStageSkipped'
  <2> SUFFICES ASSUME NEW t \in Seekers, NEW i \in 2 .. Len(trail'[t])
               PROVE  /\ Allowed(trail'[t][i].actor, trail'[t][i].from, trail'[t][i].to)
                      /\ \E j \in 1 .. i - 1 : trail'[t][j].to = trail'[t][i].from
    BY DEF NoStageSkipped
  <2>1. CASE t # s
    BY <1>1, <2>1 DEF StageInv, NoStageSkipped
  <2>2. CASE t = s /\ i \in 2 .. Len(trail[s])
    <3>1. /\ Allowed(trail[s][i].actor, trail[s][i].from, trail[s][i].to)
          /\ \E j \in 1 .. i - 1 : trail[s][j].to = trail[s][i].from
      BY <2>2 DEF StageInv, NoStageSkipped
    <3>2. \A j \in 1 .. i : trail'[s][j] = trail[s][j]
      BY <1>2, <2>2
    <3> QED
      BY <1>2, <2>2, <3>1, <3>2
  <2>3. CASE t = s /\ i = Len(trail[s]) + 1
    <3>1. trail[s] # <<>>
      BY <1>1, <1>2, <2>3
    <3>2. Allowed(e.actor, e.from, e.to) /\ \E j \in 1 .. Len(trail[s]) : trail[s][j].to = e.from
      BY <3>1 DEF InTrail
    <3> QED
      BY <1>2, <2>3, <3>2
  <2> QED
    BY <1>2, <2>1, <2>2, <2>3
<1>4. ASSUME NEW t \in Seekers, NEW status, InTrail(t, status) PROVE InTrail(t, status)'
  BY <1>1, <1>2, <1>4 DEF InTrail
<1>5. ASSUME NEW v \in Workers, pc'[v] = "update"
      PROVE  InTrail(req[v].seeker, req[v].from)'
  <2>1. /\ pc[v] = "update" /\ req'[v] = req[v] /\ req[v].seeker \in Seekers
        /\ InTrail(req[v].seeker, req[v].from)
    BY <1>5 DEF StageInv, TypeOK
  <2>2. \A t \in Seekers : \A status : InTrail(t, status) => InTrail(t, status)'
    BY <1>4
  <2> QED
    BY <2>1, <2>2 DEF InTrail
<1> QED
  BY <1>3, <1>5 DEF StageInv

LEMMA StageStep ==
  TypeInv /\ TypeInv' /\ TrailEndsAtStatus /\ StageInv /\ [Next]_vars => StageInv'
<1> SUFFICES ASSUME TypeInv, TypeOK, TypeOK', TrailEndsAtStatus, StageInv, [Next]_vars
             PROVE  StageInv'
  BY DEF TypeInv
<1>1. ASSUME UNCHANGED trail,
             \A v \in Workers : pc'[v] = "update" =>
               \/ pc[v] = "update" /\ req'[v] = req[v]
               \/ InTrail(req[v].seeker, req[v].from)'
      PROVE  StageInv'
  BY <1>1 DEF StageInv, NoStageSkipped, InTrail
<1>2. CASE UNCHANGED vars
  BY <1>1, <1>2 DEF vars
<1>3. ASSUME NEW w \in Workers, Insert(w) PROVE StageInv'
  <2> DEFINE e == [from |-> "submitted", to |-> "submitted", actor |-> "job_seeker"]
  <2>1. e \in Entry
    BY StatusFacts DEF Entry, Actors
  <2>2. PICK s \in Seekers :
          /\ app[s] = "none"
          /\ trail' = [trail EXCEPT ![s] = Append(@, e)]
          /\ \A v \in Workers : pc'[v] = "update" => pc[v] = "update" /\ req'[v] = req[v]
    BY <1>3, InsertEffect
  <2>3. trail[s] = <<>>
    BY <2>2 DEF TrailEndsAtStatus
  <2> HIDE DEF e
  <2> QED
    BY <2>1, <2>2, <2>3, StageAppend
<1>4. ASSUME NEW w \in Workers, TransitionCommit(w) PROVE StageInv'
  <2> DEFINE e == [from |-> req[w].from, to |-> req[w].to, actor |-> req[w].actor]
  <2>1. req[w].actor \in Actors /\ req[w].to \in Status /\ req[w].from \in Status
    BY <1>4, CommitEffect, AllowedType DEF TypeOK, Request, TypeInv, RequestsOK
  <2>2. e \in Entry /\ e.actor = req[w].actor /\ e.from = req[w].from /\ e.to = req[w].to
    BY <2>1 DEF Entry
  <2>3. /\ req[w].seeker \in Seekers
        /\ Allowed(req[w].actor, req[w].from, req[w].to)
        /\ InTrail(req[w].seeker, req[w].from)
        /\ trail' = [trail EXCEPT ![req[w].seeker] = Append(@, e)]
        /\ \A v \in Workers : pc'[v] = "update" => pc[v] = "update" /\ req'[v] = req[v]
    BY <1>4, CommitEffect DEF StageInv
  <2> HIDE DEF e
  <2> QED
    BY <2>2, <2>3, StageAppend
<1>5. ASSUME NEW w \in Workers, NEW s \in Seekers, NEW actor \in Actors, NEW to \in Status,
             TransitionRead(w, s, actor, to)
      PROVE  StageInv'
  <2>1. /\ UNCHANGED trail
        /\ req'[w].seeker = s /\ req'[w].from = app[s]
        /\ \A v \in Workers \ {w} : pc'[v] = pc[v] /\ req'[v] = req[v]
    BY <1>5 DEF TransitionRead, NoRequest, TypeOK
  <2>2. trail[s] # <<>> /\ trail[s][Len(trail[s])].to = app[s]
    BY <1>5 DEF TransitionRead, TrailEndsAtStatus
  <2>3. Len(trail[s]) \in 1 .. Len(trail[s])
    <3>1. trail[s] \in Seq(Entry)
      BY DEF TypeOK
    <3> QED
      BY <2>2, <3>1
  <2>4. InTrail(req[w].seeker, req[w].from)'
    BY <2>1, <2>2, <2>3 DEF InTrail
  <2> QED
    BY <1>1, <2>1, <2>4
<1>6. ASSUME NEW w \in Workers, Aside(w) PROVE StageInv'
  BY <1>1, <1>6, AsideEffect
<1>7. CASE JobMoves \/ \E s \in Seekers, key \in Keys : KeyExpires(s, key)
  BY <1>1, <1>7 DEF JobMoves, KeyExpires
<1> QED
  BY <1>2, <1>3, <1>4, <1>5, <1>6, <1>7, NextCases

(* Nobody is hired who was never offered the job: a transition that races *)
(* with another still starts from a status the application really had.    *)
THEOREM StagesInOrder == Spec => []NoStageSkipped
<1>1. StageInv => NoStageSkipped
  BY DEF StageInv
<1> QED
  BY <1>1, TrailHeld, TypeInit, TypeStep, StageInit, StageStep, PTL DEF Spec

-------------------------------------------------------------------------------
(* While no two transitions of an application have overlapped, the one that *)
(* is updating it still holds the application's status in hand.             *)
Current(s) ==
  /\ \A v, w \in Transitioning(s) : v = w
  /\ \A w \in Transitioning(s) : req[w].from = app[s]

ChainInv ==
  /\ TrailIsChain
  /\ \A s \in Seekers : ~raced[s] => Current(s)

LEMMA ChainInit == Init => ChainInv
  BY DEF Init, ChainInv, TrailIsChain, Current, Transitioning

(* A step that lets nobody into the last transaction, and leaves s alone. *)
LEMMA ChainFrame ==
  ASSUME ChainInv, NEW s \in Seekers, ~raced'[s], raced'[s] = raced[s],
         app'[s] = app[s], trail'[s] = trail[s],
         \A v \in Workers : pc'[v] = "update" => pc[v] = "update" /\ req'[v] = req[v]
  PROVE  /\ Current(s)'
         /\ \A i \in 2 .. Len(trail'[s]) : trail'[s][i].from = trail'[s][i - 1].to
  BY DEF ChainInv, TrailIsChain, Current, Transitioning

(* A step that appends an entry starting from the status, if there is one. *)
LEMMA ChainAppend ==
  ASSUME TypeOK, TrailEndsAtStatus, ChainInv, NEW s \in Seekers, ~raced[s], NEW e \in Entry,
         trail'[s] = Append(trail[s], e), trail[s] # <<>> => e.from = app[s]
  PROVE  \A i \in 2 .. Len(trail'[s]) : trail'[s][i].from = trail'[s][i - 1].to
<1>1. trail[s] \in Seq(Entry)
  BY DEF TypeOK
<1>2. /\ Len(trail'[s]) = Len(trail[s]) + 1 /\ Len(trail[s]) \in Nat
      /\ \A i \in 1 .. Len(trail[s]) : trail'[s][i] = trail[s][i]
      /\ trail'[s][Len(trail[s]) + 1] = e
  BY <1>1
<1> SUFFICES ASSUME NEW i \in 2 .. Len(trail'[s])
             PROVE  trail'[s][i].from = trail'[s][i - 1].to
  OBVIOUS
<1>3. CASE i \in 2 .. Len(trail[s])
  BY <1>2, <1>3 DEF ChainInv, TrailIsChain
<1>4. CASE i = Len(trail[s]) + 1
  <2>1. trail[s] # <<>>
    BY <1>1, <1>2, <1>4
  <2>2. app[s] = trail[s][Len(trail[s])].to
    BY <2>1 DEF TrailEndsAtStatus
  <2> QED
    BY <1>2, <1>4, <2>1, <2>2
<1> QED
  BY <1>2, <1>3, <1>4

LEMMA ChainStep ==
  TypeInv /\ TypeOK' /\ TrailEndsAtStatus /\ ChainInv /\ [Next]_vars => ChainInv'
<1> SUFFICES ASSUME TypeInv, TypeOK, TypeOK', TrailEndsAtStatus, ChainInv, [Next]_vars,
                    NEW s \in Seekers, ~raced'[s]
             PROVE  /\ Current(s)'
                    /\ \A i \in 2 .. Len(trail'[s]) : trail'[s][i].from = trail'[s][i - 1].to
  BY DEF TypeInv, ChainInv, TrailIsChain
<1>1. CASE UNCHANGED vars
  BY <1>1, ChainFrame DEF vars
<1>2. ASSUME NEW w \in Workers, Aside(w)
      PROVE  /\ Current(s)'
             /\ \A i \in 2 .. Len(trail'[s]) : trail'[s][i].from = trail'[s][i - 1].to
  BY <1>2, AsideEffect, ChainFrame
<1>3. CASE JobMoves \/ \E t \in Seekers, key \in Keys : KeyExpires(t, key)
  BY <1>3, ChainFrame DEF JobMoves, KeyExpires
<1>4. ASSUME NEW w \in Workers, Insert(w)
      PROVE  /\ Current(s)'
             /\ \A i \in 2 .. Len(trail'[s]) : trail'[s][i].from = trail'[s][i - 1].to
  <2> DEFINE e == [from |-> "submitted", to |-> "submitted", actor |-> "job_seeker"]
  <2>1. e \in Entry
    BY StatusFacts DEF Entry, Actors
  <2>2. PICK t \in Seekers :
          /\ app[t] = "none" /\ UNCHANGED raced
          /\ app' = [app EXCEPT ![t] = "submitted"]
          /\ trail' = [trail EXCEPT ![t] = Append(@, e)]
          /\ \A v \in Workers : pc'[v] = "update" => pc[v] = "update" /\ req'[v] = req[v]
    BY <1>4, InsertEffect
  <2> HIDE DEF e
  <2>3. CASE t # s
    BY <2>2, <2>3, ChainFrame DEF TypeOK
  <2>4. CASE t = s
    <3>1. Transitioning(s) = {}
      BY <2>2, <2>4, StatusFacts
         DEF ChainInv, Current, Transitioning, TypeInv, RequestsOK
    <3>2. Current(s)'
      BY <2>2, <3>1 DEF Current, Transitioning
    <3>3. trail[s] = <<>> /\ trail'[s] = Append(trail[s], e)
      BY <2>2, <2>4 DEF TrailEndsAtStatus, TypeOK
    <3> QED
      BY <2>1, <2>2, <3>2, <3>3, ChainAppend
  <2> QED
    BY <2>3, <2>4
<1>5. ASSUME NEW w \in Workers, TransitionCommit(w)
      PROVE  /\ Current(s)'
             /\ \A i \in 2 .. Len(trail'[s]) : trail'[s][i].from = trail'[s][i - 1].to
  <2> DEFINE e == [from |-> req[w].from, to |-> req[w].to, actor |-> req[w].actor]
  <2>1. req[w].actor \in Actors /\ req[w].to \in Status /\ req[w].from \in Status
    BY <1>5, CommitEffect, AllowedType DEF TypeOK, Request, TypeInv, RequestsOK
  <2>2. e \in Entry /\ e.from = req[w].from
    BY <2>1 DEF Entry
  <2>3. /\ req[w].seeker \in Seekers /\ UNCHANGED raced /\ w \in Transitioning(req[w].seeker)
        /\ app' = [app EXCEPT ![req[w].seeker] = req[w].to]
        /\ trail' = [trail EXCEPT ![req[w].seeker] = Append(@, e)]
        /\ \A v \in Workers : pc'[v] = "update"
             => v # w /\ pc[v] = "update" /\ req'[v] = req[v]
    BY <1>5, CommitEffect DEF Transitioning
  <2> HIDE DEF e
  <2>4. CASE req[w].seeker # s
    BY <2>3, <2>4, ChainFrame DEF TypeOK
  <2>5. CASE req[w].seeker = s
    <3>1. /\ \A v \in Transitioning(s) : v = w
          /\ e.from = app[s]
      BY <2>2, <2>3, <2>5 DEF ChainInv, Current
    <3>2. Current(s)'
      BY <2>3, <2>5, <3>1 DEF Current, Transitioning
    <3>3. trail'[s] = Append(trail[s], e)
      BY <2>3, <2>5 DEF TypeOK
    <3> QED
      BY <2>2, <2>3, <3>1, <3>2, <3>3, ChainAppend
  <2> QED
    BY <2>4, <2>5
<1>6. ASSUME NEW w \in Workers, NEW t \in Seekers, NEW actor \in Actors, NEW to \in Status,
             TransitionRead(w, t, actor, to)
      PROVE  /\ Current(s)'
             /\ \A i \in 2 .. Len(trail'[s]) : trail'[s][i].from = trail'[s][i - 1].to
  <2>1. /\ UNCHANGED <<app, trail>>
        /\ req'[w].seeker = t /\ req'[w].from = app[t] /\ pc[w] = "idle"
        /\ \A v \in Workers \ {w} : pc'[v] = pc[v] /\ req'[v] = req[v]
    BY <1>6 DEF TransitionRead, NoRequest, TypeOK, Idle
  <2>2. ~raced[s] /\ (t = s => Transitioning(s) = {})
    BY <1>6 DEF TransitionRead, TypeOK
  <2>3. \A i \in 2 .. Len(trail'[s]) : trail'[s][i].from = trail'[s][i - 1].to
    BY <2>1, <2>2 DEF ChainInv, TrailIsChain
  <2>4. Current(s)
    BY <2>2 DEF ChainInv
  <2>5. CASE t = s
    <3>1. Transitioning(s)' \subseteq {w}
      BY <2>1, <2>2, <2>5 DEF Transitioning
    <3> QED
      BY <2>1, <2>3, <2>5, <3>1 DEF Current
  <2>6. CASE t # s
    <3>1. Transitioning(s)' \subseteq Transitioning(s) /\ w \notin Transitioning(s)'
      BY <2>1, <2>6 DEF Transitioning
    <3>2. \A v \in Transitioning(s)' : v \in Workers \ {w}
      BY <3>1 DEF Transitioning
    <3> QED
      BY <2>1, <2>3, <2>4, <3>1, <3>2 DEF Current
  <2> QED
    BY <2>5, <2>6
<1> QED
  BY <1>1, <1>2, <1>3, <1>4, <1>5, <1>6, NextCases

LEMMA ChainHeld == Spec => [](TypeInv /\ ChainInv)
<1>1. TypeInv => TypeOK
  BY DEF TypeInv
<1> QED
  BY <1>1, TrailHeld, TypeInit, TypeStep, ChainInit, ChainStep, PTL DEF Spec

(* Without overlapping transitions the trail of an application is a chain. *)
THEOREM Chained == Spec => []TrailIsChain
<1>1. ChainInv => TrailIsChain
  BY DEF ChainInv
<1> QED
  BY <1>1, ChainHeld, PTL

(* A hired, rejected or withdrawn application keeps its status unless two *)
(* transitions of it have overlapped: the update by id does not ask.      *)
THEOREM TerminalKept == Spec => TerminalFinalUnlessRaced
<1>1. ASSUME TypeInv, ChainInv, [Next]_vars, NEW s \in Seekers,
             app[s] \in Terminal, ~raced[s]
      PROVE  app'[s] = app[s]
  <2>1. TypeOK /\ Current(s) /\ app[s] # "none"
    BY <1>1 DEF TypeInv, ChainInv, Terminal
  <2>2. CASE \E w \in Workers : Insert(w)
    BY <2>1, <2>2, InsertEffect DEF TypeOK
  <2>3. ASSUME NEW w \in Workers, TransitionCommit(w) PROVE app'[s] = app[s]
    <3>1. w \in Transitioning(req[w].seeker) /\ req[w].from \notin Terminal
      BY <2>1, <2>3, CommitEffect DEF Transitioning, Allowed
    <3>2. req[w].seeker # s
      BY <1>1, <2>1, <3>1 DEF Current
    <3>3. app' = [app EXCEPT ![req[w].seeker] = req[w].to]
      BY <2>1, <2>3, CommitEffect
    <3> QED
      BY <3>2, <3>3, <2>1 DEF TypeOK
  <2>4. ASSUME NEW w \in Workers, Aside(w) PROVE app'[s] = app[s]
    BY <2>1, <2>4, AsideEffect
  <2>5. ASSUME \/ JobMoves
               \/ \E t \in Seekers, key \in Keys : KeyExpires(t, key)
               \/ \E w \in Workers, t \in Seekers, actor \in Actors, to \in Status :
                    TransitionRead(w, t, actor, to)
        PROVE  app'[s] = app[s]
    BY <2>5 DEF JobMoves, KeyExpires, TransitionRead
  <2> QED
    BY <1>1, <2>2, <2>3, <2>4, <2>5, NextCases DEF vars
<1>2. TypeInv /\ ChainInv /\ [Next]_vars
        => [\A s \in Seekers : app[s] \in Terminal /\ ~raced[s] => app'[s] = app[s]]_vars
  BY <1>1
<1> QED
  BY <1>2, ChainHeld, PTL DEF TerminalFinalUnlessRaced, Spec

-------------------------------------------------------------------------------
(* The ladder.  A trail starts with the submit, which no transition repeats. *)
StartsSubmitted == \A s \in Seekers : trail[s] # <<>> => trail[s][1].to = "submitted"

LEMMA StartInit == Init => StartsSubmitted
  BY DEF Init, StartsSubmitted

LEMMA StartStep ==
  ASSUME TypeInv, TypeOK, TrailEndsAtStatus, StageInv, StartsSubmitted, [Next]_vars
  PROVE  StartsSubmitted'
<1>1. UNCHANGED trail => StartsSubmitted'
  BY DEF StartsSubmitted
<1>2. ASSUME NEW s \in Seekers, NEW e \in Entry, trail' = [trail EXCEPT ![s] = Append(@, e)],
             trail[s] = <<>> => e.to = "submitted"
      PROVE  StartsSubmitted'
  <2>1. /\ trail[s] \in Seq(Entry) /\ trail'[s] = Append(trail[s], e)
        /\ \A t \in Seekers \ {s} : trail'[t] = trail[t]
    BY <1>2 DEF TypeOK
  <2>2. trail'[s][1] = IF trail[s] = <<>> THEN e ELSE trail[s][1]
    BY <2>1
  <2> QED
    BY <1>2, <2>1, <2>2 DEF StartsSubmitted
<1>3. ASSUME NEW w \in Workers, Insert(w) PROVE StartsSubmitted'
  <2> DEFINE e == [from |-> "submitted", to |-> "submitted", actor |-> "job_seeker"]
  <2>1. e \in Entry /\ e.to = "submitted"
    BY StatusFacts DEF Entry, Actors
  <2>2. PICK s \in Seekers : trail' = [trail EXCEPT ![s] = Append(@, e)]
    BY <1>3, InsertEffect
  <2> HIDE DEF e
  <2> QED
    BY <1>2, <2>1, <2>2
<1>4. ASSUME NEW w \in Workers, TransitionCommit(w) PROVE StartsSubmitted'
  <2> DEFINE e == [from |-> req[w].from, to |-> req[w].to, actor |-> req[w].actor]
  <2>1. req[w].actor \in Actors /\ req[w].to \in Status /\ req[w].from \in Status
    BY <1>4, CommitEffect, AllowedType DEF Request, TypeInv, RequestsOK
  <2>2. e \in Entry
    BY <2>1 DEF Entry
  <2>3. req[w].seeker \in Seekers /\ trail[req[w].seeker] # <<>>
    <3>1. req[w].seeker \in Seekers /\ InTrail(req[w].seeker, req[w].from)
      BY <1>4, CommitEffect DEF StageInv
    <3>2. trail[req[w].seeker] \in Seq(Entry) /\ Len(<<>>) = 0
      BY <3>1 DEF TypeOK
    <3> QED
      BY <3>1, <3>2 DEF InTrail
  <2>4. trail' = [trail EXCEPT ![req[w].seeker] = Append(@, e)]
    BY <1>4, CommitEffect
  <2> HIDE DEF e
  <2> QED
    BY <1>2, <2>2, <2>3, <2>4
<1>5. ASSUME NEW w \in Workers, Aside(w) PROVE StartsSubmitted'
  BY <1>1, <1>5, AsideEffect
<1>6. ASSUME \/ JobMoves
             \/ \E s \in Seekers, key \in Keys : KeyExpires(s, key)
             \/ \E w \in Workers, s \in Seekers, actor \in Actors, to \in Status :
                  TransitionRead(w, s, actor, to)
      PROVE  StartsSubmitted'
  BY <1>1, <1>6 DEF JobMoves, KeyExpires, TransitionRead
<1> QED
  BY <1>1, <1>3, <1>4, <1>5, <1>6, NextCases DEF vars

(* The rungs differ, and only an advance leads to one above the first. *)
LEMMA RungBelow ==
  ASSUME NEW i \in 1 .. 5, NEW actor, NEW from, Allowed(actor, from, Stages[i + 1])
  PROVE  from = Stages[i]
<1>1. /\ Stages[1] = "submitted" /\ Stages[2] = "under_review" /\ Stages[3] = "shortlisted"
      /\ Stages[4] = "interview" /\ Stages[5] = "offered" /\ Stages[6] = "hired"
  BY DEF Stages
<1>2. i = 1 \/ i = 2 \/ i = 3 \/ i = 4 \/ i = 5
  OBVIOUS
<1>3. PICK j \in 1 .. 5 : from = Stages[j] /\ Stages[i + 1] = Stages[j + 1]
  <2>1. Stages[i + 1] \notin {"rejected", "withdrawn"}
    BY <1>1, <1>2
  <2> QED
    BY <2>1 DEF Allowed, Advances
<1>4. j = 1 \/ j = 2 \/ j = 3 \/ j = 4 \/ j = 5
  OBVIOUS
<1>5. i = j
  BY <1>1, <1>2, <1>3, <1>4
<1> QED
  BY <1>3, <1>5

(* Below an entry at one rung the trail has an earlier one at the rung before. *)
LEMMA OneRungDown ==
  ASSUME TypeOK, NoStageSkipped, StartsSubmitted, NEW s \in Seekers, NEW i \in 1 .. 5,
         NEW k \in 1 .. Len(trail[s]), trail[s][k].to = Stages[i + 1]
  PROVE  \E j \in 1 .. Len(trail[s]) : j < k /\ trail[s][j].to = Stages[i]
<1>1. trail[s] \in Seq(Entry) /\ Len(trail[s]) \in Nat
  BY DEF TypeOK
<1>2. k # 1
  <2>1. Stages[i + 1] # "submitted"
    BY DEF Stages
  <2>2. trail[s] # <<>>
    BY <1>1
  <2> QED
    BY <2>1, <2>2 DEF StartsSubmitted
<1>3. k \in 2 .. Len(trail[s])
  BY <1>1, <1>2
<1>4. /\ Allowed(trail[s][k].actor, trail[s][k].from, Stages[i + 1])
      /\ \E j \in 1 .. k - 1 : trail[s][j].to = trail[s][k].from
  BY <1>3 DEF NoStageSkipped
<1>5. trail[s][k].from = Stages[i]
  BY <1>4, RungBelow
<1> QED
  BY <1>1, <1>4, <1>5

(* Nobody is hired who was not submitted, reviewed, shortlisted,           *)
(* interviewed and offered before, in this order, whatever overlapped.     *)
THEOREM HiredClimbedLadder == Spec => []HiredClimbed
<1>1. ASSUME TypeOK, TrailEndsAtStatus, NoStageSkipped, StartsSubmitted, NEW s \in Seekers,
             app[s] = "hired"
      PROVE  Climbed(s)
  <2> DEFINE n == Len(trail[s])
             to(k) == trail[s][k].to
  <2>1. n \in 1 .. n /\ to(n) = Stages[6] /\ n \in Nat
    <3>1. trail[s] # <<>> /\ trail[s] \in Seq(Entry) /\ to(n) = "hired"
      BY <1>1 DEF TrailEndsAtStatus, TypeOK
    <3> QED
      BY <3>1 DEF Stages
  <2>2. \A i \in 1 .. 5 : \A k \in 1 .. n : to(k) = Stages[i + 1]
          => \E j \in 1 .. n : j < k /\ to(j) = Stages[i]
    BY <1>1, OneRungDown
  <2> HIDE DEF n, to
  <2>3. PICK k5 \in 1 .. n : k5 < n /\ to(k5) = Stages[5]
    <3>1. 5 \in 1 .. 5 /\ 5 + 1 = 6
      OBVIOUS
    <3> QED BY <2>1, <2>2, <3>1
  <2>4. PICK k4 \in 1 .. n : k4 < k5 /\ to(k4) = Stages[4]
    <3>1. 4 \in 1 .. 5 /\ 4 + 1 = 5
      OBVIOUS
    <3> QED BY <2>2, <2>3, <3>1
  <2>5. PICK k3 \in 1 .. n : k3 < k4 /\ to(k3) = Stages[3]
    <3>1. 3 \in 1 .. 5 /\ 3 + 1 = 4
      OBVIOUS
    <3> QED BY <2>2, <2>4, <3>1
  <2>6. PICK k2 \in 1 .. n : k2 < k3 /\ to(k2) = Stages[2]
    <3>1. 2 \in 1 .. 5 /\ 2 + 1 = 3
      OBVIOUS
    <3> QED BY <2>2, <2>5, <3>1
  <2>7. PICK k1 \in 1 .. n : k1 < k2 /\ to(k1) = Stages[1]
    <3>1. 1 \in 1 .. 5 /\ 1 + 1 = 2
      OBVIOUS
    <3> QED BY <2>2, <2>6, <3>1
  <2> DEFINE at == [i \in 1 .. 6 |-> IF i = 1 THEN k1 ELSE IF i = 2 THEN k2 ELSE IF i = 3 THEN k3
                                     ELSE IF i = 4 THEN k4 ELSE IF i = 5 THEN k5 ELSE n]
  <2>8. /\ at[1] = k1 /\ at[2] = k2 /\ at[3] = k3 /\ at[4] = k4 /\ at[5] = k5 /\ at[6] = n
        /\ at \in [1 .. 6 -> 1 .. n]
    BY <2>1
  <2> HIDE DEF at
  <2>9. \A i \in 1 .. 5 : at[i] < at[i + 1]
    <3> SUFFICES ASSUME NEW i \in 1 .. 5 PROVE at[i] < at[i + 1]
      OBVIOUS
    <3>1. i = 1 \/ i = 2 \/ i = 3 \/ i = 4 \/ i = 5
      OBVIOUS
    <3> QED BY <2>3, <2>4, <2>5, <2>6, <2>7, <2>8, <3>1
  <2>10. \A i \in 1 .. 6 : to(at[i]) = Stages[i]
    <3> SUFFICES ASSUME NEW i \in 1 .. 6 PROVE to(at[i]) = Stages[i]
      OBVIOUS
    <3>1. i = 1 \/ i = 2 \/ i = 3 \/ i = 4 \/ i = 5 \/ i = 6
      OBVIOUS
    <3> QED BY <2>1, <2>3, <2>4, <2>5, <2>6, <2>7, <2>8, <3>1
  <2> QED
    BY <2>8, <2>9, <2>10 DEF Climbed, n, to
<1>2. TypeInv /\ TrailEndsAtStatus /\ StageInv /\ StartsSubmitted => HiredClimbed
  BY <1>1 DEF HiredClimbed, TypeInv, StageInv
<1>3. TypeInv /\ TrailEndsAtStatus /\ StageInv /\ StartsSubmitted /\ [Next]_vars => StartsSubmitted'
  BY StartStep DEF TypeInv
<1> QED
  BY <1>2, <1>3, TrailHeld, TypeInit, TypeStep, StageInit, StageStep, StartInit, PTL DEF Spec

-------------------------------------------------------------------------------
(* The refinement of ApplicationLadder.  Its table is the status machine's, *)
(* without the actors.                                                      *)
LEMMA TableFollows ==
  ASSUME NEW actor, NEW from, NEW to, Allowed(actor, from, to)
  PROVE  Ladder!Follows(from, to) /\ to \in Ladder!Statuses
<1>1. Ladder!Rungs = Stages /\ Ladder!Ends = Terminal
  BY DEF Ladder!Rungs, Stages, Ladder!Ends, Terminal
<1>2. \A i \in 1 .. 5 : Stages[i + 1] \in {Stages[j] : j \in 1 .. 6}
  <2>1. \A i \in 1 .. 5 : i + 1 \in 1 .. 6
    OBVIOUS
  <2> QED BY <2>1
<1> QED
  BY <1>1, <1>2 DEF Allowed, Advances, Ladder!Follows, Ladder!Statuses, Terminal

LEMMA ReachedAppend ==
  ASSUME TypeOK, NEW s \in Seekers, NEW e \in Entry, trail' = [trail EXCEPT ![s] = Append(@, e)]
  PROVE  [t \in Seekers |-> Reached(t)]'
           = [[t \in Seekers |-> Reached(t)] EXCEPT ![s] = @ \cup {e.to}]
<1>1. /\ trail[s] \in Seq(Entry) /\ trail'[s] = Append(trail[s], e)
      /\ \A t \in Seekers \ {s} : trail'[t] = trail[t]
  BY DEF TypeOK
<1>2. /\ Len(trail'[s]) = Len(trail[s]) + 1 /\ Len(trail[s]) \in Nat
      /\ \A i \in 1 .. Len(trail[s]) : trail'[s][i] = trail[s][i]
      /\ trail'[s][Len(trail[s]) + 1] = e
  BY <1>1
<1>3. 1 .. Len(trail'[s]) = (1 .. Len(trail[s])) \cup {Len(trail[s]) + 1}
  BY <1>2
<1>4. Reached(s)' = Reached(s) \cup {e.to}
  BY <1>2, <1>3 DEF Reached
<1>5. \A t \in Seekers \ {s} : Reached(t)' = Reached(t)
  BY <1>1 DEF Reached
<1> QED
  BY <1>4, <1>5

(* However its requests overlap, an application climbs by the table from  *)
(* statuses it has had: it implements ApplicationLadder.                  *)
THEOREM LadderRefinement == Spec => ImplementsLadder
<1>1. Init => Ladder!Init
  BY DEF Init, Ladder!Init, Reached
<1>2. ASSUME TypeInv, TypeOK, StageInv, [Next]_vars
      PROVE  [Ladder!Next]_(Ladder!vars)
  <2>1. ASSUME NEW w \in Workers, Insert(w) PROVE Ladder!Next
    <3> DEFINE e == [from |-> "submitted", to |-> "submitted", actor |-> "job_seeker"]
    <3>1. e \in Entry /\ e.to = "submitted"
      BY StatusFacts DEF Entry, Actors
    <3>2. PICK s \in Seekers :
            /\ app[s] = "none" /\ app' = [app EXCEPT ![s] = "submitted"]
            /\ trail' = [trail EXCEPT ![s] = Append(@, e)]
      BY <1>2, <2>1, InsertEffect
    <3> HIDE DEF e
    <3>3. Ladder!Submit(s)
      BY <1>2, <3>1, <3>2, ReachedAppend DEF Ladder!Submit, Ladder!Enter
    <3> QED
      BY <3>3 DEF Ladder!Next
  <2>2. ASSUME NEW w \in Workers, TransitionCommit(w) PROVE Ladder!Next
    <3> DEFINE e == [from |-> req[w].from, to |-> req[w].to, actor |-> req[w].actor]
               s == req[w].seeker
    <3>1. req[w].actor \in Actors /\ req[w].to \in Status /\ req[w].from \in Status
      BY <1>2, <2>2, CommitEffect, AllowedType DEF Request, TypeInv, RequestsOK
    <3>2. e \in Entry /\ e.to = req[w].to
      BY <3>1 DEF Entry
    <3>3. /\ s \in Seekers /\ app' = [app EXCEPT ![s] = req[w].to]
          /\ trail' = [trail EXCEPT ![s] = Append(@, e)]
          /\ InTrail(s, req[w].from) /\ Allowed(req[w].actor, req[w].from, req[w].to)
      BY <1>2, <2>2, CommitEffect DEF StageInv
    <3> HIDE DEF e, s
    <3>4. req[w].from \in [t \in Seekers |-> Reached(t)][s]
      BY <3>3 DEF InTrail, Reached
    <3>5. Ladder!Move(s, req[w].from, req[w].to) /\ req[w].to \in Ladder!Statuses
      BY <1>2, <3>2, <3>3, <3>4, ReachedAppend, TableFollows DEF Ladder!Move, Ladder!Enter
    <3> QED
      BY <3>3, <3>4, <3>5 DEF Ladder!Next
  <2>3. UNCHANGED <<app, trail>> => UNCHANGED Ladder!vars
    BY DEF Ladder!vars, Reached
  <2>4. ASSUME NEW w \in Workers, Aside(w) PROVE UNCHANGED Ladder!vars
    BY <1>2, <2>3, <2>4, AsideEffect
  <2>5. ASSUME \/ JobMoves
               \/ \E s \in Seekers, key \in Keys : KeyExpires(s, key)
               \/ \E w \in Workers, s \in Seekers, actor \in Actors, to \in Status :
                    TransitionRead(w, s, actor, to)
               \/ UNCHANGED vars
        PROVE  UNCHANGED Ladder!vars
    BY <2>3, <2>5 DEF JobMoves, KeyExpires, TransitionRead, vars
  <2> QED
    BY <1>2, <2>1, <2>2, <2>4, <2>5, NextCases
<1>3. TypeInv /\ StageInv /\ [Next]_vars => [Ladder!Next]_(Ladder!vars)
  BY <1>2 DEF TypeInv
<1> QED
  BY <1>1, <1>3, TrailHeld, TypeInit, TypeStep, StageInit, StageStep, PTL
     DEF Spec, ImplementsLadder, Ladder!Spec
===============================================================================
