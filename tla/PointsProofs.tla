------------------------------ MODULE PointsProofs ------------------------------
(***************************************************************************)
(* Proofs about Points for any users, activities, amounts, thresholds and  *)
(* number of overlapping handlers and balance reads.                       *)
(***************************************************************************)
EXTENDS Points, TLAPS

ReqType == [award : SUBSET Awards, user : SUBSET Users, sum : SUBSET Awards]

(* A handler holds an award and no user, a balance read one user and no    *)
(* award.                                                                  *)
ReqInv ==
  \A w \in Workers :
    /\ pc[w] = "idle" => req[w] = NoRequest
    /\ pc[w] = "ledger" => req[w].user = {}
    /\ pc[w] \in {"sum", "set"} => req[w].award = {} /\ \E u \in Users : req[w].user = {u}

LEMMA NextCases ==
  ASSUME [Next]_vars
  PROVE  \/ \E w \in Workers, a \in Activities : Refuse(w, a)
         \/ \E w \in Workers, a \in Activities, amount \in Amounts : Award(w, a, amount)
         \/ \E w \in Workers, u \in Users : BalanceMiss(w, u)
         \/ \E w \in Workers : InsertLedger(w) \/ BalanceSum(w) \/ BalanceSet(w) \/ Stop(w)
         \/ \E a \in Actors : RapidExpires(a)
         \/ \E p \in Actors \X Users : RepeatExpires(p)
         \/ \E a \in Activities : KeyExpires(a)
         \/ Midnight \/ RedisLost
         \/ UNCHANGED vars
  BY DEF Next

LEMMA ActivityParts ==
  ASSUME NEW a \in Activities
  PROVE  a.earner \in Users /\ a.actor \in Actors /\ Pair(a) \in Actors \X Users
  BY PointsConstants DEF Actors, Pair

(* A worker moves on with r, and the others stay. *)
LEMMA Moved ==
  ASSUME req \in [Workers -> ReqType], pc \in [Workers -> {"idle", "ledger", "sum", "set"}],
         NEW w \in Workers, NEW label \in {"idle", "ledger", "sum", "set"}, NEW r \in ReqType,
         Goto(w, label, r)
  PROVE  /\ req' \in [Workers -> ReqType]
         /\ pc' \in [Workers -> {"idle", "ledger", "sum", "set"}]
         /\ pc'[w] = label /\ req'[w] = r
         /\ \A v \in Workers \ {w} : pc'[v] = pc[v] /\ req'[v] = req[v]
  BY DEF Goto

LEMMA Requests ==
  /\ NoRequest \in ReqType
  /\ \A x \in Awards : [NoRequest EXCEPT !.award = {x}] \in ReqType
  /\ \A u \in Users : [NoRequest EXCEPT !.user = {u}] \in ReqType
  /\ \A r \in ReqType, s \in SUBSET Awards : [r EXCEPT !.sum = s] \in ReqType
  BY DEF NoRequest, ReqType

-------------------------------------------------------------------------------
CountersOK ==
  /\ keys \subseteq Activities
  /\ rapid \in [Actors -> 0 .. RapidThreshold]
  /\ repeat \in [Actors \X Users -> 0 .. RepeatThreshold]
  /\ daily \in [Users -> Nat]
  /\ known \subseteq Users
  /\ reopened \subseteq Activities
  /\ skewed \subseteq Users
AwardsOK ==
  /\ balance \in [Users -> SUBSET Awards]
  /\ ledger \subseteq Awards
  /\ issued \in 0 .. MaxAwards
  /\ cut \subseteq Awards
WorkersOK ==
  /\ pc \in [Workers -> {"idle", "ledger", "sum", "set"}]
  /\ req \in [Workers -> ReqType]

LEMMA TypeParts == TypeOK <=> CountersOK /\ AwardsOK /\ WorkersOK
  BY DEF TypeOK, CountersOK, AwardsOK, WorkersOK, ReqType

TypeInv == TypeOK /\ ReqInv

LEMMA InitType == Init => TypeInv
<1> SUFFICES ASSUME Init PROVE CountersOK /\ AwardsOK /\ WorkersOK /\ ReqInv
  BY TypeParts DEF TypeInv
<1>1. CountersOK
  BY PointsConstants DEF Init, CountersOK
<1>2. AwardsOK
  BY PointsConstants DEF Init, AwardsOK
<1>3. WorkersOK /\ ReqInv
  BY Requests DEF Init, WorkersOK, ReqInv
<1> QED BY <1>1, <1>2, <1>3

LEMMA NewAward ==
  ASSUME issued \in 0 .. MaxAwards, issued < MaxAwards, NEW a \in Activities
  PROVE  [act |-> a, n |-> issued + 1] \in Awards /\ issued + 1 \in 0 .. MaxAwards
  BY PointsConstants DEF Awards

LEMMA NextType == ASSUME TypeInv, [Next]_vars PROVE TypeInv'
<1> SUFFICES CountersOK' /\ AwardsOK' /\ WorkersOK' /\ ReqInv'
  BY TypeParts DEF TypeInv, TypeOK, CountersOK, AwardsOK, WorkersOK, ReqType
<1>t. CountersOK /\ AwardsOK /\ WorkersOK /\ ReqInv
  BY TypeParts DEF TypeInv
<1>1. ASSUME NEW w \in Workers, NEW a \in Activities, Refuse(w, a)
      PROVE  CountersOK' /\ AwardsOK' /\ WorkersOK' /\ ReqInv'
  <2>1. a.actor \in Actors /\ Pair(a) \in Actors \X Users
    BY ActivityParts
  <2>2. rapid' \in [Actors -> 0 .. RapidThreshold]
    BY <1>t, <1>1, <2>1, PointsConstants DEF Refuse, TooFast, CountersOK
  <2>3. repeat' \in [Actors \X Users -> 0 .. RepeatThreshold]
    BY <1>t, <1>1, <2>1, PointsConstants DEF Refuse, TooOften, CountersOK
  <2>4. CountersOK'
    BY <1>t, <1>1, <2>2, <2>3 DEF Refuse, CountersOK, history
  <2>5. AwardsOK' /\ WorkersOK' /\ ReqInv'
    BY <1>t, <1>1 DEF Refuse, AwardsOK, WorkersOK, ReqInv, history
  <2> QED BY <2>4, <2>5
<1>2. ASSUME NEW w \in Workers, NEW a \in Activities, NEW amount \in Amounts,
             Award(w, a, amount)
      PROVE  CountersOK' /\ AwardsOK' /\ WorkersOK' /\ ReqInv'
  <2> DEFINE award == [act |-> a, n |-> issued + 1]
  <2>1. a.earner \in Users /\ a.actor \in Actors /\ Pair(a) \in Actors \X Users
    BY ActivityParts
  <2>2. award \in Awards /\ issued' \in 0 .. MaxAwards
    BY <1>t, <1>2, NewAward DEF Award, AwardsOK
  <2>3. rapid' \in [Actors -> 0 .. RapidThreshold]
    BY <1>t, <1>2, <2>1, PointsConstants DEF Award, TooFast, CountersOK
  <2>4. repeat' \in [Actors \X Users -> 0 .. RepeatThreshold]
    BY <1>t, <1>2, <2>1, PointsConstants DEF Award, TooFast, TooOften, CountersOK
  <2>5. daily' \in [Users -> Nat]
    BY <1>t, <1>2, <2>1, PointsConstants DEF Award, CountersOK
  <2>6. CountersOK'
    BY <1>t, <1>2, <2>1, <2>3, <2>4, <2>5 DEF Award, CountersOK
  <2>7. AwardsOK'
    BY <1>t, <1>2, <2>1, <2>2 DEF Award, AwardsOK
  <2> DEFINE r == [NoRequest EXCEPT !.award = {award}]
  <2>8. Goto(w, "ledger", r)
    BY <1>2 DEF Award
  <2>9. r \in ReqType /\ r.user = {}
    BY <2>2, Requests DEF NoRequest
  <2> HIDE DEF award, r
  <2>10. WorkersOK'
    BY <1>t, <2>8, <2>9, Moved DEF WorkersOK
  <2>11. ReqInv'
    BY <1>t, <2>8, <2>9, Moved DEF WorkersOK, ReqInv
  <2> QED BY <2>6, <2>7, <2>10, <2>11
<1>3. ASSUME NEW w \in Workers, NEW u \in Users, BalanceMiss(w, u)
      PROVE  CountersOK' /\ AwardsOK' /\ WorkersOK' /\ ReqInv'
  <2> DEFINE r == [NoRequest EXCEPT !.user = {u}]
  <2>1. Goto(w, "sum", r) /\ r \in ReqType /\ r.user = {u} /\ r.award = {}
    BY <1>3, Requests DEF BalanceMiss, NoRequest
  <2> HIDE DEF r
  <2>2. WorkersOK' /\ ReqInv'
    BY <1>t, <2>1, Moved DEF WorkersOK, ReqInv
  <2>3. CountersOK' /\ AwardsOK'
    BY <1>t, <1>3 DEF BalanceMiss, CountersOK, AwardsOK, redis, history
  <2> QED BY <2>2, <2>3
<1>4. ASSUME NEW w \in Workers, Finish(w) PROVE WorkersOK' /\ ReqInv'
  BY <1>t, <1>4, Moved, Requests DEF Finish, WorkersOK, ReqInv
<1>5. ASSUME NEW w \in Workers, InsertLedger(w)
      PROVE  CountersOK' /\ AwardsOK' /\ WorkersOK' /\ ReqInv'
  <2>1. req[w].award \subseteq Awards
    BY <1>t DEF WorkersOK, ReqType
  <2>2. CountersOK' /\ AwardsOK'
    BY <1>t, <1>5, <2>1 DEF InsertLedger, CountersOK, AwardsOK, redis, history
  <2> QED BY <1>4, <1>5, <2>2 DEF InsertLedger
<1>6. ASSUME NEW w \in Workers, BalanceSum(w)
      PROVE  CountersOK' /\ AwardsOK' /\ WorkersOK' /\ ReqInv'
  <2>1. PICK u \in req[w].user :
          /\ Goto(w, "set", [req[w] EXCEPT !.sum = OfUser(u, ledger)])
          /\ skewed' = IF OfUser(u, Pending) # {} THEN skewed \cup {u} ELSE skewed
    BY <1>6 DEF BalanceSum
  <2>2. req[w] \in ReqType /\ u \in Users /\ OfUser(u, ledger) \in SUBSET Awards
    BY <1>t DEF WorkersOK, AwardsOK, ReqType, OfUser
  <2> DEFINE r == [req[w] EXCEPT !.sum = OfUser(u, ledger)]
  <2>3. r \in ReqType /\ r.user = req[w].user /\ r.award = req[w].award
    BY <2>2, Requests DEF ReqType
  <2>4. Goto(w, "set", r)
    BY <2>1
  <2>5. req[w].award = {} /\ \E v \in Users : req[w].user = {v}
    BY <1>t, <1>6 DEF BalanceSum, ReqInv
  <2> HIDE DEF r
  <2>6. WorkersOK' /\ ReqInv'
    BY <1>t, <2>3, <2>4, <2>5, Moved DEF WorkersOK, ReqInv
  <2>7. CountersOK' /\ AwardsOK'
    BY <1>t, <1>6, <2>1, <2>2 DEF BalanceSum, CountersOK, AwardsOK, redis
  <2> QED BY <2>6, <2>7
<1>7. ASSUME NEW w \in Workers, BalanceSet(w)
      PROVE  CountersOK' /\ AwardsOK' /\ WorkersOK' /\ ReqInv'
  <2>1. req[w].user \subseteq Users /\ req[w].sum \in SUBSET Awards
    BY <1>t DEF WorkersOK, ReqType
  <2>2. CountersOK' /\ AwardsOK'
    BY <1>t, <1>7, <2>1 DEF BalanceSet, CountersOK, AwardsOK, history
  <2> QED BY <1>4, <1>7, <2>2 DEF BalanceSet
<1>8. ASSUME NEW w \in Workers, Stop(w)
      PROVE  CountersOK' /\ AwardsOK' /\ WorkersOK' /\ ReqInv'
  <2>1. req[w].award \subseteq Awards
    BY <1>t DEF WorkersOK, ReqType
  <2>2. CountersOK' /\ AwardsOK'
    BY <1>t, <1>8, <2>1 DEF Stop, CountersOK, AwardsOK, redis
  <2> QED BY <1>4, <1>8, <2>2 DEF Stop
<1>9. ASSUME UNCHANGED <<ledger, issued, pc, req, cut>>, CountersOK',
             balance' \in [Users -> SUBSET Awards]
      PROVE  CountersOK' /\ AwardsOK' /\ WorkersOK' /\ ReqInv'
  BY <1>t, <1>9 DEF AwardsOK, WorkersOK, ReqInv
<1>10. ASSUME NEW a \in Actors, RapidExpires(a)
       PROVE  CountersOK' /\ AwardsOK' /\ WorkersOK' /\ ReqInv'
  <2>1. rapid' \in [Actors -> 0 .. RapidThreshold]
    BY <1>t, <1>10, PointsConstants DEF RapidExpires, CountersOK
  <2> QED BY <1>t, <1>9, <1>10, <2>1 DEF RapidExpires, CountersOK, AwardsOK, history
<1>11. ASSUME NEW p \in Actors \X Users, RepeatExpires(p)
       PROVE  CountersOK' /\ AwardsOK' /\ WorkersOK' /\ ReqInv'
  <2>1. repeat' \in [Actors \X Users -> 0 .. RepeatThreshold]
    BY <1>t, <1>11, PointsConstants DEF RepeatExpires, CountersOK
  <2> QED BY <1>t, <1>9, <1>11, <2>1 DEF RepeatExpires, CountersOK, AwardsOK, history
<1>12. ASSUME NEW a \in Activities, KeyExpires(a)
       PROVE  CountersOK' /\ AwardsOK' /\ WorkersOK' /\ ReqInv'
  BY <1>t, <1>9, <1>12 DEF KeyExpires, CountersOK, AwardsOK
<1>13. ASSUME Midnight PROVE CountersOK' /\ AwardsOK' /\ WorkersOK' /\ ReqInv'
  BY <1>t, <1>9, <1>13 DEF Midnight, CountersOK, AwardsOK, history
<1>14. ASSUME RedisLost PROVE CountersOK' /\ AwardsOK' /\ WorkersOK' /\ ReqInv'
  BY <1>t, <1>9, <1>14, PointsConstants DEF RedisLost, CountersOK, AwardsOK
<1>15. ASSUME UNCHANGED vars PROVE CountersOK' /\ AwardsOK' /\ WorkersOK' /\ ReqInv'
  BY <1>t, <1>9, <1>15 DEF vars, redis, history, CountersOK, AwardsOK
<1> QED BY <1>1, <1>2, <1>3, <1>5, <1>6, <1>7, <1>8, <1>10, <1>11, <1>12, <1>13, <1>14,
           <1>15, NextCases

LEMMA TypeStep == Spec => []TypeInv
<1>1. TypeInv /\ [Next]_vars => TypeInv'
  BY NextType
<1> QED BY <1>1, InitType, PTL DEF Spec

(* Every reachable state has values of the right kind, and no sliding      *)
(* window is ever past its threshold.                                      *)
THEOREM TypeCorrect == Spec => []TypeOK
<1>1. TypeInv => TypeOK
  BY DEF TypeInv
<1> QED BY <1>1, TypeStep, PTL

-------------------------------------------------------------------------------
(* Awards that were made, whatever became of them. *)
Made == ledger \cup Pending
All == Made \cup cut

LEMMA PendingMoves ==
  ASSUME req \in [Workers -> ReqType], pc \in [Workers -> {"idle", "ledger", "sum", "set"}],
         NEW w \in Workers, NEW label \in {"idle", "ledger", "sum", "set"}, NEW r \in ReqType,
         Goto(w, label, r)
  PROVE  /\ Pending' \subseteq Pending \cup r.award
         /\ Pending \subseteq Pending' \cup req[w].award
         /\ r.award \subseteq Pending'
<1>1. /\ req'[w] = r
      /\ \A v \in Workers \ {w} : req'[v] = req[v]
  BY Moved
<1> QED BY <1>1 DEF Pending

(* An award is made and is on its way to the ledger. *)
LEMMA AwardMakes ==
  ASSUME TypeInv, NEW w \in Workers, NEW a \in Activities, NEW amount \in Amounts,
         Award(w, a, amount)
  PROVE  /\ UNCHANGED <<ledger, cut>>
         /\ Pending' = Pending \cup {[act |-> a, n |-> issued + 1]}
<1>t. WorkersOK /\ AwardsOK /\ ReqInv
  BY TypeParts DEF TypeInv
<1>r. NoRequest \in ReqType /\ NoRequest.award = {}
  BY Requests DEF NoRequest
<1> DEFINE award == [act |-> a, n |-> issued + 1]
           r == [NoRequest EXCEPT !.award = {award}]
<1>1. award \in Awards
  BY <1>t, NewAward DEF Award, AwardsOK
<1>2. Goto(w, "ledger", r) /\ UNCHANGED <<ledger, cut>>
  BY DEF Award
<1>3. r \in ReqType /\ r.award = {award}
  BY <1>1, Requests DEF NoRequest
<1>4. req[w].award = {}
  BY <1>r DEF Award, Idle
<1> HIDE DEF award, r
<1>5. Pending' = Pending \cup {award}
  BY <1>t, <1>2, <1>3, <1>4, PendingMoves DEF WorkersOK
<1> QED BY <1>2, <1>5 DEF award

LEMMA Finishes ==
  ASSUME TypeInv, NEW w \in Workers, Finish(w)
  PROVE  Pending' \subseteq Pending /\ Pending \subseteq Pending' \cup req[w].award
<1>t. WorkersOK /\ AwardsOK /\ ReqInv
  BY TypeParts DEF TypeInv
<1>r. NoRequest \in ReqType /\ NoRequest.award = {}
  BY Requests DEF NoRequest
<1> QED BY <1>t, <1>r, PendingMoves DEF Finish, WorkersOK

(* It reaches the ledger, or is cut short. *)
LEMMA InsertMoves ==
  ASSUME TypeInv, NEW w \in Workers, InsertLedger(w)
  PROVE  UNCHANGED cut /\ Made' = Made
<1>1. req[w].award \subseteq Pending
  BY DEF Pending
<1>2. ledger' = ledger \cup req[w].award /\ UNCHANGED cut
  BY DEF InsertLedger, history
<1> QED BY Finishes, <1>1, <1>2 DEF InsertLedger, Made

LEMMA StopCuts ==
  ASSUME TypeInv, NEW w \in Workers, Stop(w)
  PROVE  /\ UNCHANGED ledger
         /\ Made' \subseteq Made /\ Made \subseteq Made' \cup cut'
         /\ cut' \subseteq cut \cup Pending
<1>1. req[w].award \subseteq Pending
  BY DEF Pending
<1>2. cut' = cut \cup req[w].award /\ UNCHANGED ledger
  BY DEF Stop
<1> QED BY Finishes, <1>1, <1>2 DEF Stop, Made

(* The steps of a balance read touch no award. *)
LEMMA ReadsQuiet ==
  ASSUME TypeInv, NEW w \in Workers,
         (\E u \in Users : BalanceMiss(w, u)) \/ BalanceSum(w) \/ BalanceSet(w)
  PROVE  UNCHANGED <<ledger, cut, Pending>>
<1>t. WorkersOK /\ AwardsOK /\ ReqInv
  BY TypeParts DEF TypeInv
<1>r. NoRequest \in ReqType /\ NoRequest.award = {}
  BY Requests DEF NoRequest
<1>1. ASSUME NEW u \in Users, BalanceMiss(w, u) PROVE UNCHANGED <<ledger, cut, Pending>>
  <2> DEFINE r == [NoRequest EXCEPT !.user = {u}]
  <2>1. Goto(w, "sum", r) /\ r \in ReqType /\ r.award = {}
    BY <1>1, Requests DEF BalanceMiss, NoRequest
  <2>2. req[w].award = {} /\ UNCHANGED <<ledger, cut>>
    BY <1>1, <1>r DEF BalanceMiss, Idle, history
  <2> HIDE DEF r
  <2> QED BY <1>t, <2>1, <2>2, PendingMoves DEF WorkersOK
<1>2. ASSUME BalanceSum(w) PROVE UNCHANGED <<ledger, cut, Pending>>
  <2>1. PICK u \in req[w].user : Goto(w, "set", [req[w] EXCEPT !.sum = OfUser(u, ledger)])
    BY <1>2 DEF BalanceSum
  <2> DEFINE r == [req[w] EXCEPT !.sum = OfUser(u, ledger)]
  <2>2. req[w] \in ReqType /\ OfUser(u, ledger) \in SUBSET Awards
    BY <1>t DEF WorkersOK, AwardsOK, OfUser
  <2>3. Goto(w, "set", r) /\ r \in ReqType /\ r.award = req[w].award
    BY <2>1, <2>2, Requests DEF ReqType
  <2>4. req[w].award = {} /\ UNCHANGED <<ledger, cut>>
    BY <1>t, <1>2 DEF BalanceSum, ReqInv
  <2> HIDE DEF r
  <2> QED BY <1>t, <2>3, <2>4, PendingMoves DEF WorkersOK
<1>3. ASSUME BalanceSet(w) PROVE UNCHANGED <<ledger, cut, Pending>>
  <2>1. req[w].award = {} /\ UNCHANGED <<ledger, cut>>
    BY <1>t, <1>3 DEF BalanceSet, ReqInv, history
  <2> QED BY Finishes, <1>3, <2>1 DEF BalanceSet
<1> QED BY <1>1, <1>2, <1>3

(* What a step does to the awards: it makes one, moves one on, or leaves   *)
(* them where they are.                                                    *)
LEMMA AwardSteps ==
  ASSUME TypeInv, [Next]_vars
  PROVE  \/ \E w \in Workers, a \in Activities, amount \in Amounts :
              /\ Award(w, a, amount)
              /\ UNCHANGED <<ledger, cut>>
              /\ Pending' = Pending \cup {[act |-> a, n |-> issued + 1]}
         \/ \E w \in Workers : InsertLedger(w) /\ UNCHANGED cut /\ Made' = Made
         \/ \E w \in Workers :
              /\ Stop(w) /\ UNCHANGED ledger
              /\ Made' \subseteq Made /\ Made \subseteq Made' \cup cut'
              /\ cut' \subseteq cut \cup Pending
         \/ UNCHANGED <<ledger, cut, Pending>>
<1>1. CASE UNCHANGED <<ledger, cut, req>>
  BY <1>1 DEF Pending
<1>2. CASE \/ \E w \in Workers, a \in Activities : Refuse(w, a)
           \/ \E a \in Actors : RapidExpires(a)
           \/ \E p \in Actors \X Users : RepeatExpires(p)
           \/ \E a \in Activities : KeyExpires(a)
           \/ Midnight \/ RedisLost \/ UNCHANGED vars
  <2>1. UNCHANGED <<ledger, cut, req>>
    BY <1>2 DEF Refuse, RapidExpires, RepeatExpires, KeyExpires, Midnight, RedisLost, vars,
                history
  <2> QED BY <1>1, <2>1
<1> QED BY <1>2, AwardMakes, InsertMoves, StopCuts, ReadsQuiet, NextCases

-------------------------------------------------------------------------------
(* An activity that earned an award has its key, unless the key expired or *)
(* was lost.                                                               *)
OnceInv == AwardedOnce /\ \A x \in All : x.act \in keys \cup reopened

LEMMA KeysKept ==
  ASSUME [Next]_vars
  PROVE  keys \cup reopened \subseteq keys' \cup reopened'
  BY NextCases
     DEF Refuse, Award, BalanceMiss, InsertLedger, BalanceSum, BalanceSet, Stop,
         RapidExpires, RepeatExpires, KeyExpires, Midnight, RedisLost, vars, redis, history

LEMMA OnceStep == ASSUME TypeInv, OnceInv, [Next]_vars PROVE OnceInv'
<1>1. keys \cup reopened \subseteq keys' \cup reopened'
  BY KeysKept
<1>2. CASE All' \subseteq All
  <2>1. reopened \subseteq reopened'
    BY NextCases
       DEF Refuse, Award, BalanceMiss, InsertLedger, BalanceSum, BalanceSet, Stop,
           RapidExpires, RepeatExpires, KeyExpires, Midnight, RedisLost, vars, redis, history
  <2> QED BY <1>1, <1>2, <2>1 DEF OnceInv, AwardedOnce, All, Made
<1>3. ASSUME NEW w \in Workers, NEW a \in Activities, NEW amount \in Amounts,
             Award(w, a, amount), UNCHANGED <<ledger, cut>>,
             Pending' = Pending \cup {[act |-> a, n |-> issued + 1]}
      PROVE  OnceInv'
  <2> DEFINE award == [act |-> a, n |-> issued + 1]
  <2>1. All' = All \cup {award} /\ award.act = a
    BY <1>3 DEF All, Made
  <2>2. a \notin keys /\ keys' = keys \cup {a} /\ reopened' = reopened
    BY <1>3 DEF Award, Fresh
  <2> HIDE DEF award
  <2>3. \A x \in All' : x.act \in keys' \cup reopened'
    BY <2>1, <2>2 DEF OnceInv
  <2>4. ASSUME NEW x \in All', NEW y \in All', x.act = y.act, x.act \notin reopened'
        PROVE  x = y
    <3>1. CASE x \in All /\ y \in All
      BY <2>2, <2>4, <3>1 DEF OnceInv, AwardedOnce, All, Made
    <3>2. CASE (x = award /\ y \in All) \/ (y = award /\ x \in All)
      BY <2>1, <2>2, <2>4, <3>2 DEF OnceInv
    <3> QED BY <2>1, <3>1, <3>2
  <2> QED BY <2>3, <2>4 DEF OnceInv, AwardedOnce, All, Made
<1> QED BY <1>2, <1>3, AwardSteps DEF All, Made

(* An activity is credited once, however often its event is delivered,     *)
(* until its key expires or Redis loses it.                                *)
THEOREM CreditedOnce == Spec => []AwardedOnce
<1>1. Init => OnceInv
  BY DEF Init, OnceInv, AwardedOnce, All, Made, Pending, NoRequest
<1>2. TypeInv /\ OnceInv /\ [Next]_vars => OnceInv'
  BY OnceStep
<1>3. OnceInv => AwardedOnce
  BY DEF OnceInv
<1> QED BY <1>1, <1>2, <1>3, TypeStep, PTL DEF Spec

-------------------------------------------------------------------------------
(* A balance, and a sum that is about to become one, count the awards made *)
(* to the user, unless one of them was cut short or met a rebuilding.      *)
Excused(u) == u \in skewed \/ OfUser(u, cut) # {}

BalanceInv ==
  \A u \in Users :
    /\ u \notin known => balance[u] = {}
    /\ u \in known => Excused(u) \/ balance[u] = OfUser(u, Made)
    /\ \A w \in Workers :
         pc[w] = "set" /\ u \in req[w].user => Excused(u) \/ req[w].sum = OfUser(u, Made)

LEMMA ExcusesStay ==
  ASSUME TypeInv, [Next]_vars, NEW u \in Users, Excused(u)
  PROVE  Excused(u)'
<1>1. skewed \subseteq skewed' /\ cut \subseteq cut'
  BY NextCases
     DEF Refuse, Award, BalanceMiss, InsertLedger, BalanceSum, BalanceSet, Stop,
         RapidExpires, RepeatExpires, KeyExpires, Midnight, RedisLost, vars, redis, history
<1> QED BY <1>1 DEF Excused, OfUser

(* A step that leaves the balances and what balance reads have summed, and *)
(* the awards made but for those it cuts short.                            *)
LEMMA BalanceFrame ==
  ASSUME TypeInv, BalanceInv, [Next]_vars,
         known' = known, balance' = balance,
         Made' \subseteq Made, Made \subseteq Made' \cup cut',
         \A w \in Workers : pc'[w] = "set" => pc[w] = "set" /\ req'[w] = req[w]
  PROVE  BalanceInv'
<1> SUFFICES ASSUME NEW u \in Users
             PROVE  /\ u \notin known' => balance'[u] = {}
                    /\ u \in known' => Excused(u)' \/ balance'[u] = OfUser(u, Made')
                    /\ \A w \in Workers :
                         pc'[w] = "set" /\ u \in req'[w].user =>
                           Excused(u)' \/ req'[w].sum = OfUser(u, Made')
  BY DEF BalanceInv, OfUser, Made
<1>1. CASE Excused(u)'
  BY <1>1 DEF BalanceInv
<1>2. CASE ~Excused(u)'
  <2>1. ~Excused(u)
    BY <1>2, ExcusesStay
  <2>2. OfUser(u, Made') = OfUser(u, Made)
    BY <1>2 DEF Excused, OfUser
  <2> QED BY <2>1, <2>2 DEF BalanceInv
<1> QED BY <1>1, <1>2

LEMMA BalanceStep == ASSUME TypeInv, BalanceInv, [Next]_vars PROVE BalanceInv'
<1>t. WorkersOK /\ AwardsOK /\ CountersOK /\ ReqInv
  BY TypeParts DEF TypeInv
<1>r. NoRequest \in ReqType
  BY Requests
<1>1. ASSUME NEW w \in Workers, NEW a \in Activities, NEW amount \in Amounts,
             Award(w, a, amount), UNCHANGED <<ledger, cut>>,
             Pending' = Pending \cup {[act |-> a, n |-> issued + 1]}
      PROVE  BalanceInv'
  <2> DEFINE award == [act |-> a, n |-> issued + 1]
             r == [NoRequest EXCEPT !.award = {award}]
  <2>1. /\ award.act = a /\ a.earner \in Users
        /\ Made' = Made \cup {award}
        /\ known' = known \cup {a.earner}
        /\ balance' = [balance EXCEPT ![a.earner] = @ \cup {award}]
        /\ skewed' = IF \/ Rebuilding(a.earner)
                        \/ a.earner \notin known /\ OfUser(a.earner, Made) # {}
                     THEN skewed \cup {a.earner} ELSE skewed
    BY <1>1, ActivityParts DEF Award, Made
  <2>2. Goto(w, "ledger", r) /\ award \in Awards
    BY <1>t, <1>1, NewAward DEF Award, AwardsOK
  <2>3. r \in ReqType
    BY <2>2, Requests
  <2>4. \A u : OfUser(u, Made \cup {award}) = IF u = a.earner THEN OfUser(u, Made) \cup {award}
                                                        ELSE OfUser(u, Made)
    BY <2>1 DEF OfUser
  <2> HIDE DEF award, r
  <2>5. \A v \in Workers : pc'[v] = "set" => pc[v] = "set" /\ req'[v] = req[v]
    BY <1>t, <2>2, <2>3, Moved DEF WorkersOK
  <2> SUFFICES ASSUME NEW u \in Users, ~Excused(u)'
               PROVE  /\ u \notin known' => balance'[u] = {}
                      /\ u \in known' => balance'[u] = OfUser(u, Made')
                      /\ \A v \in Workers :
                           pc'[v] = "set" /\ u \in req'[v].user =>
                             req'[v].sum = OfUser(u, Made')
    <3>1. \A u \in Users : u \notin known' => balance'[u] = {}
      BY <1>t, <2>1 DEF BalanceInv, AwardsOK
    <3> QED BY <3>1 DEF BalanceInv, OfUser, Made
  <2>6. ~Excused(u)
    BY ExcusesStay
  <2>7. CASE u # a.earner
    <3>1. (u \in known' <=> u \in known) /\ balance'[u] = balance[u]
      BY <1>t, <2>1, <2>7 DEF AwardsOK
    <3>2. OfUser(u, Made') = OfUser(u, Made)
      BY <2>1, <2>4, <2>7
    <3>3. \A v \in Workers : pc'[v] = "set" /\ u \in req'[v].user =>
                              req'[v].sum = OfUser(u, Made)
      BY <2>5, <2>6 DEF BalanceInv
    <3> QED BY <2>6, <3>1, <3>2, <3>3 DEF BalanceInv
  <2>8. CASE u = a.earner
    <3>1. ~Rebuilding(u) /\ (u \notin known => OfUser(u, Made) = {})
      BY <2>1, <2>8 DEF Excused
    <3>2. balance[u] = OfUser(u, Made)
      BY <2>6, <3>1 DEF BalanceInv
    <3>3. balance'[u] = OfUser(u, Made') /\ u \in known'
      BY <1>t, <2>1, <2>4, <2>8, <3>2 DEF AwardsOK
    <3>4. \A v \in Workers : pc'[v] = "set" => u \notin req'[v].user
      BY <2>5, <3>1 DEF Rebuilding
    <3> QED BY <3>3, <3>4
  <2> QED BY <2>7, <2>8
<1>2. ASSUME NEW w \in Workers, InsertLedger(w) \/ Stop(w),
             Made' \subseteq Made, Made \subseteq Made' \cup cut'
      PROVE  BalanceInv'
  <2>1. Goto(w, "idle", NoRequest) /\ UNCHANGED <<known, balance>>
    BY <1>2 DEF InsertLedger, Stop, Finish, redis
  <2>2. \A v \in Workers : pc'[v] = "set" => pc[v] = "set" /\ req'[v] = req[v]
    BY <1>t, <1>r, <2>1, Moved DEF WorkersOK
  <2> QED BY <1>2, <2>1, <2>2, BalanceFrame
<1>3. ASSUME NEW w \in Workers, NEW u \in Users, BalanceMiss(w, u),
             UNCHANGED <<ledger, cut, Pending>>
      PROVE  BalanceInv'
  <2> DEFINE r == [NoRequest EXCEPT !.user = {u}]
  <2>1. Goto(w, "sum", r) /\ r \in ReqType /\ UNCHANGED <<known, balance>>
    BY <1>3, Requests DEF BalanceMiss, redis
  <2> HIDE DEF r
  <2>2. \A v \in Workers : pc'[v] = "set" => pc[v] = "set" /\ req'[v] = req[v]
    BY <1>t, <2>1, Moved DEF WorkersOK
  <2> QED BY <1>3, <2>1, <2>2, BalanceFrame DEF Made
<1>4. ASSUME NEW w \in Workers, BalanceSum(w), UNCHANGED <<ledger, cut, Pending>>
      PROVE  BalanceInv'
  <2>1. PICK u \in req[w].user :
          /\ Goto(w, "set", [req[w] EXCEPT !.sum = OfUser(u, ledger)])
          /\ skewed' = IF OfUser(u, Pending) # {} THEN skewed \cup {u} ELSE skewed
    BY <1>4 DEF BalanceSum
  <2>2. req[w] \in ReqType /\ OfUser(u, ledger) \in SUBSET Awards /\ req[w].user = {u}
    BY <1>t, <1>4 DEF WorkersOK, AwardsOK, OfUser, ReqInv, BalanceSum
  <2> DEFINE r == [req[w] EXCEPT !.sum = OfUser(u, ledger)]
  <2>3. Goto(w, "set", r) /\ r \in ReqType /\ r.user = {u} /\ r.sum = OfUser(u, ledger)
    BY <2>1, <2>2, Requests DEF ReqType
  <2>4. UNCHANGED <<known, balance>> /\ Made' = Made
    BY <1>4 DEF BalanceSum, redis, Made
  <2> HIDE DEF r
  <2>5. /\ pc'[w] = "set" /\ req'[w] = r
        /\ \A v \in Workers \ {w} : pc'[v] = pc[v] /\ req'[v] = req[v]
    BY <1>t, <2>3, Moved DEF WorkersOK
  <2>6. Excused(u)' \/ OfUser(u, ledger) = OfUser(u, Made)
    BY <2>1 DEF Excused, OfUser, Made
  <2>7. \A v \in Users : Excused(v) => Excused(v)'
    BY ExcusesStay
  <2>8. \A v \in Users : /\ v \notin known' => balance'[v] = {}
                         /\ v \in known' => Excused(v)' \/ balance'[v] = OfUser(v, Made')
    BY <2>4, <2>7 DEF BalanceInv
  <2>9. ASSUME NEW v \in Users, NEW x \in Workers, pc'[x] = "set", v \in req'[x].user
        PROVE  Excused(v)' \/ req'[x].sum = OfUser(v, Made')
    <3>1. CASE x = w
      BY <2>3, <2>4, <2>5, <2>6, <2>9, <3>1
    <3>2. CASE x # w
      BY <2>4, <2>5, <2>7, <2>9, <3>2 DEF BalanceInv
    <3> QED BY <3>1, <3>2
  <2> QED BY <2>8, <2>9 DEF BalanceInv, OfUser, Made
<1>5. ASSUME NEW w \in Workers, BalanceSet(w), UNCHANGED <<ledger, cut, Pending>>
      PROVE  BalanceInv'
  <2>1. PICK u \in Users : req[w].user = {u}
    BY <1>t, <1>5 DEF ReqInv, BalanceSet
  <2>2. /\ known' = known \cup {u} /\ balance' = [balance EXCEPT ![u] = req[w].sum]
        /\ Goto(w, "idle", NoRequest) /\ Made' = Made /\ pc[w] = "set"
    BY <1>5, <2>1 DEF BalanceSet, Finish, Made
  <2>3. /\ pc'[w] = "idle"
        /\ \A v \in Workers \ {w} : pc'[v] = pc[v] /\ req'[v] = req[v]
    BY <1>t, <1>r, <2>2, Moved DEF WorkersOK
  <2>4. \A v \in Users : Excused(v) => Excused(v)'
    BY ExcusesStay
  <2>5. \A v \in Users : /\ v \notin known' => balance'[v] = {}
                         /\ v \in known' => Excused(v)' \/ balance'[v] = OfUser(v, Made')
    BY <1>t, <2>1, <2>2, <2>4 DEF BalanceInv, AwardsOK
  <2>6. ASSUME NEW v \in Users, NEW x \in Workers, pc'[x] = "set", v \in req'[x].user
        PROVE  Excused(v)' \/ req'[x].sum = OfUser(v, Made')
    BY <2>2, <2>3, <2>4, <2>6 DEF BalanceInv
  <2> QED BY <2>5, <2>6 DEF BalanceInv, OfUser, Made
<1>6. CASE RedisLost
  <2>1. /\ known' = {} /\ balance' = [u \in Users |-> {}]
        /\ UNCHANGED <<ledger, cut, skewed, pc, req>>
    BY <1>6 DEF RedisLost
  <2>2. Made' = Made
    BY <2>1 DEF Made, Pending
  <2> QED BY <2>1, <2>2 DEF BalanceInv, Excused, OfUser, Made
<1>7. ASSUME UNCHANGED <<known, balance, ledger, cut, pc, req>> PROVE BalanceInv'
  BY <1>7, BalanceFrame DEF Made, Pending
<1>8. CASE \/ \E w \in Workers, a \in Activities : Refuse(w, a)
           \/ \E a \in Actors : RapidExpires(a)
           \/ \E p \in Actors \X Users : RepeatExpires(p)
           \/ \E a \in Activities : KeyExpires(a)
           \/ Midnight \/ UNCHANGED vars
  <2>1. UNCHANGED <<known, balance, ledger, cut, pc, req>>
    BY <1>8 DEF Refuse, RapidExpires, RepeatExpires, KeyExpires, Midnight, vars, redis, history
  <2> QED BY <1>7, <2>1
<1> QED BY <1>1, <1>2, <1>3, <1>4, <1>5, <1>6, <1>8, NextCases, AwardMakes, InsertMoves,
           StopCuts, ReadsQuiet DEF Made

(* The balance a user is shown is the sum of the user's ledger once no     *)
(* award is between the two stores, unless a handler stopped there or an   *)
(* award met the rebuilding of the balance.                                *)
THEOREM BalanceExplained == Spec => []BalanceIsLedger
<1>1. Init => BalanceInv
  BY DEF Init, BalanceInv, NoRequest
<1>2. TypeInv /\ BalanceInv /\ [Next]_vars => BalanceInv'
  BY BalanceStep
<1>3. TypeInv /\ BalanceInv => BalanceIsLedger
  <2> SUFFICES ASSUME TypeInv, BalanceInv, NEW u \in known, u \notin skewed,
                      OfUser(u, Pending \cup cut) = {}
               PROVE  balance[u] = OfUser(u, ledger)
    BY DEF BalanceIsLedger
  <2>1. u \in Users
    BY DEF TypeInv, TypeOK
  <2>2. OfUser(u, cut) = {} /\ OfUser(u, Made) = OfUser(u, ledger)
    BY DEF OfUser, Made
  <2> QED BY <2>1, <2>2 DEF BalanceInv, Excused
<1> QED BY <1>1, <1>2, <1>3, TypeStep, PTL DEF Spec

-------------------------------------------------------------------------------
LEMMA OvershootStep == ASSUME TypeInv, OvershootBounded, [Next]_vars PROVE OvershootBounded'
<1>t. daily \in [Users -> Nat]
  BY DEF TypeInv, TypeOK
<1>1. ASSUME NEW w \in Workers, NEW a \in Activities, NEW amount \in Amounts,
             Award(w, a, amount)
      PROVE  OvershootBounded'
  <2>1. a.earner \in Users
    BY ActivityParts
  <2>2. /\ daily[a.earner] < DailyCap
        /\ daily' = [daily EXCEPT ![a.earner] = @ + amount]
    BY <1>t, <1>1, <2>1, PointsConstants DEF Award, CapReached
  <2>3. daily'[a.earner] < DailyCap + amount
    BY <1>t, <2>1, <2>2, PointsConstants
  <2>4. \A u \in Users \ {a.earner} : daily'[u] = daily[u]
    BY <1>t, <2>2
  <2> QED BY <2>3, <2>4 DEF OvershootBounded
<1>2. CASE daily' = [u \in Users |-> 0]
  BY <1>2 DEF OvershootBounded
<1>3. CASE daily' = daily
  BY <1>3 DEF OvershootBounded
<1> QED BY <1>1, <1>2, <1>3, NextCases
        DEF Refuse, BalanceMiss, InsertLedger, BalanceSum, BalanceSet, Stop, RapidExpires,
            RepeatExpires, KeyExpires, Midnight, RedisLost, vars, redis

(* However events overlap, a user's points of a day pass the cap by less   *)
(* than one award.                                                         *)
THEOREM CapNearlyKept == Spec => []OvershootBounded
<1>1. Init => OvershootBounded
  BY DEF Init, OvershootBounded
<1>2. TypeInv /\ OvershootBounded /\ [Next]_vars => OvershootBounded'
  BY OvershootStep
<1> QED BY <1>1, <1>2, TypeStep, PTL DEF Spec

-------------------------------------------------------------------------------
(* A sum that is about to become a balance counts entries of the ledger.   *)
EarnedInv ==
  /\ PointsAreEarned
  /\ \A w \in Workers : pc[w] = "set" =>
       \A u \in req[w].user : req[w].sum \subseteq OfUser(u, ledger)

(* The ledger only grows, and of the awards made none is forgotten. *)
LEMMA AwardsStay ==
  ASSUME TypeInv, [Next]_vars
  PROVE  ledger \subseteq ledger' /\ All \subseteq All'
<1>1. cut \subseteq cut'
  BY NextCases
     DEF Refuse, Award, BalanceMiss, InsertLedger, BalanceSum, BalanceSet, Stop,
         RapidExpires, RepeatExpires, KeyExpires, Midnight, RedisLost, vars, redis, history
<1> QED BY <1>1, AwardSteps DEF InsertLedger, All, Made

(* A balance read about to store a sum has just taken it, or had it. *)
LEMMA SumsTaken ==
  ASSUME TypeInv, [Next]_vars, NEW v \in Workers, pc'[v] = "set"
  PROVE  \/ pc[v] = "set" /\ req'[v] = req[v]
         \/ \E u \in Users : req'[v].user = {u} /\ req'[v].sum = OfUser(u, ledger)
<1>t. WorkersOK /\ AwardsOK /\ ReqInv
  BY TypeParts DEF TypeInv
<1>1. ASSUME NEW w \in Workers, NEW label \in {"idle", "ledger", "sum"}, NEW r \in ReqType,
             Goto(w, label, r)
      PROVE  pc[v] = "set" /\ req'[v] = req[v]
  BY <1>t, <1>1, Moved DEF WorkersOK
<1>2. ASSUME NEW w \in Workers, NEW a \in Activities, NEW amount \in Amounts,
             Award(w, a, amount)
      PROVE  pc[v] = "set" /\ req'[v] = req[v]
  <2> DEFINE award == [act |-> a, n |-> issued + 1]
             r == [NoRequest EXCEPT !.award = {award}]
  <2>1. Goto(w, "ledger", r) /\ award \in Awards
    BY <1>t, <1>2, NewAward DEF Award, AwardsOK
  <2>2. r \in ReqType
    BY <2>1, Requests
  <2> HIDE DEF award, r
  <2> QED BY <1>1, <2>1, <2>2
<1>3. ASSUME NEW w \in Workers, InsertLedger(w) \/ BalanceSet(w) \/ Stop(w)
      PROVE  pc[v] = "set" /\ req'[v] = req[v]
  <2>1. Goto(w, "idle", NoRequest)
    BY <1>3 DEF InsertLedger, BalanceSet, Stop, Finish
  <2> QED BY <1>1, <2>1, Requests
<1>4. ASSUME NEW w \in Workers, NEW u \in Users, BalanceMiss(w, u)
      PROVE  pc[v] = "set" /\ req'[v] = req[v]
  <2> DEFINE r == [NoRequest EXCEPT !.user = {u}]
  <2>1. Goto(w, "sum", r) /\ r \in ReqType
    BY <1>4, Requests DEF BalanceMiss
  <2> HIDE DEF r
  <2> QED BY <1>1, <2>1
<1>5. ASSUME NEW w \in Workers, BalanceSum(w)
      PROVE  \/ pc[v] = "set" /\ req'[v] = req[v]
             \/ \E u \in Users : req'[v].user = {u} /\ req'[v].sum = OfUser(u, ledger)
  <2>1. PICK u \in req[w].user : Goto(w, "set", [req[w] EXCEPT !.sum = OfUser(u, ledger)])
    BY <1>5 DEF BalanceSum
  <2>2. req[w] \in ReqType /\ OfUser(u, ledger) \in SUBSET Awards /\ u \in Users
          /\ req[w].user = {u}
    BY <1>t, <1>5 DEF WorkersOK, AwardsOK, OfUser, ReqInv, BalanceSum
  <2> DEFINE r == [req[w] EXCEPT !.sum = OfUser(u, ledger)]
  <2>3. Goto(w, "set", r) /\ r \in ReqType /\ r.user = {u} /\ r.sum = OfUser(u, ledger)
    BY <2>1, <2>2, Requests DEF ReqType
  <2> HIDE DEF r
  <2> QED BY <1>t, <2>2, <2>3, Moved DEF WorkersOK
<1>6. CASE UNCHANGED <<pc, req>>
  BY <1>6
<1> QED BY <1>2, <1>3, <1>4, <1>5, <1>6, NextCases
        DEF Refuse, RapidExpires, RepeatExpires, KeyExpires, Midnight, RedisLost, vars

LEMMA EarnedStep == ASSUME TypeInv, EarnedInv, [Next]_vars PROVE EarnedInv'
<1>t. WorkersOK /\ AwardsOK /\ ReqInv
  BY TypeParts DEF TypeInv
<1>1. (\A x \in ledger \cup Pending \cup cut : ~Self(x.act))'
  <2>1. CASE All' \subseteq All
    BY <2>1 DEF EarnedInv, PointsAreEarned, All, Made, Self
  <2>2. ASSUME NEW w \in Workers, NEW a \in Activities, NEW amount \in Amounts,
               Award(w, a, amount), UNCHANGED <<ledger, cut>>,
               Pending' = Pending \cup {[act |-> a, n |-> issued + 1]}
        PROVE  \A x \in ledger' \cup Pending' \cup cut' : ~Self(x.act)
    BY <2>2 DEF Award, Fresh, EarnedInv, PointsAreEarned, Self
  <2> QED BY <2>1, <2>2, AwardSteps DEF All, Made, Self
<1>2. \A u : OfUser(u, ledger) \subseteq OfUser(u, ledger') /\ OfUser(u, All) \subseteq OfUser(u, All')
  BY AwardsStay DEF OfUser
<1>b. \A u \in Users : balance[u] \subseteq OfUser(u, All)
  BY DEF EarnedInv, PointsAreEarned, All, Made
<1>3. \A u \in Users : balance'[u] \subseteq OfUser(u, All')
  <2>1. ASSUME NEW w \in Workers, NEW a \in Activities, NEW amount \in Amounts,
               Award(w, a, amount)
        PROVE  \A u \in Users : balance'[u] \subseteq OfUser(u, All')
    <3> DEFINE award == [act |-> a, n |-> issued + 1]
    <3>1. Pending' = Pending \cup {award} /\ award.act = a
      BY <2>1, AwardMakes
    <3>2. balance' = [balance EXCEPT ![a.earner] = @ \cup {award}]
      BY <2>1 DEF Award
    <3> HIDE DEF award
    <3>3. award \in OfUser(a.earner, All')
      BY <3>1 DEF OfUser, All, Made
    <3> QED BY <1>t, <1>b, <1>2, <3>2, <3>3 DEF AwardsOK
  <2>2. ASSUME NEW w \in Workers, BalanceSet(w)
        PROVE  \A u \in Users : balance'[u] \subseteq OfUser(u, All')
    <3>1. PICK u \in Users : req[w].user = {u} /\ balance' = [balance EXCEPT ![u] = req[w].sum]
      BY <1>t, <2>2 DEF ReqInv, BalanceSet
    <3>2. req[w].sum \subseteq OfUser(u, ledger)
      BY <2>2, <3>1 DEF EarnedInv, BalanceSet
    <3>3. OfUser(u, ledger) \subseteq OfUser(u, All)
      BY DEF OfUser, All, Made
    <3> QED BY <1>t, <1>b, <1>2, <3>1, <3>2, <3>3 DEF AwardsOK
  <2>3. CASE balance' = [u \in Users |-> {}]
    BY <2>3
  <2>4. CASE balance' = balance
    BY <1>b, <1>2, <2>4
  <2> QED BY <2>1, <2>2, <2>3, <2>4, NextCases
          DEF Refuse, BalanceMiss, InsertLedger, BalanceSum, Stop, RapidExpires,
              RepeatExpires, KeyExpires, Midnight, RedisLost, vars, redis
<1>4. ASSUME NEW v \in Workers, pc'[v] = "set", NEW u \in req'[v].user
      PROVE  req'[v].sum \subseteq OfUser(u, ledger')
  <2>1. req'[v].sum \subseteq OfUser(u, ledger)
    BY <1>4, SumsTaken DEF EarnedInv
  <2> QED BY <1>2, <2>1
<1>5. PointsAreEarned'
  BY <1>1, <1>3 DEF PointsAreEarned, OfUser, All, Made
<1> QED BY <1>4, <1>5 DEF EarnedInv, OfUser

(* No balance shows points that nothing earned, not even one that a race,  *)
(* a stopped handler or a lost Redis has put at odds with the ledger.      *)
THEOREM BalancesEarned == Spec => []PointsAreEarned
<1>1. Init => EarnedInv
  BY DEF Init, EarnedInv, PointsAreEarned, Pending, NoRequest
<1>2. TypeInv /\ EarnedInv /\ [Next]_vars => EarnedInv'
  BY EarnedStep
<1>3. EarnedInv => PointsAreEarned
  BY DEF EarnedInv
<1> QED BY <1>1, <1>2, <1>3, TypeStep, PTL DEF Spec
===============================================================================
