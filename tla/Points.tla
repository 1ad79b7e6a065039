-------------------------------- MODULE Points --------------------------------
(***************************************************************************)
(* Points: the Lua script that decides an award in Redis, the handlers of  *)
(* post.reacted, event.attended and article.published that then write the  *)
(* ledger in Postgres, and the reads of a balance that rebuild it from the *)
(* ledger when Redis has none.                                             *)
(*                                                                         *)
(* A balance is the set of awards it adds up, and an award the activity it *)
(* is for with a serial number: two balances are told apart by which       *)
(* awards they count.  Amounts matter to the daily cap only.  The script   *)
(* is one step, Redis runs it alone; a handler is two, a balance read      *)
(* three.  The leaderboard, which only the script and a suspension write,  *)
(* is left out, and so are the audit rows of refused awards.               *)
(***************************************************************************)
EXTENDS Naturals, FiniteSets

CONSTANTS
  Users,            \* who earns points
  Activities,       \* [actor, earner, item]: what may earn points, and to whom
  Amounts,          \* basePoints of the rules, multiplied by a badge
  Workers,          \* handlers and balance reads in progress at one time
  DailyCap, RapidThreshold, RepeatThreshold,
  MaxAwards         \* bound on the number of awards

ASSUME PointsConstants ==
  /\ \A a \in Activities : a.earner \in Users
  /\ Amounts \subseteq Nat \ {0}
  /\ DailyCap \in Nat /\ RapidThreshold \in Nat /\ RepeatThreshold \in Nat
  /\ MaxAwards \in Nat

VARIABLES
  keys,       \* activities whose idempotency key is set
  rapid,      \* awards in each actor's sliding window
  repeat,     \* awards in each actor and earner's sliding window
  daily,      \* points each user has earned this UTC day
  known,      \* users whose points:user:... key exists
  balance,    \* the awards that key adds up, by user
  ledger,     \* platform_points_ledger
  issued,     \* history: number of awards made
  pc,         \* where each worker stands
  req,        \* what each worker has read
  reopened,   \* history: activities whose key expired or was lost
  cut,        \* history: awards whose handler stopped before the ledger
  skewed      \* history: users with an award made while a balance was rebuilt

redis == <<keys, rapid, repeat, daily, known, balance>>
history == <<reopened, cut, skewed>>
vars == <<redis, ledger, issued, pc, req, history>>

Actors == {a.actor : a \in Activities}
Awards == [act : Activities, n : 1 .. MaxAwards]
OfUser(u, set) == {x \in set : x.act.earner = u}

NoRequest == [award |-> {}, user |-> {}, sum |-> {}]
Idle(w) == pc[w] = "idle" /\ req[w] = NoRequest
Goto(w, label, r) == pc' = [pc EXCEPT ![w] = label] /\ req' = [req EXCEPT ![w] = r]
Finish(w) == Goto(w, "idle", NoRequest)

(* Awards made that are still to be written to the ledger. *)
Pending == UNION {req[w].award : w \in Workers}

(* Operators named Buggy... are wrong variants of the definition they precede. *)
(* No action uses them: they show which mistakes the properties catch.         *)

-------------------------------------------------------------------------------
Init ==
  /\ keys = {}
  /\ rapid = [a \in Actors |-> 0]
  /\ repeat = [p \in Actors \X Users |-> 0]
  /\ daily = [u \in Users |-> 0]
  /\ known = {}
  /\ balance = [u \in Users |-> {}]
  /\ ledger = {}
  /\ issued = 0
  /\ pc = [w \in Workers |-> "idle"]
  /\ req = [w \in Workers |-> NoRequest]
  /\ reopened = {}
  /\ cut = {}
  /\ skewed = {}

Self(a) == a.actor = a.earner

BuggyFreshIgnoresKey(a) == ~Self(a)

(* Steps 1 and 2 of the script: neither the earner's own doing nor a       *)
(* repetition gets further, and only then is the key set.                  *)
Fresh(a) == ~Self(a) /\ a \notin keys

Pair(a) == <<a.actor, a.earner>>

BuggyTooFastOffByOne(a) == rapid[a.actor] > RapidThreshold

TooFast(a) == rapid[a.actor] >= RapidThreshold
TooOften(a) == ~TooFast(a) /\ repeat[Pair(a)] >= RepeatThreshold

(* Step 5: what the award itself adds is not looked at. *)
CapReached(u) == daily[u] >= DailyCap

BuggyRefuseIncrementsFirst(w, a) ==
  /\ Idle(w)
  /\ Fresh(a)
  /\ CapReached(a.earner)
  /\ keys' = keys \cup {a}
  /\ known' = known \cup {a.earner}
  /\ balance' = [balance EXCEPT ![a.earner] = @ \cup {[act |-> a, n |-> MaxAwards]}]
  /\ UNCHANGED <<rapid, repeat, daily, ledger, issued, pc, req, history>>

(* awardPoints refuses a fresh activity, whose key stays set; the windows  *)
(* passed before the refusal have counted it.                              *)
Refuse(w, a) ==
  /\ Idle(w)
  /\ Fresh(a)
  /\ TooFast(a) \/ TooOften(a) \/ CapReached(a.earner)
  /\ keys' = keys \cup {a}
  /\ rapid' = IF TooFast(a) THEN rapid ELSE [rapid EXCEPT ![a.actor] = @ + 1]
  /\ repeat' = IF TooFast(a) \/ TooOften(a) THEN repeat
               ELSE [repeat EXCEPT ![Pair(a)] = @ + 1]
  /\ UNCHANGED <<daily, known, balance, ledger, issued, pc, req, history>>

(* A balance read of u has missed and will overwrite the key. *)
Rebuilding(u) == \E w \in Workers : u \in req[w].user

(* awardPoints grants: steps 3 to 7 of the script, in a handler that will  *)
(* write the ledger next.  INCRBY starts from nothing when there is no key.*)
Award(w, a, amount) ==
  LET u == a.earner
      award == [act |-> a, n |-> issued + 1]
  IN
  /\ Idle(w)
  /\ issued < MaxAwards
  /\ Fresh(a)
  /\ ~TooFast(a) /\ ~TooOften(a) /\ ~CapReached(u)
  /\ keys' = keys \cup {a}
  /\ rapid' = [rapid EXCEPT ![a.actor] = @ + 1]
  /\ repeat' = [repeat EXCEPT ![Pair(a)] = @ + 1]
  /\ daily' = [daily EXCEPT ![u] = @ + amount]
  /\ known' = known \cup {u}
  /\ balance' = [balance EXCEPT ![u] = @ \cup {award}]
  /\ issued' = issued + 1
  /\ Goto(w, "ledger", [NoRequest EXCEPT !.award = {award}])
  /\ skewed' = IF \/ Rebuilding(u)
                  \/ u \notin known /\ OfUser(u, ledger \cup Pending) # {}
               THEN skewed \cup {u} ELSE skewed
  /\ UNCHANGED <<ledger, reopened, cut>>

(* insertPointsLedgerEntry, a plain INSERT. *)
InsertLedger(w) ==
  /\ pc[w] = "ledger"
  /\ ledger' = ledger \cup req[w].award
  /\ Finish(w)
  /\ UNCHANGED <<redis, issued, history>>

(* getUserPointsBalance: the GET that misses, the SUM, and the SET, which  *)
(* does not ask whether the key has come back.                             *)
BalanceMiss(w, u) ==
  /\ Idle(w)
  /\ u \notin known
  /\ Goto(w, "sum", [NoRequest EXCEPT !.user = {u}])
  /\ UNCHANGED <<redis, ledger, issued, history>>

BalanceSum(w) ==
  /\ pc[w] = "sum"
  /\ \E u \in req[w].user :
       /\ Goto(w, "set", [req[w] EXCEPT !.sum = OfUser(u, ledger)])
       /\ skewed' = IF OfUser(u, Pending) # {} THEN skewed \cup {u} ELSE skewed
  /\ UNCHANGED <<redis, ledger, issued, reopened, cut>>

BalanceSet(w) ==
  /\ pc[w] = "set"
  /\ known' = known \cup req[w].user
  /\ \E u \in req[w].user : balance' = [balance EXCEPT ![u] = req[w].sum]
  /\ Finish(w)
  /\ UNCHANGED <<keys, rapid, repeat, daily, ledger, issued, history>>

-------------------------------------------------------------------------------
(* Time passes: an entry leaves a sliding window, an idempotency key is a  *)
(* day old, a UTC day ends.                                                *)
RapidExpires(a) ==
  /\ rapid[a] > 0
  /\ rapid' = [rapid EXCEPT ![a] = @ - 1]
  /\ UNCHANGED <<keys, repeat, daily, known, balance, ledger, issued, pc, req, history>>

RepeatExpires(p) ==
  /\ repeat[p] > 0
  /\ repeat' = [repeat EXCEPT ![p] = @ - 1]
  /\ UNCHANGED <<keys, rapid, daily, known, balance, ledger, issued, pc, req, history>>

KeyExpires(a) ==
  /\ a \in keys
  /\ keys' = keys \ {a}
  /\ reopened' = reopened \cup {a}
  /\ UNCHANGED <<rapid, repeat, daily, known, balance, ledger, issued, pc, req, cut, skewed>>

Midnight ==
  /\ \E u \in Users : daily[u] > 0
  /\ daily' = [u \in Users |-> 0]
  /\ UNCHANGED <<keys, rapid, repeat, known, balance, ledger, issued, pc, req, history>>

(* Redis restarts without its keys. *)
RedisLost ==
  /\ keys' = {}
  /\ rapid' = [a \in Actors |-> 0]
  /\ repeat' = [p \in Actors \X Users |-> 0]
  /\ daily' = [u \in Users |-> 0]
  /\ known' = {}
  /\ balance' = [u \in Users |-> {}]
  /\ reopened' = reopened \cup keys
  /\ UNCHANGED <<ledger, issued, pc, req, cut, skewed>>

(* The process stops, or the handler's catch swallows a failed INSERT.     *)
Stop(w) ==
  /\ pc[w] # "idle"
  /\ Finish(w)
  /\ cut' = cut \cup req[w].award
  /\ UNCHANGED <<redis, ledger, issued, reopened, skewed>>

Next ==
  \/ \E w \in Workers :
       \/ \E a \in Activities : Refuse(w, a) \/ \E amount \in Amounts : Award(w, a, amount)
       \/ \E u \in Users : BalanceMiss(w, u)
       \/ InsertLedger(w) \/ BalanceSum(w) \/ BalanceSet(w) \/ Stop(w)
  \/ \E a \in Actors : RapidExpires(a)
  \/ \E p \in Actors \X Users : RepeatExpires(p)
  \/ \E a \in Activities : KeyExpires(a)
  \/ Midnight \/ RedisLost

Spec == Init /\ [][Next]_vars

-------------------------------------------------------------------------------
(* Every variable holds a value of its kind, and no window its threshold   *)
(* is passed.                                                              *)
TypeOK ==
  /\ keys \subseteq Activities
  /\ rapid \in [Actors -> 0 .. RapidThreshold]
  /\ repeat \in [Actors \X Users -> 0 .. RepeatThreshold]
  /\ daily \in [Users -> Nat]
  /\ known \subseteq Users
  /\ balance \in [Users -> SUBSET Awards]
  /\ ledger \subseteq Awards
  /\ issued \in 0 .. MaxAwards
  /\ pc \in [Workers -> {"idle", "ledger", "sum", "set"}]
  /\ req \in [Workers -> [award : SUBSET Awards, user : SUBSET Users, sum : SUBSET Awards]]
  /\ reopened \subseteq Activities
  /\ cut \subseteq Awards
  /\ skewed \subseteq Users

(* An activity is credited once, however often its event is delivered and  *)
(* whichever handlers overlap, until its key is a day old or Redis loses   *)
(* it: the ledger itself refuses nothing.                                  *)
AwardedOnce ==
  \A x, y \in ledger \cup Pending \cup cut :
    x.act = y.act /\ x.act \notin reopened => x = y

(* The balance a user is shown is what the ledger says, once no handler is *)
(* between the two stores, unless one stopped there, or an award was made  *)
(* while the balance was being rebuilt or before it was rebuilt at all.    *)
BalanceIsLedger ==
  \A u \in known :
    \/ u \in skewed
    \/ OfUser(u, Pending \cup cut) # {}
    \/ balance[u] = OfUser(u, ledger)

(* Nobody is shown points that nothing earned, not even a balance that is  *)
(* excused above: whatever a race, a stopped handler or a lost Redis does, *)
(* it counts awards the script made to that user, and none of them is for  *)
(* the user's own doing.                                                   *)
PointsAreEarned ==
  /\ \A u \in Users : balance[u] \subseteq OfUser(u, ledger \cup Pending \cup cut)
  /\ \A x \in ledger \cup Pending \cup cut : ~Self(x.act)

(* The cap is overshot by less than the points of one award. *)
OvershootBounded ==
  \A u \in Users : daily[u] > 0 => \E amount \in Amounts : daily[u] < DailyCap + amount

(* "total points earnable per UTC day": nobody earns more than the cap in  *)
(* a day.  The script compares what was earned before the award.           *)
EarnedWithinCap == \A u \in Users : daily[u] <= DailyCap
===============================================================================
