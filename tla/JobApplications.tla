---------------------------- MODULE JobApplications ----------------------------
(***************************************************************************)
(* Applications of job seekers to one posting: submitting, the status      *)
(* machine employers and seekers drive, and its audit trail.               *)
(*                                                                         *)
(* transition() reads and validates the status first and updates the row   *)
(* by id in a later transaction, so requests on one application overlap    *)
(* between the two.  The update and the trail row commit together, and the *)
(* row lock orders the commits: that transaction is one step.              *)
(***************************************************************************)
EXTENDS Naturals, Sequences, FiniteSets

CONSTANTS
  Seekers,     \* job seekers with a profile
  Workers,     \* requests in progress at one time
  NoSeeker,    \* an idle worker works for nobody
  Keys,        \* Idempotency-Key header values
  NoKey,       \* a submit without the header
  MaxTrail     \* bound on the trail of one application

ASSUME ApplicationConstants ==
  /\ NoSeeker \notin Seekers
  /\ NoKey \notin Keys
  /\ MaxTrail \in Nat \ {0}

VARIABLES
  job,         \* does the posting's status accept applications
  app,         \* status of each seeker's row, "none" without a row
  trail,       \* portal_application_transitions of each application, in commit order
  acquired,    \* Redis idempotency keys that are set, by seeker
  pc,          \* where each worker's request stands
  req,         \* what each worker's request has read
  raced,       \* history: two transitions of one application overlapped
  answers      \* history: what the row was when a submit was called a duplicate

vars == <<job, app, trail, acquired, pc, req, raced, answers>>

Actors == {"employer", "job_seeker"}
Stages == <<"submitted", "under_review", "shortlisted", "interview", "offered", "hired">>
Terminal == {"hired", "rejected", "withdrawn"}
Status == {Stages[i] : i \in 1 .. 6} \cup Terminal

Advances(from, to) == \E i \in 1 .. 5 : from = Stages[i] /\ to = Stages[i + 1]

(* Operators named Buggy... are wrong variants of the definition they precede. *)
(* No action uses them: they show which mistakes the properties catch.         *)
BuggyAllowedFromTerminal(actor, from, to) ==
  \/ actor = "employer" /\ (Advances(from, to) \/ to = "rejected")
  \/ actor = "job_seeker" /\ to = "withdrawn"

(* VALID_TRANSITIONS with its allowed actors: an employer takes the next *)
(* stage or rejects, a seeker withdraws; nothing leaves a terminal state. *)
Allowed(actor, from, to) ==
  /\ from \notin Terminal
  /\ \/ actor = "employer" /\ (Advances(from, to) \/ to = "rejected")
     \/ actor = "job_seeker" /\ to = "withdrawn"

NoRequest == [seeker |-> NoSeeker, actor |-> "job_seeker", from |-> "none", to |-> "none",
              key |-> NoKey]
Idle(w) == pc[w] = "idle"
Finish(w) == pc' = [pc EXCEPT ![w] = "idle"] /\ req' = [req EXCEPT ![w] = NoRequest]

-------------------------------------------------------------------------------
Init ==
  /\ job = "active"
  /\ app = [s \in Seekers |-> "none"]
  /\ trail = [s \in Seekers |-> <<>>]
  /\ acquired = [s \in Seekers |-> {}]
  /\ pc = [w \in Workers |-> "idle"]
  /\ req = [w \in Workers |-> NoRequest]
  /\ raced = [s \in Seekers |-> FALSE]
  /\ answers = {}

(* The posting opens and closes on its own (job-posting-service). *)
JobMoves ==
  /\ job' = IF job = "active" THEN "inactive" ELSE "active"
  /\ UNCHANGED <<app, trail, acquired, pc, req, raced, answers>>

(* submit: profile, posting and deadline are read and found in order. *)
SubmitCheck(w, s, key) ==
  /\ Idle(w)
  /\ job = "active"
  /\ pc' = [pc EXCEPT ![w] = IF key = NoKey THEN "insert" ELSE "acquire"]
  /\ req' = [req EXCEPT ![w] = [NoRequest EXCEPT !.seeker = s, !.key = key]]
  /\ UNCHANGED <<job, app, trail, acquired, raced, answers>>

(* SET NX of the idempotency key; a replay returns the seeker's application *)
(* unless it is withdrawn or not there, in which case it inserts after all. *)
Replayed(s, key) == key \in acquired[s] /\ app[s] \notin {"none", "withdrawn"}

AcquireKey(w) ==
  LET s == req[w].seeker IN
  /\ pc[w] = "acquire"
  /\ ~Replayed(s, req[w].key)
  /\ acquired' = [acquired EXCEPT ![s] = @ \cup {req[w].key}]
  /\ pc' = [pc EXCEPT ![w] = "insert"]
  /\ UNCHANGED <<job, app, trail, req, raced, answers>>

Replay(w) ==
  /\ pc[w] = "acquire"
  /\ Replayed(req[w].seeker, req[w].key)
  /\ Finish(w)
  /\ UNCHANGED <<job, app, trail, acquired, raced, answers>>

(* The row and its first trail entry, in one transaction.  Two unique      *)
(* indexes stand on (job, seeker): 0063's, which leaves withdrawn rows out, *)
(* and 0051's, which no migration drops and which leaves none out.         *)
UniqueAllows(s) == app[s] = "none"

Insert(w) ==
  LET s == req[w].seeker IN
  /\ pc[w] = "insert"
  /\ UniqueAllows(s)
  /\ app' = [app EXCEPT ![s] = "submitted"]
  /\ trail' = [trail EXCEPT ![s] = Append(@,
       [from |-> "submitted", to |-> "submitted", actor |-> "job_seeker"])]
  /\ IF req[w].key = NoKey THEN Finish(w)
                           ELSE pc' = [pc EXCEPT ![w] = "save_key"] /\ UNCHANGED req
  /\ UNCHANGED <<job, acquired, raced, answers>>

(* The key is set again, to the application's id and for a new period. *)
SaveKey(w) ==
  /\ pc[w] = "save_key"
  /\ acquired' = [acquired EXCEPT ![req[w].seeker] = @ \cup {req[w].key}]
  /\ Finish(w)
  /\ UNCHANGED <<job, app, trail, raced, answers>>

InsertRefused(w) ==
  LET s == req[w].seeker IN
  /\ pc[w] = "insert"
  /\ ~UniqueAllows(s)
  /\ answers' = answers \cup {app[s]}
  /\ Finish(w)
  /\ UNCHANGED <<job, app, trail, acquired, raced>>

KeyExpires(s, key) ==
  /\ key \in acquired[s]
  /\ acquired' = [acquired EXCEPT ![s] = @ \ {key}]
  /\ UNCHANGED <<job, app, trail, pc, req, raced, answers>>

(* transition: read the status and check terminal guard, rule and actor. *)
(* An invalid request is refused and leaves no trace.                    *)
Transitioning(s) == {w \in Workers : pc[w] = "update" /\ req[w].seeker = s}

BuggyTransitionReadAnyActor(w, s, actor, to) ==
  /\ Idle(w)
  /\ app[s] # "none"
  /\ \E role \in Actors : Allowed(role, app[s], to)
  /\ Len(trail[s]) + Cardinality(Transitioning(s)) < MaxTrail
  /\ pc' = [pc EXCEPT ![w] = "update"]
  /\ req' = [req EXCEPT ![w] = [NoRequest EXCEPT !.seeker = s, !.actor = actor,
                                                 !.from = app[s], !.to = to]]
  /\ raced' = [raced EXCEPT ![s] = @ \/ Transitioning(s) # {}]
  /\ UNCHANGED <<job, app, trail, acquired, answers>>

TransitionRead(w, s, actor, to) ==
  /\ Idle(w)
  /\ app[s] # "none"
  /\ Allowed(actor, app[s], to)
  /\ Len(trail[s]) + Cardinality(Transitioning(s)) < MaxTrail
  /\ pc' = [pc EXCEPT ![w] = "update"]
  /\ req' = [req EXCEPT ![w] = [NoRequest EXCEPT !.seeker = s, !.actor = actor,
                                                 !.from = app[s], !.to = to]]
  /\ raced' = [raced EXCEPT ![s] = @ \/ Transitioning(s) # {}]
  /\ UNCHANGED <<job, app, trail, acquired, answers>>

BuggyTransitionCommitSkipsAudit(w) ==
  LET r == req[w] IN
  /\ pc[w] = "update"
  /\ app' = [app EXCEPT ![r.seeker] = r.to]
  /\ trail' = IF r.to = "under_review" THEN trail
              ELSE [trail EXCEPT ![r.seeker] = Append(@,
                [from |-> r.from, to |-> r.to, actor |-> r.actor])]
  /\ Finish(w)
  /\ UNCHANGED <<job, acquired, raced, answers>>

BuggyTransitionCommitRereads(w) ==
  LET r == req[w] IN
  /\ pc[w] = "update"
  /\ app' = [app EXCEPT ![r.seeker] = r.to]
  /\ trail' = [trail EXCEPT ![r.seeker] = Append(@,
       [from |-> app[r.seeker], to |-> r.to, actor |-> r.actor])]
  /\ Finish(w)
  /\ UNCHANGED <<job, acquired, raced, answers>>

(* The transaction: UPDATE ... WHERE id, whatever the status is by now, *)
(* and the trail row with the status read before.                       *)
TransitionCommit(w) ==
  LET r == req[w] IN
  /\ pc[w] = "update"
  /\ app' = [app EXCEPT ![r.seeker] = r.to]
  /\ trail' = [trail EXCEPT ![r.seeker] = Append(@,
       [from |-> r.from, to |-> r.to, actor |-> r.actor])]
  /\ Finish(w)
  /\ UNCHANGED <<job, acquired, raced, answers>>

(* A crash or a lost connection before the commit. *)
Fail(w) ==
  /\ ~Idle(w)
  /\ Finish(w)
  /\ UNCHANGED <<job, app, trail, acquired, raced, answers>>

Next ==
  \/ JobMoves
  \/ \E w \in Workers :
       \/ \E s \in Seekers, key \in Keys \cup {NoKey} : SubmitCheck(w, s, key)
       \/ AcquireKey(w) \/ Replay(w) \/ Insert(w) \/ InsertRefused(w) \/ SaveKey(w)
       \/ \E s \in Seekers, actor \in Actors, to \in Status : TransitionRead(w, s, actor, to)
       \/ TransitionCommit(w)
       \/ Fail(w)
  \/ \E s \in Seekers, key \in Keys : KeyExpires(s, key)

Spec == Init /\ [][Next]_vars
-------------------------------------------------------------------------------
Entry == [from : Status, to : Status, actor : Actors]
Request == [seeker : Seekers \cup {NoSeeker}, actor : Actors, from : Status \cup {"none"},
            to : Status \cup {"none"}, key : Keys \cup {NoKey}]

(* Every variable keeps its shape, a request in progress knows its seeker, and *)
(* one that updates has read a transition the table allows (transition).       *)
TypeOK ==
  /\ job \in {"active", "inactive"}
  /\ app \in [Seekers -> Status \cup {"none"}]
  /\ trail \in [Seekers -> Seq(Entry)]
  /\ acquired \in [Seekers -> SUBSET Keys]
  /\ pc \in [Workers -> {"idle", "acquire", "insert", "save_key", "update"}]
  /\ req \in [Workers -> Request]
  /\ raced \in [Seekers -> BOOLEAN]
  /\ answers \subseteq Status
  /\ \A w \in Workers : pc[w] # "idle" => req[w].seeker \in Seekers
  /\ \A w \in Workers : pc[w] = "update" => Allowed(req[w].actor, req[w].from, req[w].to)

(* The audit trail of an application ends at its status, even when two      *)
(* transitions raced: no status is reached that the trail does not explain. *)
TrailEndsAtStatus ==
  \A s \in Seekers :
    IF app[s] = "none" THEN trail[s] = <<>>
    ELSE trail[s] # <<>> /\ trail[s][Len(trail[s])].to = app[s]

(* Every transition starts from a status the application really had, and    *)
(* follows the table, even when the row has moved on since it was read: so  *)
(* nobody is hired who was never offered the job.                           *)
NoStageSkipped ==
  \A s \in Seekers : \A i \in 2 .. Len(trail[s]) :
    /\ Allowed(trail[s][i].actor, trail[s][i].from, trail[s][i].to)
    /\ \E j \in 1 .. i - 1 : trail[s][j].to = trail[s][i].from

(* As long as no two transitions of an application overlapped, its trail is *)
(* one chain: each entry starts where the one before it ended.              *)
TrailIsChain ==
  \A s \in Seekers : ~raced[s] =>
    \A i \in 2 .. Len(trail[s]) : trail[s][i].from = trail[s][i - 1].to

(* A hired, rejected or withdrawn application never changes its status. *)
TerminalIsFinal ==
  [][\A s \in Seekers : app[s] \in Terminal => app'[s] = app[s]]_vars

(* ... and it keeps that as long as no two transitions of it overlapped. *)
TerminalFinalUnlessRaced ==
  [][\A s \in Seekers : app[s] \in Terminal /\ ~raced[s] => app'[s] = app[s]]_vars

(* A seeker whose application is withdrawn may apply again: the new submit *)
(* is never refused as a duplicate of the withdrawn one.                   *)
ReapplyAfterWithdrawal == "withdrawn" \notin answers

(* The statuses an application has had, and what is promised of them: by    *)
(* however many requests, each follows one before it by the table, and the  *)
(* row is always at one of them (ApplicationLadder).                        *)
Reached(s) == {trail[s][i].to : i \in 1 .. Len(trail[s])}
Ladder == INSTANCE ApplicationLadder
            WITH status <- app, reached <- [s \in Seekers |-> Reached(s)]
ImplementsLadder == Ladder!Spec

(* Whoever is hired was submitted, reviewed, shortlisted, interviewed and   *)
(* offered before, in this order: the trail climbs the whole ladder, also   *)
(* when requests overlapped.                                                *)
Climbed(s) ==
  \E at \in [1 .. 6 -> 1 .. Len(trail[s])] :
    /\ \A i \in 1 .. 5 : at[i] < at[i + 1]
    /\ \A i \in 1 .. 6 : trail[s][at[i]].to = Stages[i]
HiredClimbed == \A s \in Seekers : app[s] = "hired" => Climbed(s)
===============================================================================
