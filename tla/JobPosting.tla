------------------------------ MODULE JobPosting ------------------------------
(***************************************************************************)
(* The life of a company's job postings: the employer's edits, submissions *)
(* and status changes, the admin's review queue, the automatic fast lane   *)
(* and expiry.                                                             *)
(*                                                                         *)
(* Most employer requests read the row, decide, and write it by id in a    *)
(* later statement; the review decisions repeat their guard in the UPDATE. *)
(* A first read that only refuses what such a guard refuses anyway is not  *)
(* a step of its own.                                                      *)
(***************************************************************************)
EXTENDS Naturals, FiniteSets

CONSTANTS
  Postings,     \* postings of one company
  Workers,      \* requests in progress at one time
  NoPosting,    \* an idle worker works on nothing
  Contents,     \* what a posting may say
  Passing,      \* contents runScreening lets pass
  ActiveLimit,  \* ACTIVE_POSTING_LIMIT
  MaxRevisions  \* MAX_REVISION_COUNT

ASSUME PostingConstants ==
  /\ NoPosting \notin Postings
  /\ IsFiniteSet(Workers)
  /\ Passing \subseteq Contents
  /\ ActiveLimit \in Nat
  /\ MaxRevisions \in Nat \ {0}

VARIABLES
  posting,      \* the rows of portal_job_postings
  approved,     \* postings with an "approved" row in portal_admin_reviews
  pc,           \* where each worker's request stands
  req,          \* what each worker's request has read
  current,      \* workers whose copy of updatedAt is still the row's
  decisions,    \* history: review decisions on a posting's latest submission
  raced,        \* history: two employer requests on one posting overlapped
  automatic     \* history: contents the fast lane has published

vars == <<posting, approved, pc, req, current, decisions, raced, automatic>>
history == <<raced, automatic>>

Status == {"draft", "pending_review", "active", "paused", "filled", "expired", "rejected"}

NoRequest == [posting |-> NoPosting, from |-> "draft", to |-> "draft", says |-> {}]
Idle(w) == pc[w] = "idle"
Finish(w) == pc' = [pc EXCEPT ![w] = "idle"] /\ req' = [req EXCEPT ![w] = NoRequest]
Goto(w, label) == pc' = [pc EXCEPT ![w] = label]

(* A request on j begins.  It keeps what it read, and what it will write. *)
Begin(w, j, label, to, says) ==
  /\ Idle(w)
  /\ Goto(w, label)
  /\ req' = [req EXCEPT ![w] = [posting |-> j, from |-> posting[j].status,
                                to |-> to, says |-> says]]
  /\ raced' = IF \E v \in Workers : req[v].posting = j /\ pc[v] # "changes"
              THEN raced \cup {j} ELSE raced
  /\ UNCHANGED <<posting, approved, decisions, automatic>>

(* The UPDATEs that set updatedAt: every copy of it read before is stale. *)
Bump(j) == current' = {w \in current : req[w].posting # j}
SetStatus(j, status) == posting' = [posting EXCEPT ![j].status = status]

(* A posting that enters the queue waits for one decision. *)
Queued(j, status) ==
  decisions' = IF status = "pending_review" THEN [decisions EXCEPT ![j] = 0] ELSE decisions

-------------------------------------------------------------------------------
Init ==
  /\ posting \in [Postings -> [status : {"draft"}, content : Contents,
                               screening : {"none"}, revisions : {0}]]
  /\ approved = {}
  /\ pc = [w \in Workers |-> "idle"]
  /\ req = [w \in Workers |-> NoRequest]
  /\ current = {}
  /\ decisions = [j \in Postings |-> 0]
  /\ raced = {}
  /\ automatic = {}

(* Operators named Buggy... are wrong variants of the definition they precede. *)
(* No action uses them: they show which mistakes the properties catch.         *)
BuggyEmployerMayPublish(from, to) ==
  \/ from = "active" /\ to \in {"paused", "filled"}
  \/ from \in {"paused", "pending_review"} /\ to \in {"active", "filled"}
  \/ from = "expired" /\ to \in {"active", "pending_review", "filled"}
BuggyEmployerMayReopen(from, to) ==
  \/ from = "active" /\ to \in {"paused", "filled"}
  \/ from \in {"paused", "filled"} /\ to \in {"active", "filled"}
  \/ from = "expired" /\ to \in {"active", "pending_review", "filled"}

(* VALID_TRANSITIONS less the admin's, and the guards of closePosting and   *)
(* renewPosting: what the employer's status PATCH may write after its read. *)
EmployerMay(from, to) ==
  \/ from = "active" /\ to \in {"paused", "filled"}
  \/ from = "paused" /\ to \in {"active", "filled"}
  \/ from = "expired" /\ to \in {"active", "pending_review", "filled"}

EmployerRead(w, j, to) ==
  /\ EmployerMay(posting[j].status, to)
  /\ Begin(w, j, IF to = "active" THEN "limit" ELSE "write", to, {})
  /\ UNCHANGED current

(* countActivePostingsByCompanyId, before a posting goes live again. *)
Active == {j \in Postings : posting[j].status = "active"}

LimitCheck(w) ==
  /\ pc[w] = "limit"
  /\ IF Cardinality(Active) < ActiveLimit THEN Goto(w, "write") /\ UNCHANGED req
                                          ELSE Finish(w)
  /\ UNCHANGED <<posting, approved, current, decisions, history>>

(* updateJobPostingStatus, updateJobPosting: WHERE id, whatever the status. *)
EmployerWrite(w) ==
  LET j == req[w].posting IN
  /\ pc[w] = "write"
  /\ SetStatus(j, req[w].to)
  /\ Queued(j, req[w].to)
  /\ Bump(j)
  /\ Finish(w)
  /\ UNCHANGED <<approved, history>>

(* The edit route: which write it will do depends on the status it read. *)
EditRead(w, j, content) ==
  LET status == posting[j].status IN
  /\ status \notin {"pending_review", "filled"}
  /\ Begin(w, j, IF status = "active" THEN "edit_active"
                 ELSE IF status = "expired" THEN "edit_expired" ELSE "edit",
           status, {content})
  /\ current' = IF status = "active" THEN current \cup {w} ELSE current

Write(w) == \E content \in req[w].says :
              posting' = [posting EXCEPT ![req[w].posting].content = content]

Edit(w) ==
  /\ pc[w] = "edit"
  /\ Write(w)
  /\ Bump(req[w].posting)
  /\ Finish(w)
  /\ UNCHANGED <<approved, decisions, history>>

(* editActivePosting: one UPDATE, if updatedAt is what the editor saw. *)
EditActive(w) ==
  LET j == req[w].posting IN
  /\ pc[w] = "edit_active"
  /\ IF w \in current
       THEN /\ \E content \in req[w].says :
                 posting' = [posting EXCEPT ![j].content = content,
                                            ![j].status = "pending_review"]
            /\ Queued(j, "pending_review")
            /\ Bump(j)
       ELSE UNCHANGED <<posting, decisions, current>>
  /\ Finish(w)
  /\ UNCHANGED <<approved, history>>

(* An expired posting: the edit is saved first, then renewPosting reads it. *)
EditExpired(w) ==
  /\ pc[w] = "edit_expired"
  /\ Write(w)
  /\ Bump(req[w].posting)
  /\ Goto(w, "renew")
  /\ UNCHANGED <<approved, req, decisions, history>>

RenewRead(w) ==
  /\ pc[w] = "renew"
  /\ IF posting[req[w].posting].status = "expired"
       THEN Goto(w, "write") /\ req' = [req EXCEPT ![w].to = "pending_review"]
       ELSE Finish(w)
  /\ UNCHANGED <<posting, approved, current, decisions, history>>

BuggySubmittable == {"draft", "rejected", "paused"}
(* submitForReview: screen the content as read ... *)
Submittable == {"draft", "rejected"}

SubmitRead(w, j) ==
  /\ posting[j].status \in Submittable
  /\ Begin(w, j, "submit", "pending_review", {posting[j].content})
  /\ UNCHANGED current

Verdict(w) == IF req[w].says \subseteq Passing THEN "pass" ELSE "fail"

(* ... then store the verdict and enter the queue, if the status is as read. *)
SubmitWrite(w) ==
  LET j == req[w].posting IN
  /\ pc[w] = "submit"
  /\ posting[j].status = req[w].from
  /\ posting' = [posting EXCEPT ![j].status = "pending_review", ![j].screening = Verdict(w)]
  /\ Queued(j, "pending_review")
  /\ Bump(j)
  /\ Goto(w, "fast_lane")
  /\ UNCHANGED <<approved, req, history>>

SubmitRefused(w) ==
  /\ pc[w] = "submit"
  /\ posting[req[w].posting].status # req[w].from
  /\ Finish(w)
  /\ UNCHANGED <<posting, approved, current, decisions, history>>

BuggyScreened(j) == posting[j].screening # "none"
(* checkFastLaneEligibility.  The company's badge and record are free here: *)
(* only the stored verdict is this module's, and it alone never suffices.   *)
Screened(j) == posting[j].screening = "pass"

FastLane(w) ==
  /\ pc[w] = "fast_lane"
  /\ \/ Screened(req[w].posting) /\ Goto(w, "auto_approve") /\ UNCHANGED req
     \/ Finish(w)
  /\ UNCHANGED <<posting, approved, current, decisions, history>>

-------------------------------------------------------------------------------
(* The guard that every decision's UPDATE repeats: still pending. *)
BuggyAwaitsDecision(j) == posting[j].status \in {"pending_review", "active", "rejected"}
AwaitsDecision(j) == posting[j].status = "pending_review"
Decide(j) == decisions' = [decisions EXCEPT ![j] = @ + 1]

(* approvePosting: the row goes live and the review row is written, in one *)
(* transaction that leaves updatedAt alone.                                *)
Approval(j) ==
  /\ AwaitsDecision(j)
  /\ SetStatus(j, "active")
  /\ approved' = approved \cup {j}
  /\ Decide(j)

Approve(j) == Approval(j) /\ UNCHANGED <<pc, req, current, history>>

AutoApprove(w) ==
  LET j == req[w].posting IN
  /\ pc[w] = "auto_approve"
  /\ IF AwaitsDecision(j)
       THEN /\ Approval(j)
            /\ automatic' = automatic \cup {[posting |-> j, content |-> posting[j].content]}
       ELSE UNCHANGED <<posting, approved, decisions, automatic>>
  /\ Finish(w)
  /\ UNCHANGED <<current, raced>>

Reject(j) ==
  /\ AwaitsDecision(j)
  /\ SetStatus(j, "rejected")
  /\ Decide(j)
  /\ UNCHANGED <<approved, pc, req, current, history>>

BuggyMayRevise(j) == posting[j].revisions <= MaxRevisions
(* requestChanges reads the revision count once, and increments it later. *)
MayRevise(j) == posting[j].revisions < MaxRevisions

ChangesRead(w, j) ==
  /\ AwaitsDecision(j)
  /\ MayRevise(j)
  /\ Idle(w)
  /\ Goto(w, "changes")
  /\ req' = [req EXCEPT ![w] = [NoRequest EXCEPT !.posting = j]]
  /\ UNCHANGED <<posting, approved, current, decisions, history>>

RequestChanges(w) ==
  LET j == req[w].posting IN
  /\ pc[w] = "changes"
  /\ IF AwaitsDecision(j)
       THEN /\ posting' = [posting EXCEPT ![j].status = "draft", ![j].revisions = @ + 1]
            /\ Decide(j)
       ELSE UNCHANGED <<posting, decisions>>
  /\ Finish(w)
  /\ UNCHANGED <<approved, current, history>>

(* expire-postings: batchExpirePostings, guarded by the status. *)
Expire(j) ==
  /\ posting[j].status = "active"
  /\ SetStatus(j, "expired")
  /\ Bump(j)
  /\ UNCHANGED <<approved, pc, req, decisions, history>>

(* A crash or a lost connection: what was written stays. *)
Fail(w) ==
  /\ ~Idle(w)
  /\ Finish(w)
  /\ UNCHANGED <<posting, approved, current, decisions, history>>

Next ==
  \/ \E w \in Workers, j \in Postings :
       \/ \E to \in Status : EmployerRead(w, j, to)
       \/ \E content \in Contents : EditRead(w, j, content)
       \/ SubmitRead(w, j)
       \/ ChangesRead(w, j)
  \/ \E w \in Workers :
       \/ LimitCheck(w) \/ EmployerWrite(w)
       \/ Edit(w) \/ EditActive(w) \/ EditExpired(w) \/ RenewRead(w)
       \/ SubmitWrite(w) \/ SubmitRefused(w) \/ FastLane(w) \/ AutoApprove(w)
       \/ RequestChanges(w)
       \/ Fail(w)
  \/ \E j \in Postings : Approve(j) \/ Reject(j) \/ Expire(j)

Spec == Init /\ [][Next]_vars

-------------------------------------------------------------------------------
Labels == {"idle", "limit", "write", "edit", "edit_active", "edit_expired", "renew",
           "submit", "fast_lane", "auto_approve", "changes"}
Row == [status : Status, content : Contents, screening : {"none", "pass", "fail"},
        revisions : Nat]
Request == [posting : Postings \cup {NoPosting}, from : Status, to : Status,
            says : SUBSET Contents]

(* Every variable keeps its shape; a running request knows its posting, and *)
(* a submission has read a status it may submit from (submitForReview).     *)
TypeOK ==
  /\ posting \in [Postings -> Row]
  /\ approved \subseteq Postings
  /\ pc \in [Workers -> Labels]
  /\ req \in [Workers -> Request]
  /\ current \subseteq Workers
  /\ decisions \in [Postings -> Nat]
  /\ raced \subseteq Postings
  /\ automatic \subseteq [posting : Postings, content : Contents]
  /\ \A w \in Workers : pc[w] # "idle" => req[w].posting \in Postings
  /\ \A w \in Workers : pc[w] = "submit" => req[w].from \in {"draft", "rejected"}

(* No posting is live, paused, expired or filled that was never approved, *)
(* although the employer's writes set a status without looking at the row *)
(* (the Approval Integrity Rule).                                         *)
LiveWasApproved ==
  \A j \in Postings :
    posting[j].status \in {"active", "paused", "expired", "filled"} => j \in approved

(* A submission is decided at most once: two admins, or an admin and the *)
(* fast lane, cannot both decide it.                                     *)
DecidedOnce == \A j \in Postings : decisions[j] <= 1

(* The limit on revision rounds is read before it is used: admins acting at *)
(* once may pass it, by no more than the number of the others.              *)
RevisionsNearLimit ==
  \A j \in Postings : posting[j].revisions < MaxRevisions + Cardinality(Workers)

(* A closed posting stays closed ... *)
ClosedIsFinal ==
  [][\A j \in Postings :
       posting[j].status = "filled" => posting'[j].status = "filled"]_vars

(* ... as long as no two employer requests on it overlapped: the writes by *)
(* id do not ask.                                                          *)
FilledFinalUnlessRaced ==
  [][\A j \in Postings :
       posting[j].status = "filled" /\ j \notin raced => posting'[j].status = "filled"]_vars

(* The fast lane publishes only content that passes the screening ... *)
AutoApprovedPasses == \A p \in automatic : p.content \in Passing

(* ... as long as no edit of the posting overlapped its submission. *)
AutoApprovedPassesUnlessRaced ==
  \A p \in automatic : p.content \in Passing \/ p.posting \in raced

(* Where a posting stands for the public, and what the review promises of   *)
(* it whatever the employer's and the admins' requests do (ReviewGate).     *)
Stage(j) ==
  CASE posting[j].status \in {"draft", "rejected"} -> "private"
    [] posting[j].status = "pending_review" -> "queued"
    [] OTHER -> "public"
Gate == INSTANCE ReviewGate WITH stage <- [j \in Postings |-> Stage(j)], cleared <- approved
ImplementsReviewGate == Gate!Spec
===============================================================================
