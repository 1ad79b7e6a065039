------------------------------- MODULE Accounts -------------------------------
(***************************************************************************)
(* The life of one member's account: the verification link and the admin's *)
(* decision on the application, suspensions and bans and their lifting by  *)
(* hand or by the job, deletion with its grace period, and the status the  *)
(* proxy caches for its stale-JWT guard.                                   *)
(*                                                                         *)
(* A request or job run is cut at its awaits: every SELECT, every UPDATE   *)
(* or transaction and every Redis call is a step, and anything may happen  *)
(* in between.  No UPDATE of auth_users names the status it replaces.      *)
(* Sessions, e-mails, audit rows and events are left out; so is what the   *)
(* cache says of a suspension beyond that there is one.                    *)
(***************************************************************************)
EXTENDS Naturals, FiniteSets

CONSTANTS
  Workers,          \* requests and job runs in progress at one time
  Requests,         \* kinds of request members and admins make
  MaxSuspensions    \* bound on member_discipline_actions of type suspension

ASSUME AccountConstants == MaxSuspensions \in Nat

VARIABLES
  user,       \* the row of auth_users
  susp,       \* member_discipline_actions: the suspensions, in order of creation
  scrubbed,   \* community_profiles has been anonymised
  link,       \* an unused verification token exists
  token,      \* gdpr:cancel:<user> is in Redis
  cache,      \* account_status:<user>, or "none"
  pc,         \* where each worker stands
  req,        \* what each worker has read
  raced,      \* history: a row was written over that was not the one read
  banned,     \* history: a ban was issued
  escaped,    \* history: a banned account was suspended or its link followed
  excused     \* history: the cache entry outlived the status it was read from

db == <<user, susp, scrubbed, link>>
history == <<raced, banned, escaped>>
vars == <<db, token, cache, pc, req, history, excused>>

Ids == 1 .. MaxSuspensions
Decisions == {"APPROVED", "INFO_REQUESTED", "REJECTED"}
Disciplined == {"SUSPENDED", "BANNED"}
DeletionBlocked == Disciplined \cup {"PENDING_DELETION", "ANONYMIZED"}
Status == {"PENDING_EMAIL_VERIFICATION", "PENDING_APPROVAL"} \cup Decisions \cup DeletionBlocked

(* due: scheduledDeletionAt is null, to come or past.  member: the account *)
(* was approved once, so it may have a password, a JWT and moderated posts.*)
Rows == [status : Status, due : {"none", "future", "past"},
         deleted : BOOLEAN, member : BOOLEAN]

Labels == {"idle", "verify", "resend", "decide", "suspend", "ban", "invalidate",
           "lift_check", "lift", "job", "job_lift", "job_expire", "job_invalidate",
           "delete", "delete_token", "cancel_check", "cancel", "cancel_token",
           "erase", "scrub", "fill_read", "fill_set"}
Held == [seen : SUBSET Rows, list : SUBSET Ids, cur : SUBSET Ids, to : Status \cup {"none"}]

Idle(w) == pc[w] = "idle"
Holding(seen, list, cur, to) == [seen |-> seen, list |-> list, cur |-> cur, to |-> to]
NoRequest == Holding({}, {}, {}, "none")
Saw(u) == Holding({u}, {}, {}, "none")
Goto(w, label, r) == pc' = [pc EXCEPT ![w] = label] /\ req' = [req EXCEPT ![w] = r]
Finish(w) == Goto(w, "idle", NoRequest)
Asked(kind) == kind \in Requests

(* UPDATE auth_users ... WHERE id: raced remembers that the row had changed*)
(* since this worker read it.                                              *)
Write(w, u) ==
  /\ user' = u
  /\ raced' = (raced \/ user \notin req[w].seen)

WithStatus(s) == [user EXCEPT !.status = s]

(* Operators named Buggy... are wrong variants of the definition they precede. *)
(* No action uses them: they show which mistakes the properties catch.         *)

-------------------------------------------------------------------------------
(* The application has been submitted and its link sent. *)
Init ==
  /\ user = [status |-> "PENDING_EMAIL_VERIFICATION", due |-> "none",
             deleted |-> FALSE, member |-> FALSE]
  /\ susp = [s \in Ids |-> "none"]
  /\ scrubbed = FALSE
  /\ link = TRUE
  /\ token = FALSE
  /\ cache = "none"
  /\ pc = [w \in Workers |-> "idle"]
  /\ req = [w \in Workers |-> NoRequest]
  /\ raced = FALSE /\ banned = FALSE /\ escaped = FALSE /\ excused = FALSE

(* consumeVerificationToken, atomic, then transitionUserToApprovalPending, *)
(* which asks for no status.                                               *)
ConsumeLink(w) ==
  /\ Asked("verify") /\ Idle(w)
  /\ link
  /\ link' = FALSE
  /\ Goto(w, "verify", NoRequest)
  /\ UNCHANGED <<user, susp, scrubbed, token, cache, history, excused>>

Verify(w) ==
  /\ pc[w] = "verify"
  /\ user' = IF user.deleted THEN user ELSE WithStatus("PENDING_APPROVAL")
  /\ escaped' = (escaped \/ (user.status = "BANNED" /\ ~user.deleted))
  /\ Finish(w)
  /\ UNCHANGED <<susp, scrubbed, link, token, cache, raced, banned, excused>>

(* resendVerification: the old tokens are deleted and a new one created. *)
ResendCheck(w) ==
  /\ Asked("verify") /\ Idle(w)
  /\ user.status = "PENDING_EMAIL_VERIFICATION" /\ ~user.deleted
  /\ Goto(w, "resend", NoRequest)
  /\ UNCHANGED <<db, token, cache, history, excused>>

Resend(w) ==
  /\ pc[w] = "resend"
  /\ link' = TRUE
  /\ Finish(w)
  /\ UNCHANGED <<user, susp, scrubbed, token, cache, history, excused>>

(* approveApplication, requestMoreInfo and rejectApplication. *)
DecideCheck(w, to) ==
  /\ Asked("decide") /\ Idle(w)
  /\ user.status = "PENDING_APPROVAL" /\ ~user.deleted
  /\ Goto(w, "decide", [Saw(user) EXCEPT !.to = to])
  /\ UNCHANGED <<db, token, cache, history, excused>>

(* undoAction of a decision that still stands. *)
UndoCheck(w) ==
  /\ Asked("undo") /\ Idle(w)
  /\ user.status \in Decisions /\ ~user.deleted
  /\ Goto(w, "decide", [Saw(user) EXCEPT !.to = "PENDING_APPROVAL"])
  /\ UNCHANGED <<db, token, cache, history, excused>>

(* updateApplicationStatus. *)
Decide(w) ==
  /\ pc[w] = "decide"
  /\ IF user.deleted THEN UNCHANGED <<user, raced>>
     ELSE Write(w, [user EXCEPT !.status = req[w].to,
                                !.member = @ \/ req[w].to = "APPROVED"])
  /\ Finish(w)
  /\ UNCHANGED <<susp, scrubbed, link, token, cache, banned, escaped, excused>>

-------------------------------------------------------------------------------
(* issueSuspension: only an account that is suspended already is refused. *)
SuspendCheck(w) ==
  /\ Asked("suspend") /\ Idle(w)
  /\ user.member /\ ~user.deleted
  /\ user.status # "SUSPENDED"
  /\ Goto(w, "suspend", Saw(user))
  /\ UNCHANGED <<db, token, cache, history, excused>>

NextId(s) == susp[s] = "none" /\ \A t \in Ids : t < s => susp[t] # "none"

BuggySuspendWithoutRecord(w) ==
  /\ pc[w] = "suspend"
  /\ Write(w, WithStatus("SUSPENDED"))
  /\ escaped' = (escaped \/ user.status = "BANNED")
  /\ Goto(w, "invalidate", NoRequest)
  /\ UNCHANGED <<susp, scrubbed, link, token, cache, banned, excused>>

BuggySuspendKeepsCache(w) ==
  /\ pc[w] = "suspend"
  /\ \E s \in Ids : NextId(s) /\ susp' = [susp EXCEPT ![s] = "running"]
  /\ Write(w, WithStatus("SUSPENDED"))
  /\ escaped' = (escaped \/ user.status = "BANNED")
  /\ Finish(w)
  /\ UNCHANGED <<scrubbed, link, token, cache, banned, excused>>

(* Its transaction: the status and the discipline record. *)
Suspend(w) ==
  /\ pc[w] = "suspend"
  /\ \E s \in Ids : NextId(s) /\ susp' = [susp EXCEPT ![s] = "running"]
  /\ Write(w, WithStatus("SUSPENDED"))
  /\ escaped' = (escaped \/ user.status = "BANNED")
  /\ Goto(w, "invalidate", NoRequest)
  /\ UNCHANGED <<scrubbed, link, token, cache, banned, excused>>

(* issueBan. *)
BanCheck(w) ==
  /\ Asked("ban") /\ Idle(w)
  /\ user.member /\ ~user.deleted
  /\ user.status # "BANNED"
  /\ Goto(w, "ban", Saw(user))
  /\ UNCHANGED <<db, token, cache, history, excused>>

Ban(w) ==
  /\ pc[w] = "ban"
  /\ Write(w, WithStatus("BANNED"))
  /\ banned' = TRUE
  /\ Goto(w, "invalidate", NoRequest)
  /\ UNCHANGED <<susp, scrubbed, link, token, cache, escaped, excused>>

(* Sessions are evicted and the cached status is dropped, after the commit.*)
Invalidate(w) ==
  /\ pc[w] = "invalidate"
  /\ cache' = "none"
  /\ excused' = FALSE
  /\ Finish(w)
  /\ UNCHANGED <<db, token, history>>

Active(s) == susp[s] \in {"running", "over"}

(* liftSuspensionEarly: the suspension, the user, then both rows.  The     *)
(* reads go through db, not through the transaction's tx.                  *)
LiftFind(w, s) ==
  /\ Asked("lift") /\ Idle(w)
  /\ Active(s)
  /\ Goto(w, "lift_check", [NoRequest EXCEPT !.cur = {s}])
  /\ UNCHANGED <<db, token, cache, history, excused>>

BuggyLiftCheckUnchecked(w) ==
  /\ pc[w] = "lift_check"
  /\ IF user.deleted THEN Finish(w)
     ELSE Goto(w, "lift", [Saw(user) EXCEPT !.cur = req[w].cur])
  /\ UNCHANGED <<db, token, cache, history, excused>>

LiftCheck(w) ==
  /\ pc[w] = "lift_check"
  /\ IF user.status = "SUSPENDED" /\ ~user.deleted
     THEN Goto(w, "lift", [Saw(user) EXCEPT !.cur = req[w].cur])
     ELSE Finish(w)
  /\ UNCHANGED <<db, token, cache, history, excused>>

Lift(w) ==
  /\ pc[w] = "lift"
  /\ susp' = [s \in Ids |-> IF s \in req[w].cur THEN "lifted" ELSE susp[s]]
  /\ Write(w, WithStatus("APPROVED"))
  /\ Goto(w, "invalidate", NoRequest)
  /\ UNCHANGED <<scrubbed, link, token, cache, banned, escaped, excused>>

-------------------------------------------------------------------------------
BuggyExpiring == {s \in Ids : susp[s] = "running"}

(* listSuspensionsExpiringBefore: active, with an end that has passed. *)
Expiring == {s \in Ids : susp[s] = "over"}

(* liftExpiredSuspensions: the list, then each row in turn. *)
JobList(w) ==
  /\ Idle(w)
  /\ Expiring # {}
  /\ Goto(w, "job", [NoRequest EXCEPT !.list = Expiring])
  /\ UNCHANGED <<db, token, cache, history, excused>>

(* An account in any other status is passed over and its row left active.  *)
JobCheck(w, s) ==
  /\ pc[w] = "job"
  /\ s \in req[w].list
  /\ LET rest == req[w].list \ {s} IN
     IF user.status = "SUSPENDED" /\ ~user.deleted
     THEN Goto(w, "job_lift", Holding({user}, rest, {s}, "none"))
     ELSE Goto(w, "job", [NoRequest EXCEPT !.list = rest])
  /\ UNCHANGED <<db, token, cache, history, excused>>

JobLift(w) ==
  /\ pc[w] = "job_lift"
  /\ Write(w, WithStatus("APPROVED"))
  /\ Goto(w, "job_expire", [req[w] EXCEPT !.seen = {}])
  /\ UNCHANGED <<susp, scrubbed, link, token, cache, banned, escaped, excused>>

(* expireDisciplineAction, by id. *)
JobExpire(w) ==
  /\ pc[w] = "job_expire"
  /\ susp' = [s \in Ids |-> IF s \in req[w].cur THEN "expired" ELSE susp[s]]
  /\ Goto(w, "job_invalidate", [req[w] EXCEPT !.cur = {}])
  /\ UNCHANGED <<user, scrubbed, link, token, cache, history, excused>>

JobInvalidate(w) ==
  /\ pc[w] = "job_invalidate"
  /\ cache' = "none"
  /\ excused' = FALSE
  /\ Goto(w, "job", req[w])
  /\ UNCHANGED <<db, token, history>>

JobDone(w) ==
  /\ pc[w] = "job"
  /\ req[w].list = {}
  /\ Finish(w)
  /\ UNCHANGED <<db, token, cache, history, excused>>

-------------------------------------------------------------------------------
(* requestAccountDeletion.  The cached status is left as it is. *)
DeleteCheck(w) ==
  /\ Asked("delete") /\ Idle(w)
  /\ user.member /\ ~user.deleted
  /\ user.status \notin DeletionBlocked
  /\ Goto(w, "delete", Saw(user))
  /\ UNCHANGED <<db, token, cache, history, excused>>

Delete(w) ==
  /\ pc[w] = "delete"
  /\ Write(w, [user EXCEPT !.status = "PENDING_DELETION", !.due = "future"])
  /\ Goto(w, "delete_token", NoRequest)
  /\ UNCHANGED <<susp, scrubbed, link, token, cache, banned, escaped, excused>>

DeleteToken(w) ==
  /\ pc[w] = "delete_token"
  /\ token' = TRUE
  /\ Finish(w)
  /\ UNCHANGED <<db, cache, history, excused>>

(* cancelAccountDeletion: the token, the user, the UPDATE, the token again.*)
CancelFind(w) ==
  /\ Asked("cancel") /\ Idle(w)
  /\ token
  /\ Goto(w, "cancel_check", NoRequest)
  /\ UNCHANGED <<db, token, cache, history, excused>>

BuggyCancelCheckUnchecked(w) ==
  /\ pc[w] = "cancel_check"
  /\ Goto(w, "cancel", Saw(user))
  /\ UNCHANGED <<db, token, cache, history, excused>>

CancelCheck(w) ==
  /\ pc[w] = "cancel_check"
  /\ IF user.status = "PENDING_DELETION" /\ ~user.deleted
     THEN Goto(w, "cancel", Saw(user))
     ELSE Goto(w, "cancel_token", NoRequest)
  /\ UNCHANGED <<db, token, cache, history, excused>>

Cancel(w) ==
  /\ pc[w] = "cancel"
  /\ Write(w, [user EXCEPT !.status = "APPROVED", !.due = "none"])
  /\ Goto(w, "cancel_token", NoRequest)
  /\ UNCHANGED <<susp, scrubbed, link, token, cache, banned, escaped, excused>>

CancelToken(w) ==
  /\ pc[w] = "cancel_token"
  /\ token' = FALSE
  /\ Finish(w)
  /\ UNCHANGED <<db, cache, history, excused>>

(* findAccountsPendingAnonymization. *)
ToErase == user.status = "PENDING_DELETION" /\ user.due = "past"

(* The retention job lists, then anonymises each account it listed. *)
EraseList(w) ==
  /\ Idle(w)
  /\ ToErase
  /\ Goto(w, "erase", Saw(user))
  /\ UNCHANGED <<db, token, cache, history, excused>>

Erase(w) ==
  /\ pc[w] = "erase"
  /\ Write(w, [user EXCEPT !.status = "ANONYMIZED", !.deleted = TRUE])
  /\ Goto(w, "scrub", NoRequest)
  /\ UNCHANGED <<susp, scrubbed, link, token, cache, banned, escaped, excused>>

Scrub(w) ==
  /\ pc[w] = "scrub"
  /\ scrubbed' = TRUE
  /\ Finish(w)
  /\ UNCHANGED <<user, susp, link, token, cache, history, excused>>

-------------------------------------------------------------------------------
(* The proxy's stale-JWT guard: a miss, the SELECT, the SET. *)
FillMiss(w) ==
  /\ Asked("visit") /\ Idle(w)
  /\ user.member
  /\ cache = "none"
  /\ Goto(w, "fill_read", NoRequest)
  /\ UNCHANGED <<db, token, cache, history, excused>>

FillRead(w) ==
  /\ pc[w] = "fill_read"
  /\ Goto(w, "fill_set", [NoRequest EXCEPT !.to = user.status])
  /\ UNCHANGED <<db, token, cache, history, excused>>

FillSet(w) ==
  /\ pc[w] = "fill_set"
  /\ cache' = req[w].to
  /\ excused' = (req[w].to # user.status)
  /\ Finish(w)
  /\ UNCHANGED <<db, token, history>>

-------------------------------------------------------------------------------
(* Time passes: a suspension or a grace period ends, a verification link,  *)
(* a cancellation token or a cache entry expires.                          *)
SuspensionEnds(s) ==
  /\ susp[s] = "running"
  /\ susp' = [susp EXCEPT ![s] = "over"]
  /\ UNCHANGED <<user, scrubbed, link, token, cache, pc, req, history, excused>>

GraceEnds ==
  /\ user.due = "future"
  /\ user' = [user EXCEPT !.due = "past"]
  /\ UNCHANGED <<susp, scrubbed, link, token, cache, pc, req, history, excused>>

LinkExpires ==
  /\ link
  /\ link' = FALSE
  /\ UNCHANGED <<user, susp, scrubbed, token, cache, pc, req, history, excused>>

TokenExpires ==
  /\ token
  /\ token' = FALSE
  /\ UNCHANGED <<db, cache, pc, req, history, excused>>

CacheExpires ==
  /\ cache # "none"
  /\ cache' = "none"
  /\ excused' = FALSE
  /\ UNCHANGED <<db, token, pc, req, history>>

(* The process stops, or a statement fails and the request with it; the    *)
(* cache helpers swallow the failure, which comes to the same.             *)
Stop(w) ==
  /\ ~Idle(w)
  /\ Finish(w)
  /\ excused' = (excused \/ pc[w] \in {"invalidate", "job_invalidate"})
  /\ UNCHANGED <<db, token, cache, history>>

Admissions(w) ==
  \/ ConsumeLink(w) \/ Verify(w) \/ ResendCheck(w) \/ Resend(w)
  \/ \E to \in Decisions : DecideCheck(w, to)
  \/ UndoCheck(w) \/ Decide(w)

Discipline(w) ==
  \/ SuspendCheck(w) \/ Suspend(w) \/ BanCheck(w) \/ Ban(w) \/ Invalidate(w)
  \/ \E s \in Ids : LiftFind(w, s)
  \/ LiftCheck(w) \/ Lift(w)

(* A run of the lift job, once it has its list. *)
JobStep(w) ==
  \/ \E s \in Ids : JobCheck(w, s)
  \/ JobLift(w) \/ JobExpire(w) \/ JobInvalidate(w) \/ JobDone(w)

Deletion(w) ==
  \/ DeleteCheck(w) \/ Delete(w) \/ DeleteToken(w)
  \/ CancelFind(w) \/ CancelCheck(w) \/ Cancel(w) \/ CancelToken(w)
  \/ EraseList(w) \/ Erase(w) \/ Scrub(w)

Guard(w) == FillMiss(w) \/ FillRead(w) \/ FillSet(w)

Time ==
  \/ \E s \in Ids : SuspensionEnds(s)
  \/ GraceEnds \/ LinkExpires \/ TokenExpires \/ CacheExpires

Next ==
  \/ \E w \in Workers :
       Admissions(w) \/ Discipline(w) \/ JobList(w) \/ JobStep(w) \/ Deletion(w)
         \/ Guard(w) \/ Stop(w)
  \/ Time

Spec == Init /\ [][Next]_vars

(* Cron keeps starting the lift job, whatever requests the bound on workers*)
(* leaves room for, and not every run of it is stopped before it has lifted*)
(* anything.  What has started goes on or is stopped.                      *)
Busy(w) == ~Idle(w) /\ (Admissions(w) \/ Discipline(w) \/ JobStep(w) \/ Deletion(w)
                          \/ Guard(w) \/ Stop(w))

FairSpec ==
  /\ Spec
  /\ \A w \in Workers : WF_vars(Busy(w))
  /\ SF_vars(\E w \in Workers : JobList(w))
  /\ SF_vars(\E w \in Workers, s \in Ids : JobCheck(w, s))
  /\ SF_vars(\E w \in Workers : JobLift(w))

-------------------------------------------------------------------------------
TypeOK ==
  /\ user \in Rows
  /\ susp \in [Ids -> {"none", "running", "over", "expired", "lifted"}]
  /\ {scrubbed, link, token, raced, banned, escaped, excused} \subseteq BOOLEAN
  /\ cache \in Status \cup {"none"}
  /\ pc \in [Workers -> Labels]
  /\ req \in [Workers -> Held]

(* What a worker has read at each label: the status its handler asked for. *)
ReadFits(w) ==
  \A u \in req[w].seen :
    /\ ~u.deleted \/ pc[w] = "erase"
    /\ pc[w] = "decide" => u.status \in Decisions \cup {"PENDING_APPROVAL"}
    /\ pc[w] \in {"lift", "job_lift"} => u.status = "SUSPENDED"
    /\ pc[w] = "delete" => u.status \notin DeletionBlocked
    /\ pc[w] = "cancel" => u.status = "PENDING_DELETION"
    /\ pc[w] = "erase" => u.status = "PENDING_DELETION" /\ u.due = "past"
ToFits(w) == pc[w] = "decide" => req[w].to \in Decisions \cup {"PENDING_APPROVAL"}

(* Every variable holds a value of its kind, and what a worker has read    *)
(* allows the write it is about to make.                                   *)
TypeInv == TypeOK /\ \A w \in Workers : ReadFits(w) /\ ToFits(w)

(* An account that is suspended has an active suspension, the one issued   *)
(* last, so the job or an admin can restore it: whatever overlaps, no      *)
(* account stays suspended with nothing left to lift.                      *)
SuspensionIsRecorded == user.status = "SUSPENDED" => \E s \in Ids : Active(s)

(* A ban stands and an anonymised account stays so, and neither erasure    *)
(* comes before the grace period has passed, unless a request wrote over a *)
(* row that was no longer the one it had read, or the banned account was   *)
(* suspended anew or its old link followed.                                *)
EndsHold ==
  ~raced =>
    /\ banned /\ ~escaped => user.status = "BANNED"
    /\ user.deleted => user.status = "ANONYMIZED" /\ user.due = "past"

(* The proxy lets nobody in who has been suspended or banned on the word   *)
(* of its cache, once the action that did it has dropped the entry, unless *)
(* that failed or the entry was read before the action and stored after.   *)
CacheFollowsDiscipline ==
  user.status \in Disciplined /\ cache = "APPROVED" =>
    excused \/ \E w \in Workers : pc[w] \in {"invalidate", "job_invalidate"}

(* A suspension that is over does not keep the account suspended for ever, *)
(* whatever overlaps the job that lifts it: a new suspension, a lift by an *)
(* admin, or a run of the job that stopped halfway.                        *)
Overdue == user.status = "SUSPENDED" /\ \E s \in Ids : susp[s] = "over"
ExpiredIsLifted == Overdue ~> ~Overdue

(* Nobody is let in whom no admin has approved: lifting a suspension,      *)
(* cancelling a deletion and undoing a decision all write a status, and    *)
(* however they overlap with the decisions on the application, an account  *)
(* that is approved, disciplined, to be deleted or erased was approved by  *)
(* an admin once.                                                          *)
Admitted == {"APPROVED"} \cup DeletionBlocked
AdmittedByAdmin == user.status \in Admitted => user.member

(* "I understand this is permanent and cannot be undone": no account that  *)
(* was banned is approved again.                                           *)
BanIsPermanent == banned => user.status # "APPROVED"
===============================================================================
