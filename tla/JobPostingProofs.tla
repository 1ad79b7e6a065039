---------------------------- MODULE JobPostingProofs ----------------------------
(***************************************************************************)
(* Proofs about JobPosting for every set of postings, workers and contents *)
(* and every limit.  The invariants are layered: types, approvals and      *)
(* decisions, revisions, and what a request that runs alone may rely on.   *)
(***************************************************************************)
EXTENDS JobPosting, FiniteSetTheorems, TLAPS

(* The steps of Next, one request or one posting at a time. *)
LEMMA NextCases ==
  ASSUME Next
  PROVE  \/ \E w \in Workers, j \in Postings :
              \/ \E to \in Status : EmployerRead(w, j, to)
              \/ \E content \in Contents : EditRead(w, j, content)
              \/ SubmitRead(w, j)
              \/ ChangesRead(w, j)
         \/ \E w \in Workers :
              \/ LimitCheck(w) \/ EmployerWrite(w) \/ Edit(w) \/ EditActive(w)
              \/ EditExpired(w) \/ RenewRead(w) \/ SubmitWrite(w) \/ SubmitRefused(w)
              \/ FastLane(w) \/ AutoApprove(w) \/ RequestChanges(w) \/ Fail(w)
         \/ \E j \in Postings : Approve(j) \/ Reject(j) \/ Expire(j)
  BY Zenon DEF Next

(* What TypeOK says of the requests alone. *)
RequestsOK ==
  /\ pc \in [Workers -> Labels]
  /\ req \in [Workers -> Request]
  /\ \A w \in Workers : pc[w] # "idle" => req[w].posting \in Postings
  /\ \A w \in Workers : pc[w] = "submit" => req[w].from \in {"draft", "rejected"}

(* ... and of the tables and the history. *)
TablesOK ==
  /\ posting \in [Postings -> Row]
  /\ approved \subseteq Postings
  /\ current \subseteq Workers
  /\ decisions \in [Postings -> Nat]
  /\ raced \subseteq Postings
  /\ automatic \subseteq [posting : Postings, content : Contents]

LEMMA TypeParts == TypeOK <=> RequestsOK /\ TablesOK
  BY DEF TypeOK, RequestsOK, TablesOK

LEMMA NoRequestType == NoRequest \in Request
  BY DEF NoRequest, Request, Status

(* A request that ends leaves the requests well typed. *)
LEMMA FinishType ==
  ASSUME RequestsOK, NEW w \in Workers, Finish(w)
  PROVE  RequestsOK'
  BY NoRequestType DEF Finish, RequestsOK, Labels

(* So does one that moves on without changing what it keeps. *)
LEMMA GotoType ==
  ASSUME RequestsOK, NEW w \in Workers, pc[w] # "idle", UNCHANGED req,
         NEW label \in Labels \ {"submit"}, Goto(w, label)
  PROVE  RequestsOK'
  BY DEF Goto, RequestsOK

(* So does one that begins. *)
LEMMA BeginType ==
  ASSUME RequestsOK, TablesOK, NEW w \in Workers, NEW j \in Postings,
         NEW label \in Labels \ {"idle"}, NEW to \in Status, NEW says \in SUBSET Contents,
         label = "submit" => posting[j].status \in {"draft", "rejected"},
         Begin(w, j, label, to, says)
  PROVE  /\ RequestsOK'
         /\ raced' \subseteq Postings
         /\ UNCHANGED <<posting, approved, decisions, automatic>>
<1>1. posting[j].status \in Status
  BY DEF TablesOK, Row
<1> DEFINE r == [posting |-> j, from |-> posting[j].status, to |-> to, says |-> says]
<1>2. r \in Request
  BY <1>1 DEF Request
<1>3. req' = [req EXCEPT ![w] = r] /\ Goto(w, label)
  BY DEF Begin
<1>4. r.posting = j /\ r.from = posting[j].status
  OBVIOUS
<1> HIDE DEF r
<1>5. RequestsOK'
  BY <1>2, <1>3, <1>4 DEF RequestsOK, Goto
<1> QED
  BY <1>5 DEF Begin, TablesOK

(* Writing a status into a row, and restarting the count of its decisions. *)
LEMMA StatusType ==
  ASSUME TablesOK, NEW j \in Postings, NEW s \in Status, SetStatus(j, s)
  PROVE  posting' \in [Postings -> Row]
  BY DEF TablesOK, SetStatus, Row

(* One write may replace the content, the status and the verdict together. *)
LEMMA PostingWrite ==
  ASSUME TablesOK, NEW j \in Postings, NEW c \in Contents, NEW s \in Status,
         NEW v \in {"none", "pass", "fail"}
  PROVE  /\ [posting EXCEPT ![j].content = c] \in [Postings -> Row]
         /\ [posting EXCEPT ![j].content = c, ![j].status = s] \in [Postings -> Row]
         /\ [posting EXCEPT ![j].status = s, ![j].screening = v] \in [Postings -> Row]
<1>1. /\ posting \in [Postings -> Row]
      /\ posting[j] \in Row
  BY DEF TablesOK
<1>2. \A r \in Row : /\ [r EXCEPT !.content = c] \in Row
                     /\ [r EXCEPT !.status = s] \in Row
                     /\ [r EXCEPT !.screening = v] \in Row
  BY DEF Row
<1>3. \A f \in [Postings -> Row] : /\ [f EXCEPT ![j].content = c] \in [Postings -> Row]
                                  /\ [f EXCEPT ![j].status = s] \in [Postings -> Row]
                                  /\ [f EXCEPT ![j].screening = v] \in [Postings -> Row]
  BY <1>2
<1>4. [[posting EXCEPT ![j].content = c] EXCEPT ![j].status = s] \in [Postings -> Row]
  BY <1>1, <1>3
<1>5. [[posting EXCEPT ![j].status = s] EXCEPT ![j].screening = v] \in [Postings -> Row]
  BY <1>1, <1>3
<1> QED
  BY <1>1, <1>3, <1>4, <1>5

(* The two writes of an edit touch no other posting, and no other column. *)
LEMMA WriteEffect ==
  ASSUME TablesOK, RequestsOK, NEW w \in Workers, pc[w] # "idle", Write(w), NEW j \in Postings
  PROVE  /\ posting'[j].status = posting[j].status
         /\ posting'[j].screening = posting[j].screening
         /\ posting'[j].revisions = posting[j].revisions
         /\ j # req[w].posting => posting'[j] = posting[j]
<1>1. PICK content \in Contents :
        posting' = [posting EXCEPT ![req[w].posting].content = content]
  BY DEF Write, RequestsOK, Request
<1> QED
  BY <1>1 DEF TablesOK, Row

LEMMA EditActiveEffect ==
  ASSUME TablesOK, RequestsOK, NEW w \in Workers, EditActive(w), NEW j \in Postings
  PROVE  \/ posting'[j] = posting[j] /\ decisions'[j] = decisions[j]
         \/ /\ j = req[w].posting
            /\ posting'[j].status = "pending_review"
            /\ posting'[j].revisions = posting[j].revisions
            /\ decisions'[j] = 0
<1>1. CASE w \in current
  <2>1. PICK content \in Contents :
          posting' = [posting EXCEPT ![req[w].posting].content = content,
                                     ![req[w].posting].status = "pending_review"]
    BY <1>1 DEF EditActive, RequestsOK, Request
  <2> QED
    BY <2>1 DEF TablesOK, Row, EditActive, Queued
<1> QED
  BY <1>1 DEF EditActive

LEMMA QueuedType ==
  ASSUME TablesOK, NEW j \in Postings, NEW s \in Status, Queued(j, s)
  PROVE  decisions' \in [Postings -> Nat]
  BY DEF TablesOK, Queued

LEMMA DecideType ==
  ASSUME TablesOK, NEW j \in Postings, Decide(j)
  PROVE  decisions' \in [Postings -> Nat]
  BY DEF TablesOK, Decide

LEMMA BumpType ==
  ASSUME TablesOK, NEW j, Bump(j)
  PROVE  current' \subseteq Workers
  BY DEF TablesOK, Bump

LEMMA TypeInit == Init => TypeOK
<1> SUFFICES ASSUME Init PROVE TypeOK
  OBVIOUS
<1>1. posting \in [Postings -> Row]
  BY DEF Init, Row, Status
<1>2. RequestsOK
  BY NoRequestType DEF Init, RequestsOK, Labels
<1> QED
  BY <1>1, <1>2, TypeParts DEF Init, TablesOK

LEMMA TypeStep == TypeOK /\ [Next]_vars => TypeOK'
<1> SUFFICES ASSUME TypeOK, [Next]_vars PROVE TypeOK'
  OBVIOUS
<1> RequestsOK /\ TablesOK
  BY TypeParts
<1>1. ASSUME RequestsOK', TablesOK' PROVE TypeOK'
  BY <1>1 DEF TypeOK, RequestsOK, TablesOK
<1>2. CASE UNCHANGED vars
  BY <1>2 DEF vars, TypeOK
<1>3. ASSUME NEW w \in Workers, NEW j \in Postings, NEW to \in Status, EmployerRead(w, j, to)
      PROVE  TypeOK'
  <2>1. PICK label \in {"limit", "write"} : Begin(w, j, label, to, {})
    BY <1>3 DEF EmployerRead
  <2>2. label \in Labels \ {"idle"} /\ label # "submit"
    BY DEF Labels
  <2>3. RequestsOK' /\ raced' \subseteq Postings /\ UNCHANGED <<posting, approved, decisions, automatic>>
    BY <2>1, <2>2, BeginType
  <2> QED
    BY <1>1, <1>3, <2>3 DEF EmployerRead, TablesOK
<1>4. ASSUME NEW w \in Workers, NEW j \in Postings, NEW content \in Contents,
             EditRead(w, j, content)
      PROVE  TypeOK'
  <2>1. posting[j].status \in Status
    BY DEF TablesOK, Row
  <2>2. PICK label \in {"edit_active", "edit_expired", "edit"} :
          Begin(w, j, label, posting[j].status, {content})
    BY <1>4 DEF EditRead
  <2>3. label \in Labels \ {"idle"} /\ label # "submit"
    BY DEF Labels
  <2>4. RequestsOK' /\ raced' \subseteq Postings /\ UNCHANGED <<posting, approved, decisions, automatic>>
    BY <2>1, <2>2, <2>3, BeginType
  <2>5. current' \subseteq Workers
    BY <1>4 DEF EditRead, TablesOK
  <2> QED
    BY <1>1, <2>4, <2>5 DEF TablesOK
<1>5. ASSUME NEW w \in Workers, NEW j \in Postings, SubmitRead(w, j) PROVE TypeOK'
  <2>1. posting[j].content \in Contents /\ posting[j].status \in {"draft", "rejected"}
    BY <1>5 DEF SubmitRead, Submittable, TablesOK, Row
  <2>2. Begin(w, j, "submit", "pending_review", {posting[j].content})
    BY <1>5 DEF SubmitRead
  <2>3. RequestsOK' /\ raced' \subseteq Postings /\ UNCHANGED <<posting, approved, decisions, automatic>>
    BY <2>1, <2>2, BeginType DEF Labels, Status
  <2> QED
    BY <1>1, <1>5, <2>3 DEF SubmitRead, TablesOK
<1>6. ASSUME NEW w \in Workers, NEW j \in Postings, ChangesRead(w, j) PROVE TypeOK'
  <2>1. [NoRequest EXCEPT !.posting = j] \in Request
    BY DEF NoRequest, Request, Status
  <2>2. [NoRequest EXCEPT !.posting = j].posting = j
    BY DEF NoRequest
  <2>3. RequestsOK'
    BY <1>6, <2>1, <2>2 DEF ChangesRead, Goto, RequestsOK, Labels
  <2> QED
    BY <1>1, <1>6, <2>3 DEF ChangesRead, TablesOK, history
<1>7. ASSUME NEW w \in Workers, LimitCheck(w) PROVE TypeOK'
  <2>1. RequestsOK'
    BY <1>7, FinishType DEF LimitCheck, Goto, RequestsOK, Labels
  <2> QED
    BY <1>1, <1>7, <2>1 DEF LimitCheck, TablesOK, history
<1>8. ASSUME NEW w \in Workers, EmployerWrite(w) PROVE TypeOK'
  <2>1. req[w].posting \in Postings /\ req[w].to \in Status
    BY <1>8 DEF EmployerWrite, RequestsOK, Request
  <2>2. posting' \in [Postings -> Row] /\ decisions' \in [Postings -> Nat] /\ current' \subseteq Workers
    BY <1>8, <2>1, StatusType, QueuedType, BumpType DEF EmployerWrite
  <2> QED
    BY <1>1, <1>8, <2>2, FinishType DEF EmployerWrite, TablesOK, history
<1>9. ASSUME NEW w \in Workers, pc[w] # "idle", Write(w) PROVE posting' \in [Postings -> Row]
  <2>1. req[w].posting \in Postings /\ req[w].says \subseteq Contents
    BY <1>9 DEF RequestsOK, Request
  <2>2. PICK content \in Contents :
          posting' = [posting EXCEPT ![req[w].posting].content = content]
    BY <1>9, <2>1 DEF Write
  <2> QED
    BY <2>1, <2>2, PostingWrite, Zenon DEF Status
<1>10. ASSUME NEW w \in Workers, Edit(w) PROVE TypeOK'
  BY <1>1, <1>9, <1>10, FinishType, BumpType DEF Edit, TablesOK, history
<1>11. ASSUME NEW w \in Workers, EditActive(w) PROVE TypeOK'
  <2>1. posting' \in [Postings -> Row]
    <3>1. req[w].posting \in Postings /\ req[w].says \subseteq Contents
      BY <1>11 DEF EditActive, RequestsOK, Request
    <3>2. CASE UNCHANGED posting
      BY <3>2 DEF TablesOK
    <3>3. CASE \E content \in req[w].says :
                 posting' = [posting EXCEPT ![req[w].posting].content = content,
                                            ![req[w].posting].status = "pending_review"]
      <4>1. PICK content \in Contents :
              posting' = [posting EXCEPT ![req[w].posting].content = content,
                                         ![req[w].posting].status = "pending_review"]
        BY <3>1, <3>3
      <4> QED
        BY <3>1, <4>1, PostingWrite, Zenon DEF Status
    <3> QED
      BY <1>11, <3>2, <3>3 DEF EditActive
  <2>2. decisions' \in [Postings -> Nat] /\ current' \subseteq Workers
    BY <1>11 DEF EditActive, Queued, Bump, TablesOK
  <2> QED
    BY <1>1, <1>11, <2>1, <2>2, FinishType DEF EditActive, TablesOK, history
<1>12. ASSUME NEW w \in Workers, EditExpired(w) PROVE TypeOK'
  <2>1. RequestsOK'
    BY <1>12, GotoType DEF EditExpired, Labels
  <2> QED
    BY <1>1, <1>9, <1>12, <2>1, BumpType DEF EditExpired, TablesOK, history
<1>13. ASSUME NEW w \in Workers, RenewRead(w) PROVE TypeOK'
  <2>1. [req[w] EXCEPT !.to = "pending_review"] \in Request
    BY DEF RequestsOK, Request, Status
  <2>2. [req[w] EXCEPT !.to = "pending_review"].posting = req[w].posting
    BY DEF RequestsOK, Request
  <2>3. CASE Finish(w)
    BY <1>1, <1>13, <2>3, FinishType DEF RenewRead, TablesOK, history
  <2>4. CASE Goto(w, "write") /\ req' = [req EXCEPT ![w].to = "pending_review"]
    <3>1. RequestsOK'
      BY <1>13, <2>1, <2>2, <2>4 DEF RenewRead, Goto, RequestsOK, Labels
    <3> QED
      BY <1>1, <1>13, <3>1 DEF RenewRead, TablesOK, history
  <2> QED
    BY <1>13, <2>3, <2>4 DEF RenewRead
<1>14. ASSUME NEW w \in Workers, SubmitWrite(w) PROVE TypeOK'
  <2>1. posting' \in [Postings -> Row]
    <3>1. req[w].posting \in Postings /\ Verdict(w) \in {"none", "pass", "fail"}
      BY <1>14 DEF SubmitWrite, RequestsOK, Verdict
    <3>2. \E c : c \in Contents
      BY <3>1 DEF TablesOK, Row
    <3> QED
      BY <1>14, <3>1, <3>2, PostingWrite DEF SubmitWrite, Status
  <2>2. decisions' \in [Postings -> Nat] /\ current' \subseteq Workers
    BY <1>14 DEF SubmitWrite, Queued, Bump, TablesOK
  <2>3. RequestsOK'
    BY <1>14, GotoType DEF SubmitWrite, Labels
  <2> QED
    BY <1>1, <1>14, <2>1, <2>2, <2>3 DEF SubmitWrite, TablesOK, history
<1>15. ASSUME NEW w \in Workers, SubmitRefused(w) PROVE TypeOK'
  BY <1>1, <1>15, FinishType DEF SubmitRefused, TablesOK, history
<1>16. ASSUME NEW w \in Workers, FastLane(w) PROVE TypeOK'
  <2>1. RequestsOK'
    BY <1>16, FinishType, GotoType DEF FastLane, Labels
  <2> QED
    BY <1>1, <1>16, <2>1 DEF FastLane, TablesOK, history
<1>17. ASSUME NEW j \in Postings, Approval(j)
       PROVE  /\ posting' \in [Postings -> Row]
              /\ approved' \subseteq Postings
              /\ decisions' \in [Postings -> Nat]
  BY <1>17, StatusType, DecideType DEF Approval, TablesOK, Status
<1>18. ASSUME NEW w \in Workers, AutoApprove(w) PROVE TypeOK'
  <2>1. req[w].posting \in Postings
    BY <1>18 DEF AutoApprove, RequestsOK
  <2>2. posting' \in [Postings -> Row] /\ approved' \subseteq Postings
          /\ decisions' \in [Postings -> Nat]
    BY <1>17, <1>18, <2>1 DEF AutoApprove, TablesOK
  <2>3. automatic' \subseteq [posting : Postings, content : Contents]
    BY <1>18, <2>1 DEF AutoApprove, TablesOK, Row
  <2> QED
    BY <1>1, <1>18, <2>2, <2>3, FinishType DEF AutoApprove, TablesOK
<1>19. ASSUME NEW w \in Workers, RequestChanges(w) PROVE TypeOK'
  <2>1. posting' \in [Postings -> Row] /\ decisions' \in [Postings -> Nat]
    BY <1>19 DEF RequestChanges, Decide, TablesOK, Row, Status
  <2> QED
    BY <1>1, <1>19, <2>1, FinishType DEF RequestChanges, TablesOK, history
<1>20. ASSUME NEW w \in Workers, Fail(w) PROVE TypeOK'
  BY <1>1, <1>20, FinishType DEF Fail, TablesOK, history
<1>21. ASSUME NEW j \in Postings, Approve(j) PROVE TypeOK'
  BY <1>1, <1>17, <1>21 DEF Approve, TablesOK, RequestsOK, history
<1>22. ASSUME NEW j \in Postings, Reject(j) PROVE TypeOK'
  BY <1>1, <1>22, StatusType, DecideType DEF Reject, TablesOK, RequestsOK, history, Status
<1>23. ASSUME NEW j \in Postings, Expire(j) PROVE TypeOK'
  BY <1>1, <1>23, StatusType, BumpType DEF Expire, TablesOK, RequestsOK, history, Status
<1> QED
  BY <1>2, <1>3, <1>4, <1>5, <1>6, <1>7, <1>8, <1>10, <1>11, <1>12, <1>13, <1>14, <1>15,
     <1>16, <1>18, <1>19, <1>20, <1>21, <1>22, <1>23, NextCases

(* TypeOK holds in every reachable state, for every value of the constants. *)
THEOREM TypeCorrect == Spec => []TypeOK
  BY TypeInit, TypeStep, PTL DEF Spec

-------------------------------------------------------------------------------
(* LiveWasApproved is inductive once a request that may write a live status *)
(* is known to work on an approved posting.                                 *)
ApprovalInv ==
  /\ LiveWasApproved
  /\ \A w \in Workers : pc[w] \in {"limit", "write"} => req[w].posting \in approved

LEMMA ApprovalInit == Init => ApprovalInv
  BY DEF Init, ApprovalInv, LiveWasApproved

LEMMA ApprovalStep == TypeOK /\ ApprovalInv /\ [Next]_vars => ApprovalInv'
<1> SUFFICES ASSUME TypeOK, ApprovalInv, [Next]_vars PROVE ApprovalInv'
  OBVIOUS
<1> USE DEF ApprovalInv, LiveWasApproved
<1>1. CASE UNCHANGED vars
  BY <1>1 DEF vars
<1>2. ASSUME NEW w \in Workers, NEW j \in Postings, NEW to \in Status, EmployerRead(w, j, to)
      PROVE  ApprovalInv'
  BY <1>2 DEF EmployerRead, EmployerMay, Begin, Goto, TypeOK
<1>3. ASSUME NEW w \in Workers, NEW j \in Postings, NEW content \in Contents,
             EditRead(w, j, content)
      PROVE  ApprovalInv'
  BY <1>3 DEF EditRead, Begin, Goto, TypeOK
<1>4. ASSUME NEW w \in Workers, NEW j \in Postings, SubmitRead(w, j) \/ ChangesRead(w, j)
      PROVE  ApprovalInv'
  BY <1>4 DEF SubmitRead, ChangesRead, Begin, Goto, TypeOK
<1>5. ASSUME NEW w \in Workers,
             LimitCheck(w) \/ SubmitRefused(w) \/ FastLane(w) \/ Fail(w)
      PROVE  ApprovalInv'
  BY <1>5 DEF LimitCheck, SubmitRefused, FastLane, Fail, Goto, Finish, TypeOK
<1>6. ASSUME NEW w \in Workers, EmployerWrite(w) PROVE ApprovalInv'
  BY <1>6 DEF EmployerWrite, SetStatus, Finish, TypeOK, Row
<1>7. ASSUME NEW w \in Workers, Edit(w) \/ EditExpired(w) PROVE ApprovalInv'
  <2>1. pc[w] # "idle" /\ Write(w) /\ UNCHANGED approved
    BY <1>7 DEF Edit, EditExpired
  <2>2. \A j \in Postings : posting'[j].status = posting[j].status
    BY <2>1, TypeParts, WriteEffect
  <2> QED
    BY <1>7, <2>1, <2>2 DEF Edit, EditExpired, Finish, Goto, TypeOK
<1>8. ASSUME NEW w \in Workers, EditActive(w) PROVE ApprovalInv'
  <2>1. \A j \in Postings : posting'[j].status \in {posting[j].status, "pending_review"}
    BY <1>8, TypeParts, EditActiveEffect
  <2> QED
    BY <1>8, <2>1 DEF EditActive, Finish, TypeOK
<1>9. ASSUME NEW w \in Workers, RenewRead(w) PROVE ApprovalInv'
  BY <1>9 DEF RenewRead, Goto, Finish, TypeOK, Request
<1>10. ASSUME NEW w \in Workers, SubmitWrite(w) PROVE ApprovalInv'
  BY <1>10 DEF SubmitWrite, Goto, TypeOK, Row
<1>11. ASSUME NEW w \in Workers, AutoApprove(w) PROVE ApprovalInv'
  BY <1>11 DEF AutoApprove, Approval, SetStatus, Finish, TypeOK, Row
<1>12. ASSUME NEW w \in Workers, RequestChanges(w) PROVE ApprovalInv'
  BY <1>12 DEF RequestChanges, Finish, TypeOK, Row
<1>13. ASSUME NEW j \in Postings, Approve(j) \/ Reject(j) \/ Expire(j) PROVE ApprovalInv'
  BY <1>13 DEF Approve, Approval, Reject, Expire, AwaitsDecision, SetStatus, TypeOK, Row
<1> HIDE DEF ApprovalInv, LiveWasApproved
<1> QED
  BY <1>1, <1>2, <1>3, <1>4, <1>5, <1>6, <1>7, <1>8, <1>9, <1>10, <1>11, <1>12, <1>13,
     NextCases

(* No posting goes live, or is paused, expired or closed, that no approval *)
(* has ever passed: whatever status a request read, its write by id obeys  *)
(* the Approval Integrity Rule.                                            *)
THEOREM ApprovedBeforeLive == Spec => []LiveWasApproved
<1>1. ApprovalInv => LiveWasApproved
  BY DEF ApprovalInv
<1> QED
  BY <1>1, TypeInit, TypeStep, ApprovalInit, ApprovalStep, PTL DEF Spec

-------------------------------------------------------------------------------
(* A posting still in the queue has no decision: what DecidedOnce rests on. *)
DecisionInv ==
  /\ DecidedOnce
  /\ \A j \in Postings : posting[j].status = "pending_review" => decisions[j] = 0

LEMMA DecisionInit == Init => DecisionInv
  BY DEF Init, DecisionInv, DecidedOnce

(* A write that enters the queue restarts the count; a decision leaves it. *)
LEMMA DecisionStep == TypeOK /\ DecisionInv /\ [Next]_vars => DecisionInv'
<1> SUFFICES ASSUME TypeOK, DecisionInv, [Next]_vars PROVE DecisionInv'
  OBVIOUS
<1> USE DEF DecisionInv, DecidedOnce
<1>1. CASE UNCHANGED <<posting, decisions>>
  BY <1>1
<1>2. ASSUME NEW w \in Workers, EmployerWrite(w) PROVE DecisionInv'
  BY <1>2 DEF EmployerWrite, SetStatus, Queued, TypeOK, Row
<1>3. ASSUME NEW w \in Workers, Edit(w) \/ EditExpired(w) PROVE DecisionInv'
  <2>1. pc[w] # "idle" /\ Write(w) /\ UNCHANGED decisions
    BY <1>3 DEF Edit, EditExpired
  <2> QED
    BY <2>1, TypeParts, WriteEffect
<1>4. ASSUME NEW w \in Workers, EditActive(w) PROVE DecisionInv'
  BY <1>4, TypeParts, EditActiveEffect
<1>5. ASSUME NEW w \in Workers, SubmitWrite(w) PROVE DecisionInv'
  BY <1>5 DEF SubmitWrite, Queued, TypeOK, Row
<1>6. ASSUME NEW w \in Workers, AutoApprove(w) PROVE DecisionInv'
  BY <1>6 DEF AutoApprove, Approval, AwaitsDecision, Decide, SetStatus, TypeOK, Row
<1>7. ASSUME NEW w \in Workers, RequestChanges(w) PROVE DecisionInv'
  BY <1>7 DEF RequestChanges, AwaitsDecision, Decide, TypeOK, Row
<1>8. ASSUME NEW j \in Postings, Approve(j) \/ Reject(j) \/ Expire(j) PROVE DecisionInv'
  BY <1>8 DEF Approve, Approval, Reject, Expire, AwaitsDecision, Decide, SetStatus, TypeOK, Row
<1>9. ASSUME NEW w \in Workers,
             \/ \E j \in Postings :
                  \/ \E to \in Status : EmployerRead(w, j, to)
                  \/ \E content \in Contents : EditRead(w, j, content)
                  \/ SubmitRead(w, j) \/ ChangesRead(w, j)
             \/ LimitCheck(w) \/ RenewRead(w) \/ SubmitRefused(w) \/ FastLane(w) \/ Fail(w)
      PROVE  UNCHANGED <<posting, decisions>>
  BY <1>9 DEF EmployerRead, EditRead, SubmitRead, ChangesRead, Begin, LimitCheck,
              RenewRead, SubmitRefused, FastLane, Fail
<1> HIDE DEF DecisionInv, DecidedOnce
<1> QED
  BY <1>1, <1>2, <1>3, <1>4, <1>5, <1>6, <1>7, <1>8, <1>9, NextCases DEF vars

(* Nobody decides one submission twice, however admins and the fast lane  *)
(* interleave: the guard each UPDATE repeats is enough.                   *)
THEOREM OneDecision == Spec => []DecidedOnce
<1>1. DecisionInv => DecidedOnce
  BY DEF DecisionInv
<1> QED
  BY <1>1, TypeInit, TypeStep, DecisionInit, DecisionStep, PTL DEF Spec

-------------------------------------------------------------------------------
(* The admins who have read a revision count of j below the limit and have *)
(* not written it back.  Each may still add one round.                     *)
Changing(j) == {w \in Workers : pc[w] = "changes" /\ req[w].posting = j}

Rounds(j) == posting[j].revisions + Cardinality(Changing(j))

RevisionInv == \A j \in Postings : Rounds(j) < MaxRevisions + Cardinality(Workers)

LEMMA ChangingFinite ==
  ASSUME NEW j
  PROVE  /\ IsFiniteSet(Changing(j))
         /\ Cardinality(Changing(j)) \in Nat
         /\ Cardinality(Changing(j)) <= Cardinality(Workers)
         /\ Cardinality(Workers) \in Nat
<1>1. Changing(j) \subseteq Workers
  BY DEF Changing
<1> QED
  BY <1>1, PostingConstants, FS_Subset, FS_CardinalityType

LEMMA RevisionInit == Init => RevisionInv
<1> SUFFICES ASSUME Init, NEW j \in Postings
             PROVE  Rounds(j) < MaxRevisions + Cardinality(Workers)
  BY DEF RevisionInv
<1>1. Changing(j) = {} /\ posting[j].revisions = 0
  BY DEF Init, Changing
<1>2. Cardinality(Changing(j)) = 0
  BY <1>1, FS_EmptySet
<1> QED
  BY <1>1, <1>2, ChangingFinite, PostingConstants DEF Rounds

(* A step that adds no round and lets no admin into the last statement. *)
LEMMA RevisionFrame ==
  ASSUME TypeOK, RevisionInv, NEW j \in Postings,
         posting'[j].revisions = posting[j].revisions, Changing(j)' \subseteq Changing(j)
  PROVE  Rounds(j)' < MaxRevisions + Cardinality(Workers)
<1>1. Cardinality(Changing(j)') \in Nat /\ Cardinality(Changing(j)') <= Cardinality(Changing(j))
  BY ChangingFinite, FS_Subset, FS_CardinalityType
<1>2. posting[j].revisions \in Nat
  BY DEF TypeOK, Row
<1> QED
  BY <1>1, <1>2, ChangingFinite, PostingConstants DEF RevisionInv, Rounds

LEMMA RevisionStep == TypeOK /\ TypeOK' /\ RevisionInv /\ [Next]_vars => RevisionInv'
<1> SUFFICES ASSUME TypeOK, TypeOK', RevisionInv, [Next]_vars, NEW j \in Postings
             PROVE  Rounds(j)' < MaxRevisions + Cardinality(Workers)
  BY DEF RevisionInv
<1>1. CASE \E w \in Workers, i \in Postings : ChangesRead(w, i)
  <2> PICK w \in Workers, i \in Postings : ChangesRead(w, i)
    BY <1>1
  <2>1. CASE i = j
    <3>1. posting'[j].revisions = posting[j].revisions /\ posting[j].revisions < MaxRevisions
      BY <2>1 DEF ChangesRead, MayRevise
    <3>2. posting[j].revisions \in Nat
      BY DEF TypeOK, Row
    <3>3. Cardinality(Changing(j)') \in Nat /\ Cardinality(Changing(j)') <= Cardinality(Workers)
      <4>1. Changing(j)' \subseteq Workers
        BY DEF Changing
      <4> QED
        BY <4>1, PostingConstants, FS_Subset, FS_CardinalityType
    <3> QED
      BY <3>1, <3>2, <3>3, ChangingFinite, PostingConstants DEF Rounds
  <2>2. CASE i # j
    <3>1. Changing(j)' \subseteq Changing(j)
      BY <2>2 DEF ChangesRead, Changing, Goto, TypeOK, NoRequest
    <3> QED
      BY <3>1, RevisionFrame DEF ChangesRead
  <2> QED
    BY <2>1, <2>2
<1>2. CASE \E w \in Workers : RequestChanges(w)
  <2> PICK w \in Workers : RequestChanges(w)
    BY <1>2
  <2>1. Changing(j)' = Changing(j) \ {w}
    BY PostingConstants DEF RequestChanges, Finish, Changing, TypeOK, NoRequest
  <2>2. CASE req[w].posting = j
    <3>1. w \in Changing(j)
      BY <2>2 DEF RequestChanges, Changing
    <3>2. Cardinality(Changing(j)') = Cardinality(Changing(j)) - 1
      BY <2>1, <3>1, ChangingFinite, FS_RemoveElement
    <3>3. posting[j].revisions \in Nat
      BY DEF TypeOK, Row
    <3>4. posting'[j].revisions \in {posting[j].revisions, posting[j].revisions + 1}
      BY DEF RequestChanges, TypeOK, Row
    <3> QED
      BY <3>2, <3>3, <3>4, ChangingFinite, PostingConstants DEF RevisionInv, Rounds
  <2>3. CASE req[w].posting # j
    <3>1. posting'[j].revisions = posting[j].revisions
      BY <2>3 DEF RequestChanges, TypeOK, Row
    <3> QED
      BY <2>1, <3>1, RevisionFrame
  <2> QED
    BY <2>2, <2>3
<1>3. CASE UNCHANGED vars
  BY <1>3, RevisionFrame DEF vars, Changing
<1>4. ASSUME NEW w \in Workers, NEW i \in Postings,
             \/ \E to \in Status : EmployerRead(w, i, to)
             \/ \E content \in Contents : EditRead(w, i, content)
             \/ SubmitRead(w, i)
      PROVE  Rounds(j)' < MaxRevisions + Cardinality(Workers)
  <2>1. posting' = posting
    BY <1>4 DEF EmployerRead, EditRead, SubmitRead, Begin
  <2>2. PICK label \in Labels \ {"changes"} : \E to, says : Begin(w, i, label, to, says)
    BY <1>4 DEF EmployerRead, EditRead, SubmitRead, Labels
  <2>3. Changing(j)' \subseteq Changing(j)
    BY <2>2 DEF Begin, Goto, Changing, TypeOK
  <2> QED
    BY <2>1, <2>3, RevisionFrame
<1>5. ASSUME NEW w \in Workers,
             \/ LimitCheck(w) \/ EmployerWrite(w) \/ Edit(w) \/ EditActive(w)
             \/ EditExpired(w) \/ RenewRead(w) \/ SubmitWrite(w) \/ SubmitRefused(w)
             \/ FastLane(w) \/ AutoApprove(w) \/ Fail(w)
      PROVE  Rounds(j)' < MaxRevisions + Cardinality(Workers)
  <2>1. Changing(j)' \subseteq Changing(j)
    <3>1. Finish(w) \/ \E label \in Labels \ {"changes"} : Goto(w, label)
      BY <1>5 DEF LimitCheck, EmployerWrite, Edit, EditActive, EditExpired, RenewRead,
                  SubmitWrite, SubmitRefused, FastLane, AutoApprove, Fail, Labels
    <3>2. \A v \in Workers \ {w} : pc'[v] = pc[v] /\ req'[v] = req[v]
      BY <1>5 DEF LimitCheck, EmployerWrite, Edit, EditActive, EditExpired, RenewRead,
                  SubmitWrite, SubmitRefused, FastLane, AutoApprove, Fail, Finish, Goto, TypeOK
    <3>3. pc'[w] # "changes"
      BY <3>1 DEF Finish, Goto, TypeOK
    <3> QED
      BY <3>2, <3>3 DEF Changing
  <2>2. posting'[j].revisions = posting[j].revisions
    <3>1. CASE Edit(w) \/ EditExpired(w)
      <4>1. pc[w] # "idle" /\ Write(w)
        BY <3>1 DEF Edit, EditExpired
      <4> QED
        BY <4>1, TypeParts, WriteEffect
    <3>2. CASE EditActive(w)
      BY <3>2, TypeParts, EditActiveEffect
    <3>3. CASE EmployerWrite(w) \/ SubmitWrite(w) \/ AutoApprove(w)
      BY <3>3 DEF EmployerWrite, SubmitWrite, AutoApprove, Approval, SetStatus, TypeOK, Row
    <3>4. CASE LimitCheck(w) \/ RenewRead(w) \/ SubmitRefused(w) \/ FastLane(w) \/ Fail(w)
      BY <3>4 DEF LimitCheck, RenewRead, SubmitRefused, FastLane, Fail
    <3> QED
      BY <1>5, <3>1, <3>2, <3>3, <3>4
  <2> QED
    BY <2>1, <2>2, RevisionFrame
<1>6. ASSUME NEW i \in Postings, Approve(i) \/ Reject(i) \/ Expire(i)
      PROVE  Rounds(j)' < MaxRevisions + Cardinality(Workers)
  <2>1. Changing(j)' \subseteq Changing(j)
    BY <1>6 DEF Approve, Reject, Expire, Changing
  <2>2. posting'[j].revisions = posting[j].revisions
    BY <1>6 DEF Approve, Approval, Reject, Expire, SetStatus, TypeOK, Row
  <2> QED
    BY <2>1, <2>2, RevisionFrame
<1> QED
  BY <1>1, <1>2, <1>3, <1>4, <1>5, <1>6, NextCases

(* Admins who ask for changes at the same moment may pass the limit on the *)
(* rounds, which each read before any wrote, but only by their number.     *)
THEOREM RevisionsBounded == Spec => []RevisionsNearLimit
<1>1. TypeOK /\ RevisionInv => RevisionsNearLimit
  <2> SUFFICES ASSUME TypeOK, RevisionInv, NEW j \in Postings
               PROVE  posting[j].revisions < MaxRevisions + Cardinality(Workers)
    BY DEF RevisionsNearLimit
  <2>1. posting[j].revisions \in Nat
    BY DEF TypeOK, Row
  <2> QED
    BY <2>1, ChangingFinite, PostingConstants DEF RevisionInv, Rounds
<1> QED
  BY <1>1, TypeInit, TypeStep, RevisionInit, RevisionStep, PTL DEF Spec

-------------------------------------------------------------------------------
(* An employer request in progress on j; a submission's fast lane is part of it. *)
On(w, j) == req[w].posting = j /\ pc[w] \notin {"idle", "changes"}

(* What a request that is alone on j may rely on. *)
StillTrue(w, j) ==
  /\ posting[j].status # "filled"
  /\ pc[w] = "submit" => req[w].says = {posting[j].content}
  /\ pc[w] = "fast_lane" /\ posting[j].screening = "pass" => posting[j].content \in Passing
  /\ pc[w] = "auto_approve" => posting[j].content \in Passing

Alone(j) ==
  /\ \A v, w \in Workers : On(v, j) /\ On(w, j) => v = w
  /\ \A w \in Workers : On(w, j) => StillTrue(w, j)

AloneInv == \A j \in Postings \ raced : Alone(j)

LEMMA AloneInit == Init => AloneInv
  BY DEF Init, AloneInv, Alone, On

(* One worker's step keeps the others' reads true if it is itself the one *)
(* request on j, or leaves what they read of j alone.                     *)
LEMMA AloneFrame ==
  ASSUME NEW j \in Postings, Alone(j), NEW w \in Workers,
         \A v \in Workers \ {w} : pc'[v] = pc[v] /\ req'[v] = req[v],
         On(w, j)' => StillTrue(w, j)' /\ \A v \in Workers \ {w} : ~On(v, j),
         \/ On(w, j)
         \/ /\ posting'[j].content = posting[j].content
            /\ posting'[j].screening = posting[j].screening
            /\ posting'[j].status = "filled" => posting[j].status = "filled"
  PROVE  Alone(j)'
<1>1. \A v \in Workers \ {w} : On(v, j)' <=> On(v, j)
  BY DEF On
<1>2. ASSUME NEW v \in Workers \ {w}, On(v, j)' PROVE StillTrue(v, j)'
  BY <1>1, <1>2 DEF Alone, StillTrue
<1> QED
  BY <1>1, <1>2 DEF Alone

(* The request that is alone on j has no other beside it. *)
LEMMA AloneOthers ==
  ASSUME NEW j \in Postings, Alone(j), NEW w \in Workers, On(w, j)
  PROVE  StillTrue(w, j) /\ \A v \in Workers \ {w} : ~On(v, j)
  BY DEF Alone

(* A request that begins on an unraced posting finds nobody there. *)
LEMMA AloneBegin ==
  ASSUME TypeOK, AloneInv, NEW j \in Postings \ raced', NEW w \in Workers, NEW i \in Postings,
         NEW label, NEW to, NEW says, Begin(w, i, label, to, says),
         label \notin {"fast_lane", "auto_approve"},
         label = "submit" => says = {posting[i].content},
         posting[i].status # "filled"
  PROVE  Alone(j)'
<1>1. j \in Postings \ raced /\ Alone(j) /\ UNCHANGED posting
  BY DEF AloneInv, Begin
<1>2. \A v \in Workers \ {w} : pc'[v] = pc[v] /\ req'[v] = req[v]
  BY DEF Begin, Goto, TypeOK
<1>3. ~On(w, j) /\ req'[w].posting = i /\ pc'[w] = label /\ req'[w].says = says
  BY DEF Begin, Goto, TypeOK, On, Idle
<1>4. i = j => \A v \in Workers : ~On(v, j)
  BY DEF Begin, On
<1>5. On(w, j)' => StillTrue(w, j)' /\ \A v \in Workers \ {w} : ~On(v, j)
  BY <1>1, <1>3, <1>4 DEF On, StillTrue
<1> QED
  BY <1>1, <1>2, <1>5, AloneFrame

(* A request that ends leaves the others as they were. *)
LEMMA AloneFinish ==
  ASSUME TypeOK, AloneInv, NEW j \in Postings \ raced, NEW w \in Workers, Finish(w),
         \/ On(w, j)
         \/ /\ posting'[j].content = posting[j].content
            /\ posting'[j].screening = posting[j].screening
            /\ posting'[j].status = "filled" => posting[j].status = "filled"
  PROVE  Alone(j)'
<1>1. \A v \in Workers \ {w} : pc'[v] = pc[v] /\ req'[v] = req[v]
  BY DEF Finish, TypeOK
<1>2. ~On(w, j)'
  BY DEF Finish, TypeOK, On
<1> QED
  BY <1>1, <1>2, AloneFrame DEF AloneInv

(* A write by the request on another posting does not reach j. *)
LEMMA WritesOwn ==
  ASSUME TypeOK, NEW j \in Postings, NEW w \in Workers, ~On(w, j),
         \/ EmployerWrite(w) \/ Edit(w) \/ EditActive(w) \/ EditExpired(w)
         \/ SubmitWrite(w) \/ AutoApprove(w)
  PROVE  posting'[j] = posting[j]
<1>1. req[w].posting # j
  BY DEF On, EmployerWrite, Edit, EditActive, EditExpired, SubmitWrite, AutoApprove
<1>2. CASE Edit(w) \/ EditExpired(w)
  <2>1. pc[w] # "idle" /\ Write(w)
    BY <1>2 DEF Edit, EditExpired
  <2> QED
    BY <1>1, <2>1, TypeParts, WriteEffect
<1>3. CASE EditActive(w)
  BY <1>1, <1>3, TypeParts, EditActiveEffect
<1>4. CASE EmployerWrite(w) \/ SubmitWrite(w) \/ AutoApprove(w)
  BY <1>1, <1>4 DEF EmployerWrite, SubmitWrite, AutoApprove, Approval, SetStatus, TypeOK
<1> QED
  BY <1>2, <1>3, <1>4

LEMMA AloneStep == TypeOK /\ TypeOK' /\ AloneInv /\ [Next]_vars => AloneInv'
<1> SUFFICES ASSUME TypeOK, TypeOK', AloneInv, [Next]_vars, NEW j \in Postings \ raced'
             PROVE  Alone(j)'
  BY DEF AloneInv
<1>1. CASE UNCHANGED vars
  BY <1>1 DEF vars, AloneInv, Alone, On, StillTrue
<1>2. ASSUME NEW w \in Workers, NEW i \in Postings,
             \/ \E to \in Status : EmployerRead(w, i, to)
             \/ \E content \in Contents : EditRead(w, i, content)
             \/ SubmitRead(w, i)
      PROVE  Alone(j)'
  <2>1. CASE \E to \in Status : EmployerRead(w, i, to)
    <3>1. PICK label \in {"limit", "write"} : \E to, says : Begin(w, i, label, to, says)
      BY <2>1 DEF EmployerRead
    <3>2. posting[i].status # "filled"
      BY <2>1 DEF EmployerRead, EmployerMay
    <3> QED
      BY <3>1, <3>2, AloneBegin
  <2>2. CASE \E content \in Contents : EditRead(w, i, content)
    <3>1. PICK label \in {"edit", "edit_active", "edit_expired"} :
            \E to, says : Begin(w, i, label, to, says)
      BY <2>2 DEF EditRead
    <3>2. posting[i].status # "filled"
      BY <2>2 DEF EditRead
    <3> QED
      BY <3>1, <3>2, AloneBegin
  <2>3. CASE SubmitRead(w, i)
    <3>1. Begin(w, i, "submit", "pending_review", {posting[i].content})
      BY <2>3 DEF SubmitRead
    <3>2. posting[i].status # "filled"
      BY <2>3 DEF SubmitRead, Submittable
    <3> QED
      BY <3>1, <3>2, AloneBegin
  <2> QED
    BY <1>2, <2>1, <2>2, <2>3
<1> SUFFICES ASSUME raced' = raced
             PROVE  Alone(j)'
  BY <1>1, <1>2, NextCases
     DEF ChangesRead, LimitCheck, EmployerWrite, Edit, EditActive, EditExpired, RenewRead,
         SubmitWrite, SubmitRefused, FastLane, AutoApprove, RequestChanges, Fail,
         Approve, Reject, Expire, history
<1> j \in Postings \ raced /\ Alone(j)
  BY DEF AloneInv
<1>3. ASSUME NEW w \in Workers, NEW i \in Postings, ChangesRead(w, i) PROVE Alone(j)'
  <2>1. \A v \in Workers \ {w} : pc'[v] = pc[v] /\ req'[v] = req[v]
    BY <1>3 DEF ChangesRead, Goto, TypeOK
  <2>2. ~On(w, j)' /\ UNCHANGED posting
    BY <1>3 DEF ChangesRead, Goto, TypeOK, On
  <2> QED
    BY <2>1, <2>2, AloneFrame
<1>4. ASSUME NEW w \in Workers, NEW label \in Labels \ {"idle", "changes"}, Goto(w, label),
             pc[w] \notin {"idle", "changes"},
             \A v \in Workers : v # w => req'[v] = req[v],
             req'[w].posting = req[w].posting,
             \/ UNCHANGED posting
             \/ EditExpired(w) \/ SubmitWrite(w),
             On(w, j)' => StillTrue(w, j)'
      PROVE  Alone(j)'
  <2>1. \A v \in Workers \ {w} : pc'[v] = pc[v] /\ req'[v] = req[v]
    BY <1>4 DEF Goto, TypeOK
  <2>2. On(w, j)' => On(w, j)
    BY <1>4 DEF On
  <2>3. On(w, j) \/ posting'[j] = posting[j]
    BY <1>4, WritesOwn
  <2> QED
    BY <1>4, <2>1, <2>2, <2>3, AloneOthers, AloneFrame
<1>5. ASSUME NEW w \in Workers, LimitCheck(w) PROVE Alone(j)'
  <2>1. CASE Finish(w)
    BY <1>5, <2>1, AloneFinish DEF LimitCheck
  <2>2. CASE Goto(w, "write") /\ UNCHANGED req
    <3>1. On(w, j)' => StillTrue(w, j)'
      BY <1>5, <2>2 DEF LimitCheck, Goto, TypeOK, On, Alone, StillTrue
    <3> QED
      BY <1>4, <1>5, <2>2, <3>1 DEF LimitCheck, Labels
  <2> QED
    BY <1>5, <2>1, <2>2 DEF LimitCheck
<1>6. ASSUME NEW w \in Workers, RenewRead(w) PROVE Alone(j)'
  <2>1. CASE Finish(w)
    BY <1>6, <2>1, AloneFinish DEF RenewRead
  <2>2. CASE Goto(w, "write") /\ req' = [req EXCEPT ![w].to = "pending_review"]
    <3>1. /\ \A v \in Workers : v # w => req'[v] = req[v]
          /\ req'[w].posting = req[w].posting
      BY <2>2 DEF TypeOK, Request
    <3>2. On(w, j)' => StillTrue(w, j)'
      BY <1>6, <2>2, <3>1 DEF RenewRead, Goto, TypeOK, On, Alone, StillTrue
    <3> QED
      BY <1>4, <1>6, <2>2, <3>1, <3>2 DEF RenewRead, Labels
  <2> QED
    BY <1>6, <2>1, <2>2 DEF RenewRead
<1>7. ASSUME NEW w \in Workers, EditExpired(w) PROVE Alone(j)'
  <2>1. pc[w] # "idle" /\ Write(w) /\ Goto(w, "renew") /\ UNCHANGED req
    BY <1>7 DEF EditExpired
  <2>2. posting'[j].status = posting[j].status
    BY <2>1, TypeParts, WriteEffect
  <2>3. On(w, j)' => StillTrue(w, j)'
    BY <1>7, <2>1, <2>2 DEF EditExpired, Goto, TypeOK, On, Alone, StillTrue
  <2> QED
    BY <1>4, <1>7, <2>1, <2>3 DEF EditExpired, Labels
<1>8. ASSUME NEW w \in Workers, SubmitWrite(w) PROVE Alone(j)'
  <2>1. On(w, j)' => StillTrue(w, j)'
    <3> SUFFICES ASSUME On(w, j)' PROVE StillTrue(w, j)'
      OBVIOUS
    <3>1. req[w].posting = j /\ On(w, j)
      BY <1>8 DEF SubmitWrite, On
    <3>2. req[w].says = {posting[j].content}
      BY <1>8, <3>1 DEF SubmitWrite, Alone, StillTrue
    <3>3. /\ posting'[j].status = "pending_review"
          /\ posting'[j].screening = Verdict(w)
          /\ posting'[j].content = posting[j].content
      BY <1>8, <3>1 DEF SubmitWrite, TypeOK, Row
    <3>4. Verdict(w) = "pass" => posting[j].content \in Passing
      BY <3>2 DEF Verdict
    <3>5. pc'[w] = "fast_lane"
      BY <1>8 DEF SubmitWrite, Goto, TypeOK
    <3> QED
      BY <3>3, <3>4, <3>5 DEF StillTrue
  <2> QED
    BY <1>4, <1>8, <2>1 DEF SubmitWrite, Labels
<1>9. ASSUME NEW w \in Workers, FastLane(w) PROVE Alone(j)'
  <2>1. CASE Finish(w)
    BY <1>9, <2>1, AloneFinish DEF FastLane
  <2>2. CASE Screened(req[w].posting) /\ Goto(w, "auto_approve") /\ UNCHANGED req
    <3>1. On(w, j)' => StillTrue(w, j)'
      BY <1>9, <2>2 DEF FastLane, Screened, Goto, TypeOK, On, Alone, StillTrue
    <3> QED
      BY <1>4, <1>9, <2>2, <3>1 DEF FastLane, Labels
  <2> QED
    BY <1>9, <2>1, <2>2 DEF FastLane
<1>10. ASSUME NEW w \in Workers,
              EmployerWrite(w) \/ Edit(w) \/ EditActive(w) \/ AutoApprove(w)
       PROVE  Alone(j)'
  <2>1. Finish(w) /\ (On(w, j) \/ posting'[j] = posting[j])
    BY <1>10, WritesOwn DEF EmployerWrite, Edit, EditActive, AutoApprove
  <2> QED
    BY <2>1, AloneFinish
<1>11. ASSUME NEW w \in Workers, RequestChanges(w) PROVE Alone(j)'
  <2>1. /\ Finish(w)
        /\ posting'[j].content = posting[j].content
        /\ posting'[j].screening = posting[j].screening
        /\ posting'[j].status = "filled" => posting[j].status = "filled"
    BY <1>11 DEF RequestChanges, TypeOK, Row
  <2> QED
    BY <2>1, AloneFinish
<1>12. ASSUME NEW w \in Workers, SubmitRefused(w) \/ Fail(w) PROVE Alone(j)'
  BY <1>12, AloneFinish DEF SubmitRefused, Fail
<1>13. ASSUME NEW i \in Postings, Approve(i) \/ Reject(i) \/ Expire(i) PROVE Alone(j)'
  <2>1. /\ posting'[j].content = posting[j].content
        /\ posting'[j].screening = posting[j].screening
        /\ posting'[j].status = "filled" => posting[j].status = "filled"
        /\ UNCHANGED <<pc, req>>
    BY <1>13 DEF Approve, Approval, Reject, Expire, SetStatus, TypeOK, Row
  <2> QED
    BY <2>1 DEF Alone, On, StillTrue
<1> QED
  BY <1>1, <1>2, <1>3, <1>5, <1>6, <1>7, <1>8, <1>9, <1>10, <1>11, <1>12, <1>13, NextCases

LEMMA AloneHeld == Spec => [](TypeOK /\ AloneInv)
  BY TypeInit, TypeStep, AloneInit, AloneStep, PTL DEF Spec

(* A closed posting is not reopened by any request that has the posting to *)
(* itself: only writes by id that overlapped another request can do it.    *)
THEOREM FilledIsFinal == Spec => FilledFinalUnlessRaced
<1>1. ASSUME TypeOK, AloneInv, [Next]_vars, NEW j \in Postings \ raced,
             posting[j].status = "filled"
      PROVE  posting'[j].status = "filled"
  <2>1. \A w \in Workers : ~On(w, j)
    BY <1>1 DEF AloneInv, Alone, StillTrue
  <2>2. ASSUME NEW w \in Workers,
               \/ EmployerWrite(w) \/ Edit(w) \/ EditActive(w) \/ EditExpired(w)
               \/ SubmitWrite(w) \/ AutoApprove(w)
        PROVE  posting'[j] = posting[j]
    BY <1>1, <2>1, <2>2, WritesOwn
  <2>3. ASSUME NEW w \in Workers, RequestChanges(w) PROVE posting'[j].status = "filled"
    BY <1>1, <2>3 DEF RequestChanges, AwaitsDecision, TypeOK, Row
  <2>4. ASSUME NEW i \in Postings, Approve(i) \/ Reject(i) \/ Expire(i)
        PROVE  posting'[j].status = "filled"
    BY <1>1, <2>4 DEF Approve, Approval, Reject, Expire, AwaitsDecision, SetStatus, TypeOK, Row
  <2>5. ASSUME NEW w \in Workers,
               \/ \E i \in Postings :
                    \/ \E to \in Status : EmployerRead(w, i, to)
                    \/ \E content \in Contents : EditRead(w, i, content)
                    \/ SubmitRead(w, i) \/ ChangesRead(w, i)
               \/ LimitCheck(w) \/ RenewRead(w) \/ SubmitRefused(w) \/ FastLane(w) \/ Fail(w)
        PROVE  UNCHANGED posting
    BY <2>5 DEF EmployerRead, EditRead, SubmitRead, ChangesRead, Begin, LimitCheck,
                RenewRead, SubmitRefused, FastLane, Fail
  <2> QED
    BY <1>1, <2>2, <2>3, <2>4, <2>5, NextCases DEF vars
<1>2. TypeOK /\ AloneInv /\ [Next]_vars
        => [\A j \in Postings :
              posting[j].status = "filled" /\ j \notin raced => posting'[j].status = "filled"]_vars
  BY <1>1
<1> QED
  BY <1>2, AloneHeld, PTL DEF FilledFinalUnlessRaced, Spec

(* What the fast lane publishes without an admin has passed the screening, *)
(* unless another employer request overlapped the submission.              *)
THEOREM FastLaneScreened == Spec => []AutoApprovedPassesUnlessRaced
<1>1. Init => AutoApprovedPassesUnlessRaced
  BY DEF Init, AutoApprovedPassesUnlessRaced
<1>2. TypeOK /\ AloneInv /\ AutoApprovedPassesUnlessRaced /\ [Next]_vars
        => AutoApprovedPassesUnlessRaced'
  <2> SUFFICES ASSUME TypeOK, AloneInv, AutoApprovedPassesUnlessRaced, [Next]_vars,
                      NEW p \in automatic'
               PROVE  p.content \in Passing \/ p.posting \in raced'
    BY DEF AutoApprovedPassesUnlessRaced
  <2>1. raced \subseteq raced'
    BY NextCases
       DEF vars, EmployerRead, EditRead, SubmitRead, Begin, ChangesRead, LimitCheck,
           EmployerWrite, Edit, EditActive, EditExpired, RenewRead, SubmitWrite,
           SubmitRefused, FastLane, AutoApprove, RequestChanges, Fail, Approve, Reject,
           Expire, history
  <2>2. CASE p \in automatic
    BY <2>1, <2>2 DEF AutoApprovedPassesUnlessRaced
  <2>3. CASE p \notin automatic
    <3>1. PICK w \in Workers : AutoApprove(w)
      BY <2>3, NextCases
         DEF vars, EmployerRead, EditRead, SubmitRead, Begin, ChangesRead, LimitCheck,
             EmployerWrite, Edit, EditActive, EditExpired, RenewRead, SubmitWrite,
             SubmitRefused, FastLane, RequestChanges, Fail, Approve, Reject, Expire, history
    <3>2. req[w].posting \in Postings /\ On(w, req[w].posting)
      BY <3>1 DEF AutoApprove, On, TypeOK
    <3>3. p = [posting |-> req[w].posting, content |-> posting[req[w].posting].content]
      BY <2>3, <3>1 DEF AutoApprove
    <3>4. req[w].posting \notin raced => posting[req[w].posting].content \in Passing
      BY <3>1, <3>2 DEF AloneInv, Alone, StillTrue, AutoApprove
    <3> QED
      BY <2>1, <3>3, <3>4
  <2> QED
    BY <2>2, <2>3
<1> QED
  BY <1>1, <1>2, AloneHeld, PTL DEF Spec

-------------------------------------------------------------------------------
(* The refinement of ReviewGate.  What an employer's request is about to    *)
(* write never makes a posting private: only a decision does.               *)
WriteFits == \A w \in Workers : pc[w] \in {"limit", "write"} => req[w].to \notin {"draft", "rejected"}

LEMMA WriteFitsInit == Init => WriteFits
  BY DEF Init, WriteFits

LEMMA WriteFitsStep == TypeOK /\ WriteFits /\ [Next]_vars => WriteFits'
<1> SUFFICES ASSUME TypeOK, WriteFits, [Next]_vars PROVE WriteFits'
  OBVIOUS
<1> USE DEF WriteFits
<1>1. CASE UNCHANGED <<pc, req>>
  BY <1>1
<1>2. ASSUME NEW w \in Workers, NEW j \in Postings, NEW to \in Status, EmployerRead(w, j, to)
      PROVE  WriteFits'
  BY <1>2 DEF EmployerRead, EmployerMay, Begin, Goto, TypeOK
<1>3. ASSUME NEW w \in Workers, NEW j \in Postings, NEW content \in Contents,
             EditRead(w, j, content)
      PROVE  WriteFits'
  BY <1>3 DEF EditRead, Begin, Goto, TypeOK
<1>4. ASSUME NEW w \in Workers, NEW j \in Postings, SubmitRead(w, j) \/ ChangesRead(w, j)
      PROVE  WriteFits'
  BY <1>4 DEF SubmitRead, ChangesRead, Begin, Goto, TypeOK
<1>5. ASSUME NEW w \in Workers, LimitCheck(w) \/ FastLane(w) PROVE WriteFits'
  BY <1>5 DEF LimitCheck, FastLane, Goto, Finish, TypeOK
<1>6. ASSUME NEW w \in Workers, RenewRead(w) PROVE WriteFits'
  BY <1>6 DEF RenewRead, Goto, Finish, TypeOK, Request
<1>7. ASSUME NEW w \in Workers, EditExpired(w) \/ SubmitWrite(w) PROVE WriteFits'
  BY <1>7 DEF EditExpired, SubmitWrite, Goto, TypeOK
<1>8. ASSUME NEW w \in Workers, Finish(w) PROVE WriteFits'
  BY <1>8 DEF Finish, TypeOK
<1> HIDE DEF WriteFits
<1> QED
  BY <1>1, <1>2, <1>3, <1>4, <1>5, <1>6, <1>7, <1>8, NextCases
     DEF EmployerWrite, Edit, EditActive, SubmitRefused, AutoApprove, RequestChanges, Fail,
         Approve, Reject, Expire, vars

LEMMA StageWrite ==
  ASSUME NEW j \in Postings, NEW where, Stage(j)' = where,
         \A t \in Postings \ {j} : posting'[t].status = posting[t].status
  PROVE  Gate!PutIn(j, where)
  BY DEF Gate!PutIn, Stage

LEMMA StageKept ==
  ASSUME UNCHANGED approved, \A t \in Postings : posting'[t].status = posting[t].status
  PROVE  UNCHANGED Gate!vars
  BY DEF Gate!vars, Stage

(* The stage that a status stands for. *)
LEMMA StageFacts ==
  ASSUME NEW j \in Postings
  PROVE  /\ posting[j].status = "pending_review" <=> Stage(j) = "queued"
         /\ posting[j].status \in {"draft", "rejected"} => Stage(j) = "private"
         /\ posting[j].status \in {"active", "paused", "expired", "filled"} => Stage(j) = "public"
  BY DEF Stage

(* One write of a status, and where it puts the posting. *)
LEMMA StatusStage ==
  ASSUME TablesOK, NEW j \in Postings, NEW s \in Status, SetStatus(j, s)
  PROVE  /\ s = "pending_review" => Gate!PutIn(j, "queued")
         /\ s \in {"draft", "rejected"} => Gate!PutIn(j, "private")
         /\ s \in {"active", "paused", "expired", "filled"} => Gate!PutIn(j, "public")
<1>1. posting'[j].status = s /\ \A t \in Postings \ {j} : posting'[t].status = posting[t].status
  BY DEF SetStatus, TablesOK, Row
<1> QED
  BY <1>1, StageWrite DEF Stage

(* Whatever requests overlap, a posting comes out of the queue by one      *)
(* decision, is public only if it was cleared, and nothing but a decision  *)
(* makes it private: the postings implement ReviewGate.                    *)
THEOREM GateRefinement == Spec => ImplementsReviewGate
<1>1. Init => Gate!Init
  BY DEF Init, Gate!Init, Stage
<1>2. ASSUME TypeOK, TablesOK, RequestsOK, ApprovalInv, WriteFits, [Next]_vars
      PROVE  [Gate!Next]_(Gate!vars)
  <2>1. ASSUME NEW w \in Workers, EmployerWrite(w) PROVE Gate!Next
    <3> DEFINE j == req[w].posting
    <3>1. /\ j \in Postings /\ j \in approved /\ UNCHANGED approved
          /\ SetStatus(j, req[w].to)
          /\ req[w].to \in {"pending_review", "active", "paused", "expired", "filled"}
      BY <1>2, <2>1 DEF EmployerWrite, ApprovalInv, WriteFits, RequestsOK, Request, Status
    <3> HIDE DEF j
    <3>2. CASE req[w].to = "pending_review"
      BY <1>2, <3>1, <3>2, StatusStage DEF Gate!Next, Gate!Enter, Status
    <3>3. CASE req[w].to # "pending_review"
      BY <1>2, <3>1, <3>3, StatusStage DEF Gate!Next, Gate!Return, Status
    <3> QED
      BY <3>2, <3>3
  <2>2. ASSUME NEW w \in Workers, Edit(w) \/ EditExpired(w) PROVE UNCHANGED Gate!vars
    <3>1. pc[w] # "idle" /\ Write(w) /\ UNCHANGED approved
      BY <2>2 DEF Edit, EditExpired
    <3> QED
      BY <1>2, <3>1, WriteEffect, StageKept
  <2>3. ASSUME NEW w \in Workers, EditActive(w) PROVE Gate!Next \/ UNCHANGED Gate!vars
    <3> DEFINE j == req[w].posting
    <3>1. j \in Postings /\ UNCHANGED approved
      BY <1>2, <2>3 DEF EditActive, RequestsOK
    <3>2. \A t \in Postings : \/ posting'[t] = posting[t]
                              \/ t = j /\ posting'[t].status = "pending_review"
      BY <1>2, <2>3, EditActiveEffect
    <3> HIDE DEF j
    <3>3. CASE posting'[j].status = "pending_review"
      <4>1. Gate!PutIn(j, "queued")
        BY <3>1, <3>2, <3>3, StageWrite DEF Stage
      <4> QED
        BY <3>1, <4>1 DEF Gate!Next, Gate!Enter
    <3>4. CASE posting'[j].status # "pending_review"
      BY <3>1, <3>2, <3>4, StageKept
    <3> QED
      BY <3>3, <3>4
  <2>4. ASSUME NEW w \in Workers, SubmitWrite(w) PROVE Gate!Next
    <3> DEFINE j == req[w].posting
    <3>1. /\ j \in Postings /\ UNCHANGED approved
          /\ posting'[j].status = "pending_review"
          /\ \A t \in Postings \ {j} : posting'[t].status = posting[t].status
      BY <1>2, <2>4 DEF SubmitWrite, RequestsOK, TablesOK, Row
    <3> HIDE DEF j
    <3>2. Gate!PutIn(j, "queued")
      BY <3>1, StageWrite DEF Stage
    <3> QED
      BY <3>1, <3>2 DEF Gate!Next, Gate!Enter
  <2>5. ASSUME NEW j \in Postings, Approval(j) PROVE Gate!Next
    <3>1. [t \in Postings |-> Stage(t)][j] = "queued" /\ Gate!PutIn(j, "public")
      BY <1>2, <2>5, StageFacts, StatusStage DEF Approval, AwaitsDecision, Status
    <3> QED
      BY <2>5, <3>1 DEF Gate!Next, Gate!Release, Approval
  <2>6. ASSUME NEW j \in Postings, AwaitsDecision(j), Gate!PutIn(j, "private"), UNCHANGED approved
        PROVE  Gate!Next
    <3>1. [t \in Postings |-> Stage(t)][j] = "queued"
      BY <2>6, StageFacts DEF AwaitsDecision
    <3> QED
      BY <2>6, <3>1 DEF Gate!Next, Gate!Refuse
  <2>7. ASSUME NEW w \in Workers, AutoApprove(w) PROVE Gate!Next \/ UNCHANGED Gate!vars
    <3>1. req[w].posting \in Postings
      BY <1>2, <2>7 DEF AutoApprove, RequestsOK
    <3>2. Approval(req[w].posting) \/ UNCHANGED <<posting, approved>>
      BY <2>7 DEF AutoApprove
    <3> QED
      BY <2>5, <3>1, <3>2, StageKept
  <2>8. ASSUME NEW w \in Workers, RequestChanges(w) PROVE Gate!Next \/ UNCHANGED Gate!vars
    <3> DEFINE j == req[w].posting
    <3>1. j \in Postings /\ UNCHANGED approved
      BY <1>2, <2>8 DEF RequestChanges, RequestsOK
    <3>2. CASE AwaitsDecision(j)
      <4>1. /\ posting'[j].status = "draft"
            /\ \A t \in Postings \ {j} : posting'[t].status = posting[t].status
        BY <1>2, <2>8, <3>1, <3>2 DEF RequestChanges, TablesOK, Row
      <4>2. Gate!PutIn(j, "private")
        BY <3>1, <4>1, StageWrite DEF Stage
      <4> QED
        BY <2>6, <3>1, <3>2, <4>2
    <3>3. CASE ~AwaitsDecision(j)
      BY <2>8, <3>1, <3>3, StageKept DEF RequestChanges
    <3> QED
      BY <3>2, <3>3
  <2>9. ASSUME NEW j \in Postings, Reject(j) PROVE Gate!Next
    <3>1. Gate!PutIn(j, "private")
      BY <1>2, <2>9, StatusStage DEF Reject, Status
    <3> QED
      BY <2>6, <2>9, <3>1 DEF Reject
  <2>10. ASSUME NEW j \in Postings, Expire(j) PROVE Gate!Next
    <3>1. j \in approved
      BY <1>2, <2>10 DEF Expire, ApprovalInv, LiveWasApproved
    <3>2. Gate!PutIn(j, "public")
      BY <1>2, <2>10, StatusStage DEF Expire, Status
    <3> QED
      BY <2>10, <3>1, <3>2 DEF Gate!Next, Gate!Return, Expire
  <2>11. UNCHANGED <<posting, approved>> => UNCHANGED Gate!vars
    BY StageKept
  <2>12. ASSUME NEW w \in Workers,
                \/ \E j \in Postings :
                     \/ \E to \in Status : EmployerRead(w, j, to)
                     \/ \E content \in Contents : EditRead(w, j, content)
                     \/ SubmitRead(w, j) \/ ChangesRead(w, j)
                \/ LimitCheck(w) \/ RenewRead(w) \/ SubmitRefused(w) \/ FastLane(w) \/ Fail(w)
         PROVE  UNCHANGED <<posting, approved>>
    BY <2>12 DEF EmployerRead, EditRead, SubmitRead, ChangesRead, Begin, LimitCheck,
                 RenewRead, SubmitRefused, FastLane, Fail
  <2> QED
    BY <1>2, <2>1, <2>2, <2>3, <2>4, <2>5, <2>7, <2>8, <2>9, <2>10, <2>11, <2>12, NextCases
       DEF Approve, vars
<1>3. TypeOK /\ ApprovalInv /\ WriteFits /\ [Next]_vars => [Gate!Next]_(Gate!vars)
  BY <1>2, TypeParts
<1> QED
  BY <1>1, <1>3, TypeInit, TypeStep, ApprovalInit, ApprovalStep, WriteFitsInit, WriteFitsStep, PTL
     DEF Spec, ImplementsReviewGate, Gate!Spec
===============================================================================
