-------------------------------- MODULE Groups --------------------------------
(***************************************************************************)
(* One community group: its members and their roles, the cached            *)
(* member_count and the hand-over of ownership.  What follows a change of  *)
(* membership in the group's channels is in GroupChannels.                 *)
(*                                                                         *)
(* A request runs in a worker and is cut at its statements: the checks it  *)
(* makes first, the SELECT inside a transaction, and the writes that       *)
(* commit.  READ COMMITTED lets any other request commit in between.  Which*)
(* active member joined first (the order heirs are picked in) and the      *)
(* per-user limit of groups are abstracted: any of the candidates, and any *)
(* request may be refused, which changes nothing.                          *)
(***************************************************************************)
EXTENDS Naturals, FiniteSets

CONSTANTS
  Users,        \* accounts
  Creator,      \* who created the group
  Workers,      \* requests in progress at one time
  Nobody,       \* no user
  MemberLimit   \* member_limit of the group

ASSUME GroupConstants ==
  /\ IsFiniteSet(Users)
  /\ Creator \in Users
  /\ Nobody \notin Users
  /\ MemberLimit \in Nat

VARIABLES
  row,        \* community_group_members: status ("none": no row) and role by user
  group,      \* the row of community_groups
  pc,         \* where each worker's request stands
  req,        \* what each worker's request has read
  drift,      \* history: a status was written over one that was not the one read
  contested   \* history: a hand-over was interrupted or met another change

data == <<row, group>>
history == <<drift, contested>>
vars == <<data, pc, req, history>>

Status == {"none", "pending", "active", "banned"}
Role == {"member", "leader", "creator"}
NoRow == [status |-> "none", role |-> "member"]
NoRequest == [user |-> Nobody, heir |-> Nobody, seen |-> "none"]

Active == {u \in Users : row[u].status = "active"}
Creators == {u \in Users : row[u].role = "creator"}
HasRoom == group.count < MemberLimit
Exists(u) == row[u].status # "none"

(* What a handler asks of its caller: the role alone, whatever the status. *)
SomeManager == \E u \in Users : Exists(u) /\ row[u].role \in {"creator", "leader"}

Idle(w) == pc[w] = "idle" /\ req[w] = NoRequest
Start(w, label, r) == pc' = [pc EXCEPT ![w] = label] /\ req' = [req EXCEPT ![w] = r]
Goto(w, label) == pc' = [pc EXCEPT ![w] = label] /\ UNCHANGED req
Finish(w) == Start(w, "idle", NoRequest)
For(u) == [NoRequest EXCEPT !.user = u]
Transferring(w) == pc[w] \in {"transfer_find", "promote", "demote"}

(* Operators named Buggy... are wrong variants of the definition they precede. *)
(* No action uses them: they show which mistakes the properties catch.         *)

-------------------------------------------------------------------------------
(* createGroup has committed: its creator is the first member. *)
Init ==
  /\ row = [u \in Users |-> IF u = Creator THEN [status |-> "active", role |-> "creator"]
                                           ELSE NoRow]
  /\ \E joinType \in {"open", "approval"} :
       group = [count |-> 1, joinType |-> joinType, archived |-> FALSE]
  /\ pc = [w \in Workers |-> "idle"]
  /\ req = [w \in Workers |-> NoRequest]
  /\ drift = FALSE
  /\ contested = FALSE

(* joinOpenGroup: its reads and refusals.  A pending row does not stop it. *)
JoinCheck(w, u) ==
  /\ Idle(w)
  /\ ~group.archived
  /\ group.joinType = "open"
  /\ row[u].status \notin {"active", "banned"}
  /\ HasRoom
  /\ Start(w, "join_insert", For(u))
  /\ UNCHANGED <<data, history>>

(* insertGroupMember: one transaction, and an existing row is left alone. *)
InsertMember(u, status) ==
  IF Exists(u) THEN UNCHANGED <<row, group>>
  ELSE /\ row' = [row EXCEPT ![u] = [status |-> status, role |-> "member"]]
       /\ group' = [group EXCEPT !.count = IF status = "active" THEN @ + 1 ELSE @]

JoinInsert(w) ==
  /\ pc[w] = "join_insert"
  /\ InsertMember(req[w].user, "active")
  /\ Finish(w)
  /\ UNCHANGED history

(* requestToJoinGroup. *)
RequestCheck(w, u) ==
  /\ Idle(w)
  /\ ~group.archived
  /\ group.joinType = "approval"
  /\ ~Exists(u)
  /\ HasRoom
  /\ Start(w, "request_insert", For(u))
  /\ UNCHANGED <<data, history>>

RequestInsert(w) ==
  /\ pc[w] = "request_insert"
  /\ InsertMember(req[w].user, "pending")
  /\ Finish(w)
  /\ UNCHANGED history

(* The checks of approveJoinRequest, rejectJoinRequest, unbanGroupMember,  *)
(* banGroupMember and leaveGroup.  Neither they nor what follows ask       *)
(* whether the group is archived, and approving does not ask for room.     *)
ApproveCheck(w, u) ==
  /\ Idle(w)
  /\ SomeManager
  /\ row[u].status = "pending"
  /\ Start(w, "approve_read", For(u))
  /\ UNCHANGED <<data, history>>

RejectCheck(w, u) ==
  /\ Idle(w)
  /\ SomeManager
  /\ row[u].status = "pending"
  /\ Start(w, "remove_read", For(u))
  /\ UNCHANGED <<data, history>>

UnbanCheck(w, u) ==
  /\ Idle(w)
  /\ SomeManager
  /\ row[u].status = "banned"
  /\ Start(w, "remove_read", For(u))
  /\ UNCHANGED <<data, history>>

BanCheck(w, u) ==
  /\ Idle(w)
  /\ SomeManager
  /\ row[u].status = "active"
  /\ row[u].role # "creator"
  /\ Start(w, "ban_read", For(u))
  /\ UNCHANGED <<data, history>>

LeaveCheck(w, u) ==
  /\ Idle(w)
  /\ Exists(u)
  /\ row[u].role # "creator"
  /\ Start(w, "remove_read", For(u))
  /\ UNCHANGED <<data, history>>

(* The SELECT inside updateGroupMemberStatus and removeGroupMember: no     *)
(* lock is taken.  Without a row they return.                              *)
AfterRead ==
  [approve_read |-> "approve_write", ban_read |-> "ban_write", remove_read |-> "remove_write"]

StatusRead(w) ==
  LET seen == row[req[w].user].status IN
  /\ pc[w] \in DOMAIN AfterRead
  /\ seen # "none"
  /\ Start(w, AfterRead[pc[w]], [req[w] EXCEPT !.seen = seen])
  /\ UNCHANGED <<data, history>>

StatusReadNothing(w) ==
  /\ pc[w] \in DOMAIN AfterRead
  /\ ~Exists(req[w].user)
  /\ Finish(w)
  /\ UNCHANGED <<data, history>>

BuggyCountedNoDecrement(seen, status) ==
  IF seen # "active" /\ status = "active" THEN group.count + 1 ELSE group.count

BuggyCountedNoFloor(seen, status) ==
  IF seen # "active" /\ status = "active" THEN group.count + 1
  ELSE IF seen = "active" /\ status # "active" THEN group.count - 1
  ELSE group.count

(* member_count after a change from the status that was read. *)
Counted(seen, status) ==
  IF seen # "active" /\ status = "active" THEN group.count + 1
  ELSE IF seen = "active" /\ status # "active" /\ group.count > 0 THEN group.count - 1
  ELSE group.count

(* The UPDATE or DELETE, which may match no row any more, the counter and  *)
(* COMMIT.                                                                 *)
WriteStatus(w, status) ==
  LET u == req[w].user IN
  /\ row' = IF ~Exists(u) THEN row
            ELSE IF status = "none" THEN [row EXCEPT ![u] = NoRow]
            ELSE [row EXCEPT ![u].status = status]
  /\ group' = [group EXCEPT !.count = Counted(req[w].seen, status)]
  /\ drift' = (drift \/ row[u].status # req[w].seen)
  /\ contested' = (contested \/ (row[u].role = "creator" /\ status # "active"))

ApproveWrite(w) ==
  /\ pc[w] = "approve_write"
  /\ WriteStatus(w, "active")
  /\ Finish(w)

BanWrite(w) ==
  /\ pc[w] = "ban_write"
  /\ WriteStatus(w, "banned")
  /\ Finish(w)

RemoveWrite(w) ==
  /\ pc[w] = "remove_write"
  /\ WriteStatus(w, "none")
  /\ Finish(w)

-------------------------------------------------------------------------------
(* assignGroupLeader: the checks, then the role written by user id. *)
AssignCheck(w, u) ==
  /\ Idle(w)
  /\ ~group.archived
  /\ Creators # {}
  /\ row[u] = [status |-> "active", role |-> "member"]
  /\ Start(w, "assign_write", For(u))
  /\ UNCHANGED <<data, history>>

(* updateGroupMemberRole: nothing when the row is gone. *)
SetRole(u, role) == IF Exists(u) THEN [row EXCEPT ![u].role = role] ELSE row

AssignWrite(w) ==
  /\ pc[w] = "assign_write"
  /\ row' = SetRole(req[w].user, "leader")
  /\ contested' = (contested \/ row[req[w].user].role = "creator")
  /\ Finish(w)
  /\ UNCHANGED <<group, drift>>

(* account.status_changed: a suspended or deleted creator's groups are     *)
(* looked up and each is handed over.                                      *)
TransferStart(w, u) ==
  /\ Idle(w)
  /\ row[u] = [status |-> "active", role |-> "creator"]
  /\ ~group.archived
  /\ contested' = (contested \/ \E v \in Workers : Transferring(v))
  /\ Start(w, "transfer_find", For(u))
  /\ UNCHANGED <<data, drift>>

(* An active leader other than the previous owner, else an active member   *)
(* of any role, else the group is archived.                                *)
Leaders(previous) == {u \in Active \ {previous} : row[u].role = "leader"}
Heirs(previous) ==
  IF Leaders(previous) # {} THEN Leaders(previous) ELSE Active \ {previous}

TransferFind(w) ==
  /\ pc[w] = "transfer_find"
  /\ \E heir \in Heirs(req[w].user) : Start(w, "promote", [req[w] EXCEPT !.heir = heir])
  /\ UNCHANGED <<data, history>>

TransferToNobody(w) ==
  /\ pc[w] = "transfer_find"
  /\ Heirs(req[w].user) = {}
  /\ Goto(w, "archive")
  /\ UNCHANGED <<data, history>>

(* Two UPDATEs, each its own transaction. *)
Promote(w) ==
  /\ pc[w] = "promote"
  /\ row' = SetRole(req[w].heir, "creator")
  /\ contested' = (contested \/ req[w].heir \notin Active)
  /\ Goto(w, "demote")
  /\ UNCHANGED <<group, drift>>

BuggyDemoteForgotten(w) ==
  /\ pc[w] = "demote"
  /\ Finish(w)
  /\ UNCHANGED <<data, history>>

Demote(w) ==
  /\ pc[w] = "demote"
  /\ row' = SetRole(req[w].user, "member")
  /\ Finish(w)
  /\ UNCHANGED <<group, history>>

(* updateGroupSettings: a manager changes how the group is joined. *)
UpdateSettings(joinType) ==
  /\ ~group.archived
  /\ SomeManager
  /\ group' = [group EXCEPT !.joinType = joinType]
  /\ UNCHANGED <<row, pc, req, history>>

-------------------------------------------------------------------------------
(* archiveGroup: by its creator or an administrator, or for a group that   *)
(* nobody can take over.                                                   *)
ArchiveCheck(w) ==
  /\ Idle(w)
  /\ ~group.archived
  /\ Start(w, "archive", NoRequest)
  /\ UNCHANGED <<data, history>>

Archive(w) ==
  /\ pc[w] = "archive"
  /\ group' = [group EXCEPT !.archived = TRUE]
  /\ Finish(w)
  /\ UNCHANGED <<row, history>>

(* The process stops between two statements of a request. *)
Crash(w) ==
  /\ pc[w] # "idle"
  /\ Finish(w)
  /\ contested' = (contested \/ Transferring(w))
  /\ UNCHANGED <<data, drift>>

Request(w) ==
  \/ \E u \in Users :
       \/ JoinCheck(w, u) \/ RequestCheck(w, u) \/ ApproveCheck(w, u) \/ RejectCheck(w, u)
       \/ UnbanCheck(w, u) \/ BanCheck(w, u) \/ LeaveCheck(w, u) \/ AssignCheck(w, u)
       \/ TransferStart(w, u)
  \/ ArchiveCheck(w)

Continue(w) ==
  \/ JoinInsert(w) \/ RequestInsert(w)
  \/ StatusRead(w) \/ StatusReadNothing(w)
  \/ ApproveWrite(w) \/ BanWrite(w) \/ RemoveWrite(w) \/ AssignWrite(w)
  \/ TransferFind(w) \/ TransferToNobody(w) \/ Promote(w) \/ Demote(w)
  \/ Archive(w)

Next ==
  \/ \E w \in Workers : Request(w) \/ Continue(w) \/ Crash(w)
  \/ \E joinType \in {"open", "approval"} : UpdateSettings(joinType)

Spec == Init /\ [][Next]_vars

-------------------------------------------------------------------------------
Labels == {"idle", "join_insert", "request_insert", "approve_read", "ban_read",
           "remove_read", "approve_write", "ban_write", "remove_write", "assign_write",
           "transfer_find", "promote", "demote", "archive"}

(* Every variable holds a value of its column's or local's type. *)
TypeOK ==
  /\ row \in [Users -> [status : Status, role : Role]]
  /\ group \in [count : Nat, joinType : {"open", "approval"}, archived : BOOLEAN]
  /\ pc \in [Workers -> Labels]
  /\ req \in [Workers -> [user : Users \cup {Nobody}, heir : Users \cup {Nobody},
                          seen : Status]]
  /\ drift \in BOOLEAN
  /\ contested \in BOOLEAN

(* member_count, which the directory shows and the member limit is checked *)
(* against, is the number of active members, unless a status was written   *)
(* over one that had changed since its transaction read it.                *)
CountMatchesUnlessRaced == drift \/ group.count = Cardinality(Active)

(* A group has one creator, who is an active member, save the moment       *)
(* between the two updates of a hand-over, when there are two: banning,    *)
(* leaving and removal never reach the creator, and nobody is promoted who *)
(* has left, unless the hand-over met another one, a change of the heir's  *)
(* membership, or a crash.                                                 *)
OneOwnerUnlessContested ==
  \/ contested
  \/ /\ Creators \subseteq Active
     /\ \/ \E u \in Users : Creators = {u}
        \/ \E w \in Workers : pc[w] = "demote" /\ Creators = {req[w].user, req[w].heir}

(* Nobody becomes an active member but by a request that enrols them in    *)
(* the channels next: joining an open group, or an approval of the user.   *)
ActivatedByEnrollers ==
  [][\A u \in Users : row'[u].status = "active" /\ row[u].status # "active" =>
       \E w \in Workers : pc[w] \in {"join_insert", "approve_write"} /\ req[w].user = u]_vars

(* And to GroupChannels a group looks as it assumes (Membership). *)
Members == INSTANCE Membership WITH active <- Active, archived <- group.archived
ImplementsMembership == Members!Spec

(* "cannot rejoin without leader approval", "Restores to pending": a ban   *)
(* ends in a pending request.  It does not: unbanning deletes the row, and *)
(* so does the banned member's own leaveGroup, after which joining an open *)
(* group succeeds at once.                                                 *)
BanEndsInPending ==
  [][\A u \in Users : row[u].status = "banned" =>
       row'[u].status \in {"banned", "pending"}]_vars

(* "Read inside the transaction to avoid TOCTOU races": the counter is     *)
(* right without exception.  Two overlapping removals count twice.         *)
CountMatches == group.count = Cardinality(Active)
===============================================================================
