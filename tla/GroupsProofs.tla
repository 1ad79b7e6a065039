------------------------------ MODULE GroupsProofs ------------------------------
(***************************************************************************)
(* Proofs about Groups for any finite set of users, any number of requests *)
(* in progress and any member limit.                                       *)
(***************************************************************************)
EXTENDS Groups, FiniteSetTheorems, TLAPS

ReqType == [user : Users \cup {Nobody}, heir : Users \cup {Nobody}, seen : Status]
RowType == [status : Status, role : Role]

LEMMA NextCases ==
  ASSUME [Next]_vars
  PROVE  \/ \E w \in Workers, u \in Users :
              \/ JoinCheck(w, u) \/ RequestCheck(w, u) \/ ApproveCheck(w, u)
              \/ RejectCheck(w, u) \/ UnbanCheck(w, u) \/ BanCheck(w, u) \/ LeaveCheck(w, u)
              \/ AssignCheck(w, u)
         \/ \E w \in Workers, u \in Users : TransferStart(w, u)
         \/ \E w \in Workers : JoinInsert(w) \/ RequestInsert(w)
         \/ \E w \in Workers : StatusRead(w) \/ StatusReadNothing(w)
         \/ \E w \in Workers : ApproveWrite(w) \/ BanWrite(w) \/ RemoveWrite(w)
         \/ \E w \in Workers : AssignWrite(w)
         \/ \E w \in Workers : TransferFind(w) \/ TransferToNobody(w)
         \/ \E w \in Workers : Promote(w)
         \/ \E w \in Workers : Demote(w)
         \/ \E w \in Workers : ArchiveCheck(w) \/ Archive(w)
         \/ \E w \in Workers : Crash(w)
         \/ \E joinType \in {"open", "approval"} : UpdateSettings(joinType)
         \/ UNCHANGED vars
  BY DEF Next, Request, Continue

(* A worker moves on with r, and the others stay. *)
LEMMA Moved ==
  ASSUME req \in [Workers -> ReqType], pc \in [Workers -> Labels],
         NEW w \in Workers, NEW label \in Labels, NEW r \in ReqType, Start(w, label, r)
  PROVE  /\ req' \in [Workers -> ReqType] /\ pc' \in [Workers -> Labels]
         /\ pc'[w] = label /\ req'[w] = r
         /\ \A v \in Workers \ {w} : pc'[v] = pc[v] /\ req'[v] = req[v]
  BY DEF Start

LEMMA MovedOn ==
  ASSUME req \in [Workers -> ReqType], pc \in [Workers -> Labels],
         NEW w \in Workers, NEW label \in Labels, Goto(w, label)
  PROVE  /\ req' \in [Workers -> ReqType] /\ pc' \in [Workers -> Labels]
         /\ pc'[w] = label /\ req' = req
         /\ \A v \in Workers \ {w} : pc'[v] = pc[v]
  BY DEF Goto

LEMMA Requests ==
  /\ NoRequest \in ReqType
  /\ \A u \in Users : For(u) \in ReqType /\ For(u).user = u
  /\ \A r \in ReqType, s \in Status :
       [r EXCEPT !.seen = s] \in ReqType /\ [r EXCEPT !.seen = s].user = r.user
         /\ [r EXCEPT !.seen = s].seen = s
  /\ \A r \in ReqType, h \in Users :
       [r EXCEPT !.heir = h] \in ReqType /\ [r EXCEPT !.heir = h].user = r.user
         /\ [r EXCEPT !.heir = h].heir = h
  BY DEF NoRequest, ReqType, For, Status

-------------------------------------------------------------------------------
WorkersOK == req \in [Workers -> ReqType] /\ pc \in [Workers -> Labels]
RowsOK == row \in [Users -> RowType]
GroupOK == group \in [count : Nat, joinType : {"open", "approval"}, archived : BOOLEAN]
HistoryOK == drift \in BOOLEAN /\ contested \in BOOLEAN

LEMMA TypeParts == TypeOK <=> WorkersOK /\ RowsOK /\ GroupOK /\ HistoryOK
  BY DEF TypeOK, WorkersOK, RowsOK, GroupOK, HistoryOK, ReqType, RowType

(* What a request has read by the time it stands at a label. *)
Fits(w) ==
  /\ pc[w] \notin {"idle", "archive"} => req[w].user \in Users
  /\ pc[w] \in {"approve_write", "ban_write", "remove_write"} => req[w].seen # "none"
  /\ pc[w] \in {"promote", "demote"} => req[w].heir \in Users /\ req[w].heir # req[w].user

(* Who has no row has no role either. *)
RowsBlank == \A u \in Users : Exists(u) \/ row[u] = NoRow

AllFit == \A w \in Workers : Fits(w)
TypeInv == TypeOK /\ AllFit /\ RowsBlank

LEMMA TypeInvParts ==
  TypeInv <=> WorkersOK /\ RowsOK /\ GroupOK /\ HistoryOK /\ AllFit /\ RowsBlank
  BY TypeParts DEF TypeInv

LEMMA InitType == Init => TypeInv
<1> SUFFICES ASSUME Init
             PROVE  WorkersOK /\ RowsOK /\ GroupOK /\ HistoryOK /\ AllFit /\ RowsBlank
  BY TypeInvParts
<1>1. WorkersOK /\ AllFit
  BY Requests DEF Init, WorkersOK, AllFit, Fits, Labels
<1>2. RowsOK /\ RowsBlank
  BY DEF Init, RowsOK, RowType, NoRow, Status, Role, RowsBlank, Exists
<1>3. GroupOK
  <2>1. PICK joinType \in {"open", "approval"} :
          group = [count |-> 1, joinType |-> joinType, archived |-> FALSE]
    BY DEF Init
  <2> QED BY <2>1 DEF GroupOK
<1>4. HistoryOK
  BY DEF Init, HistoryOK
<1> QED BY <1>1, <1>2, <1>3, <1>4

(* The rows the writes make. *)
LEMMA InsertRows ==
  ASSUME RowsOK, GroupOK, RowsBlank, NEW u \in Users, NEW s \in Status \ {"none"},
         InsertMember(u, s)
  PROVE  RowsOK' /\ GroupOK' /\ RowsBlank'
<1>1. CASE Exists(u)
  BY <1>1 DEF InsertMember, RowsOK, GroupOK, RowsBlank, Exists
<1>2. CASE ~Exists(u)
  <2>1. row' = [row EXCEPT ![u] = [status |-> s, role |-> "member"]]
    BY <1>2 DEF InsertMember
  <2>2. RowsOK' /\ RowsBlank'
    BY <2>1 DEF RowsOK, RowType, Role, RowsBlank, Exists
  <2>3. GroupOK'
    BY <1>2 DEF InsertMember, GroupOK
  <2> QED BY <2>2, <2>3
<1> QED BY <1>1, <1>2

LEMMA CountedNat ==
  ASSUME GroupOK, NEW seen, NEW status
  PROVE  Counted(seen, status) \in Nat
  BY DEF GroupOK, Counted

LEMMA WriteRows ==
  ASSUME RowsOK, GroupOK, HistoryOK, RowsBlank, NEW w \in Workers, NEW s \in Status,
         req[w].user \in Users, WriteStatus(w, s)
  PROVE  RowsOK' /\ GroupOK' /\ HistoryOK' /\ RowsBlank'
<1> DEFINE u == req[w].user
<1>1. row' = IF ~Exists(u) THEN row ELSE IF s = "none" THEN [row EXCEPT ![u] = NoRow]
             ELSE [row EXCEPT ![u].status = s]
  BY DEF WriteStatus
<1>2. RowsOK' /\ RowsBlank'
  <2>1. CASE ~Exists(u)
    BY <1>1, <2>1 DEF RowsOK, RowsBlank, Exists
  <2>2. CASE Exists(u) /\ s = "none"
    BY <1>1, <2>2 DEF RowsOK, RowsBlank, Exists, NoRow, RowType, Status, Role
  <2>3. CASE Exists(u) /\ s # "none"
    BY <1>1, <2>3 DEF RowsOK, RowsBlank, Exists, NoRow, RowType
  <2> QED BY <2>1, <2>2, <2>3
<1>3. GroupOK'
  BY CountedNat DEF WriteStatus, GroupOK
<1>4. HistoryOK'
  <2>1. drift' \in BOOLEAN
    BY DEF WriteStatus
  <2>2. contested' \in BOOLEAN
    BY DEF WriteStatus
  <2> QED BY <2>1, <2>2 DEF HistoryOK
<1> QED BY <1>2, <1>3, <1>4

LEMMA RoleRows ==
  ASSUME RowsOK, RowsBlank, NEW u \in Users, NEW role \in Role, row' = SetRole(u, role)
  PROVE  /\ RowsOK' /\ RowsBlank'
         /\ \A v \in Users : row'[v].status = row[v].status
<1>1. CASE Exists(u)
  BY <1>1 DEF SetRole, RowsOK, RowType, RowsBlank, Exists, NoRow
<1>2. CASE ~Exists(u)
  BY <1>2 DEF SetRole, RowsOK, RowsBlank, Exists
<1> QED BY <1>1, <1>2

LEMMA NextType == ASSUME TypeInv, [Next]_vars PROVE TypeInv'
<1> SUFFICES WorkersOK' /\ RowsOK' /\ GroupOK' /\ HistoryOK' /\ AllFit' /\ RowsBlank'
  BY TypeInvParts DEF TypeInv, TypeOK, WorkersOK, RowsOK, GroupOK, HistoryOK, ReqType,
                      RowType, AllFit, Fits, RowsBlank, Exists, NoRow
<1>t. WorkersOK /\ RowsOK /\ GroupOK /\ HistoryOK /\ AllFit /\ RowsBlank
  BY TypeInvParts
<1>a. ASSUME NEW w \in Workers, NEW label \in Labels, NEW r \in ReqType, Start(w, label, r),
             label \notin {"idle", "archive"} => r.user \in Users,
             label \in {"approve_write", "ban_write", "remove_write"} => r.seen # "none",
             label \in {"promote", "demote"} => r.heir \in Users /\ r.heir # r.user
      PROVE  WorkersOK' /\ AllFit'
  BY <1>t, <1>a, Moved DEF WorkersOK, AllFit, Fits
<1>b. ASSUME NEW w \in Workers, Finish(w) PROVE WorkersOK' /\ AllFit'
  BY <1>a, <1>b, Requests DEF Finish, Labels
<1>c. ASSUME UNCHANGED data PROVE RowsOK' /\ GroupOK' /\ RowsBlank'
  BY <1>t, <1>c DEF data, RowsOK, GroupOK, RowsBlank, Exists
<1>1. ASSUME NEW w \in Workers, NEW u \in Users,
             \/ JoinCheck(w, u) \/ RequestCheck(w, u) \/ ApproveCheck(w, u)
             \/ RejectCheck(w, u) \/ UnbanCheck(w, u) \/ BanCheck(w, u) \/ LeaveCheck(w, u)
             \/ AssignCheck(w, u) \/ TransferStart(w, u)
      PROVE  WorkersOK' /\ RowsOK' /\ GroupOK' /\ HistoryOK' /\ AllFit' /\ RowsBlank'
  <2>1. \E label \in Labels \ {"approve_write", "ban_write", "remove_write", "promote",
                              "demote"} : Start(w, label, For(u))
    BY <1>1 DEF JoinCheck, RequestCheck, ApproveCheck, RejectCheck, UnbanCheck, BanCheck,
                LeaveCheck, AssignCheck, TransferStart, Labels
  <2>2. WorkersOK' /\ AllFit'
    BY <1>a, <2>1, Requests
  <2>3. UNCHANGED data
    BY <1>1 DEF JoinCheck, RequestCheck, ApproveCheck, RejectCheck, UnbanCheck, BanCheck,
                LeaveCheck, AssignCheck, TransferStart
  <2>4. drift' = drift /\ (contested' = contested \/ TransferStart(w, u))
    BY <1>1 DEF JoinCheck, RequestCheck, ApproveCheck, RejectCheck, UnbanCheck, BanCheck,
                LeaveCheck, AssignCheck, TransferStart, history
  <2>5. contested' \in BOOLEAN
    BY <1>t, <2>4 DEF TransferStart, HistoryOK
  <2> QED BY <1>t, <1>c, <2>2, <2>3, <2>4, <2>5 DEF HistoryOK
<1>2. ASSUME NEW w \in Workers, JoinInsert(w) \/ RequestInsert(w)
      PROVE  WorkersOK' /\ RowsOK' /\ GroupOK' /\ HistoryOK' /\ AllFit' /\ RowsBlank'
  <2>1. req[w].user \in Users
    BY <1>t, <1>2 DEF JoinInsert, RequestInsert, AllFit, Fits
  <2>2. RowsOK' /\ GroupOK' /\ RowsBlank'
    BY <1>t, <1>2, <2>1, InsertRows DEF JoinInsert, RequestInsert, Status
  <2> QED BY <1>t, <1>b, <1>2, <2>2 DEF JoinInsert, RequestInsert, HistoryOK, history
<1>3. ASSUME NEW w \in Workers, StatusRead(w)
      PROVE  WorkersOK' /\ RowsOK' /\ GroupOK' /\ HistoryOK' /\ AllFit' /\ RowsBlank'
  <2> DEFINE seen == row[req[w].user].status
             r == [req[w] EXCEPT !.seen = seen]
  <2>1. /\ pc[w] \in {"approve_read", "ban_read", "remove_read"} /\ seen # "none"
        /\ Start(w, AfterRead[pc[w]], r) /\ UNCHANGED <<data, history>>
    BY <1>3 DEF StatusRead, AfterRead
  <2>2. req[w].user \in Users /\ req[w] \in ReqType
    BY <1>t, <2>1 DEF AllFit, Fits, WorkersOK
  <2>3. seen \in Status
    BY <1>t, <2>2 DEF RowsOK, RowType
  <2>4. r \in ReqType /\ r.user \in Users /\ r.seen = seen
    BY <2>2, <2>3, Requests
  <2>5. AfterRead[pc[w]] \in {"approve_write", "ban_write", "remove_write"}
    BY <2>1 DEF AfterRead
  <2> HIDE DEF r, seen
  <2>6. WorkersOK' /\ AllFit'
    BY <1>a, <2>1, <2>4, <2>5 DEF Labels
  <2> QED BY <1>t, <1>c, <2>1, <2>6 DEF HistoryOK, history
<1>4. ASSUME NEW w \in Workers, StatusReadNothing(w)
      PROVE  WorkersOK' /\ RowsOK' /\ GroupOK' /\ HistoryOK' /\ AllFit' /\ RowsBlank'
  BY <1>t, <1>b, <1>c, <1>4 DEF StatusReadNothing, HistoryOK, history
<1>5. ASSUME NEW w \in Workers, ApproveWrite(w) \/ BanWrite(w) \/ RemoveWrite(w)
      PROVE  WorkersOK' /\ RowsOK' /\ GroupOK' /\ HistoryOK' /\ AllFit' /\ RowsBlank'
  <2>1. req[w].user \in Users
    BY <1>t, <1>5 DEF ApproveWrite, BanWrite, RemoveWrite, AllFit, Fits
  <2>2. \E s \in Status : WriteStatus(w, s)
    BY <1>5 DEF ApproveWrite, BanWrite, RemoveWrite, Status
  <2>3. RowsOK' /\ GroupOK' /\ HistoryOK' /\ RowsBlank'
    BY <1>t, <2>1, <2>2, WriteRows
  <2> QED BY <1>b, <1>5, <2>3 DEF ApproveWrite, BanWrite, RemoveWrite
<1>6. ASSUME NEW w \in Workers, AssignWrite(w)
      PROVE  WorkersOK' /\ RowsOK' /\ GroupOK' /\ HistoryOK' /\ AllFit' /\ RowsBlank'
  <2>1. req[w].user \in Users
    BY <1>t, <1>6 DEF AssignWrite, AllFit, Fits
  <2>2. RowsOK' /\ RowsBlank'
    BY <1>t, <1>6, <2>1, RoleRows DEF AssignWrite, Role
  <2>3. contested' \in BOOLEAN
    BY <1>6 DEF AssignWrite
  <2> QED BY <1>t, <1>b, <1>6, <2>2, <2>3 DEF AssignWrite, GroupOK, HistoryOK
<1>7. ASSUME NEW w \in Workers, TransferFind(w)
      PROVE  WorkersOK' /\ RowsOK' /\ GroupOK' /\ HistoryOK' /\ AllFit' /\ RowsBlank'
  <2>1. PICK heir \in Heirs(req[w].user) : Start(w, "promote", [req[w] EXCEPT !.heir = heir])
    BY <1>7 DEF TransferFind
  <2>2. heir \in Users /\ heir # req[w].user
    BY DEF Heirs, Leaders, Active
  <2> DEFINE r == [req[w] EXCEPT !.heir = heir]
  <2>3. req[w] \in ReqType /\ req[w].user \in Users
    BY <1>t, <1>7 DEF TransferFind, AllFit, Fits, WorkersOK
  <2>4. r \in ReqType /\ r.user = req[w].user /\ r.heir = heir /\ Start(w, "promote", r)
    BY <2>1, <2>2, <2>3, Requests
  <2> HIDE DEF r
  <2>5. WorkersOK' /\ AllFit'
    BY <1>a, <2>2, <2>3, <2>4 DEF Labels
  <2> QED BY <1>t, <1>c, <1>7, <2>5 DEF TransferFind, HistoryOK, history
<1>8. ASSUME NEW w \in Workers, TransferToNobody(w)
      PROVE  WorkersOK' /\ RowsOK' /\ GroupOK' /\ HistoryOK' /\ AllFit' /\ RowsBlank'
  <2>1. WorkersOK' /\ AllFit'
    BY <1>t, <1>8, MovedOn DEF TransferToNobody, WorkersOK, AllFit, Fits, Labels
  <2> QED BY <1>t, <1>c, <1>8, <2>1 DEF TransferToNobody, HistoryOK, history
<1>9. ASSUME NEW w \in Workers, Promote(w)
      PROVE  WorkersOK' /\ RowsOK' /\ GroupOK' /\ HistoryOK' /\ AllFit' /\ RowsBlank'
  <2>1. req[w].heir \in Users
    BY <1>t, <1>9 DEF Promote, AllFit, Fits
  <2>2. RowsOK' /\ RowsBlank'
    BY <1>t, <1>9, <2>1, RoleRows DEF Promote, Role
  <2>3. WorkersOK' /\ AllFit'
    BY <1>t, <1>9, MovedOn DEF Promote, WorkersOK, AllFit, Fits, Labels
  <2>4. contested' \in BOOLEAN
    BY <1>9 DEF Promote
  <2> QED BY <1>t, <1>9, <2>2, <2>3, <2>4 DEF Promote, GroupOK, HistoryOK
<1>10. ASSUME NEW w \in Workers, Demote(w)
       PROVE  WorkersOK' /\ RowsOK' /\ GroupOK' /\ HistoryOK' /\ AllFit' /\ RowsBlank'
  <2>1. req[w].user \in Users
    BY <1>t, <1>10 DEF Demote, AllFit, Fits
  <2>2. RowsOK' /\ RowsBlank'
    BY <1>t, <1>10, <2>1, RoleRows DEF Demote, Role
  <2> QED BY <1>t, <1>b, <1>10, <2>2 DEF Demote, GroupOK, HistoryOK, history
<1>11. ASSUME NEW w \in Workers, ArchiveCheck(w)
       PROVE  WorkersOK' /\ RowsOK' /\ GroupOK' /\ HistoryOK' /\ AllFit' /\ RowsBlank'
  <2>1. WorkersOK' /\ AllFit'
    BY <1>a, <1>11, Requests DEF ArchiveCheck, Labels
  <2> QED BY <1>t, <1>c, <1>11, <2>1 DEF ArchiveCheck, HistoryOK, history
<1>12. ASSUME NEW w \in Workers, Archive(w)
       PROVE  WorkersOK' /\ RowsOK' /\ GroupOK' /\ HistoryOK' /\ AllFit' /\ RowsBlank'
  BY <1>t, <1>b, <1>12 DEF Archive, RowsOK, GroupOK, RowsBlank, Exists, HistoryOK, history
<1>13. ASSUME NEW w \in Workers, Crash(w)
       PROVE  WorkersOK' /\ RowsOK' /\ GroupOK' /\ HistoryOK' /\ AllFit' /\ RowsBlank'
  <2>1. contested' \in BOOLEAN
    BY <1>13 DEF Crash
  <2> QED BY <1>t, <1>b, <1>c, <1>13, <2>1 DEF Crash, HistoryOK
<1>14. ASSUME NEW joinType \in {"open", "approval"}, UpdateSettings(joinType)
       PROVE  WorkersOK' /\ RowsOK' /\ GroupOK' /\ HistoryOK' /\ AllFit' /\ RowsBlank'
  BY <1>t, <1>14 DEF UpdateSettings, WorkersOK, RowsOK, GroupOK, HistoryOK, AllFit, Fits,
                     RowsBlank, Exists, history
<1>15. CASE UNCHANGED vars
  BY <1>t, <1>15 DEF vars, data, history, WorkersOK, RowsOK, GroupOK, HistoryOK, AllFit, Fits,
                     RowsBlank, Exists
<1> QED BY <1>1, <1>2, <1>3, <1>4, <1>5, <1>6, <1>7, <1>8, <1>9, <1>10, <1>11, <1>12, <1>13,
           <1>14, <1>15, NextCases

LEMMA TypeStep == Spec => []TypeInv
<1>1. TypeInv /\ [Next]_vars => TypeInv'
  BY NextType
<1> QED BY <1>1, InitType, PTL DEF Spec

(* Every reachable state has values of the right kind: member_count is     *)
(* never negative, whatever removals overlap.                              *)
THEOREM TypeCorrect == Spec => []TypeOK
<1>1. TypeInv => TypeOK
  BY DEF TypeInv
<1> QED BY <1>1, TypeStep, PTL

-------------------------------------------------------------------------------
LEMMA ActiveFinite == IsFiniteSet(Active) /\ Cardinality(Active) \in Nat
<1>1. Active \in SUBSET Users
  BY DEF Active
<1>2. IsFiniteSet(Active)
  BY <1>1, GroupConstants, FS_Subset
<1> QED BY <1>2, FS_CardinalityType

(* Which steps change a membership or the counter. *)
LEMMA MemberSteps ==
  ASSUME TypeInv, [Next]_vars
  PROVE  \/ \E w \in Workers, s \in Status \ {"none"} :
              /\ req[w].user \in Users /\ InsertMember(req[w].user, s) /\ UNCHANGED drift
         \/ \E w \in Workers, s \in Status :
              /\ req[w].user \in Users /\ req[w].seen \in Status \ {"none"}
              /\ WriteStatus(w, s)
         \/ /\ group'.count = group.count /\ Active' = Active /\ UNCHANGED drift
<1>t. WorkersOK /\ RowsOK /\ GroupOK /\ AllFit /\ RowsBlank
  BY TypeInvParts
<1>1. ASSUME NEW w \in Workers, JoinInsert(w) \/ RequestInsert(w)
      PROVE  \E s \in Status \ {"none"} :
               req[w].user \in Users /\ InsertMember(req[w].user, s) /\ UNCHANGED drift
  BY <1>t, <1>1 DEF JoinInsert, RequestInsert, AllFit, Fits, Status, history
<1>2. ASSUME NEW w \in Workers, ApproveWrite(w) \/ BanWrite(w) \/ RemoveWrite(w)
      PROVE  \E s \in Status : /\ req[w].user \in Users /\ req[w].seen \in Status \ {"none"}
                               /\ WriteStatus(w, s)
  <2>1. req[w].user \in Users /\ req[w].seen \in Status \ {"none"}
    BY <1>t, <1>2 DEF ApproveWrite, BanWrite, RemoveWrite, AllFit, Fits, WorkersOK, ReqType
  <2> QED BY <1>2, <2>1 DEF ApproveWrite, BanWrite, RemoveWrite, Status
<1>3. ASSUME NEW u \in Users, NEW role \in Role, row' = SetRole(u, role), UNCHANGED <<group, drift>>
      PROVE  group'.count = group.count /\ Active' = Active /\ UNCHANGED drift
  BY <1>t, <1>3, RoleRows DEF Active
<1>4. ASSUME NEW w \in Workers, AssignWrite(w) \/ Promote(w) \/ Demote(w)
      PROVE  group'.count = group.count /\ Active' = Active /\ UNCHANGED drift
  <2>1. req[w].user \in Users /\ (pc[w] = "promote" => req[w].heir \in Users)
    BY <1>t, <1>4 DEF AssignWrite, Promote, Demote, AllFit, Fits
  <2> QED BY <1>3, <1>4, <2>1 DEF AssignWrite, Promote, Demote, Role, history
<1>5. ASSUME UNCHANGED <<row, drift>>, group'.count = group.count
      PROVE  group'.count = group.count /\ Active' = Active /\ UNCHANGED drift
  BY <1>5 DEF Active
<1>6. ASSUME NEW w \in Workers, Archive(w)
      PROVE  group'.count = group.count /\ Active' = Active /\ UNCHANGED drift
  <2>1. UNCHANGED <<row, drift>> /\ group'.count = group.count
    BY <1>t, <1>6 DEF Archive, GroupOK, history
  <2> QED BY <1>5, <2>1
<1>7. ASSUME NEW joinType \in {"open", "approval"}, UpdateSettings(joinType)
      PROVE  group'.count = group.count /\ Active' = Active /\ UNCHANGED drift
  <2>1. UNCHANGED <<row, drift>> /\ group'.count = group.count
    BY <1>t, <1>7 DEF UpdateSettings, GroupOK, history
  <2> QED BY <1>5, <2>1
<1>8. CASE \/ \E w \in Workers, u \in Users :
                \/ JoinCheck(w, u) \/ RequestCheck(w, u) \/ ApproveCheck(w, u)
                \/ RejectCheck(w, u) \/ UnbanCheck(w, u) \/ BanCheck(w, u) \/ LeaveCheck(w, u)
                \/ AssignCheck(w, u) \/ TransferStart(w, u)
           \/ \E w \in Workers : \/ StatusRead(w) \/ StatusReadNothing(w) \/ TransferFind(w)
                                 \/ TransferToNobody(w) \/ ArchiveCheck(w) \/ Crash(w)
           \/ UNCHANGED vars
  <2>1. UNCHANGED <<row, group, drift>>
    BY <1>8 DEF JoinCheck, RequestCheck, ApproveCheck, RejectCheck, UnbanCheck, BanCheck,
                LeaveCheck, AssignCheck, TransferStart, StatusRead, StatusReadNothing,
                TransferFind, TransferToNobody, ArchiveCheck, Crash, vars, data, history
  <2> QED BY <1>5, <2>1
<1> QED BY <1>1, <1>2, <1>4, <1>6, <1>7, <1>8, NextCases

LEMMA CountStep ==
  ASSUME TypeInv, CountMatchesUnlessRaced, [Next]_vars
  PROVE  CountMatchesUnlessRaced'
<1>t. RowsOK /\ GroupOK /\ RowsBlank
  BY TypeInvParts
<1> SUFFICES ASSUME ~drift' PROVE group'.count = Cardinality(Active')
  BY DEF CountMatchesUnlessRaced, Active
<1>1. ASSUME NEW w \in Workers, NEW s \in Status \ {"none"},
             req[w].user \in Users, InsertMember(req[w].user, s), UNCHANGED drift
      PROVE  group'.count = Cardinality(Active')
  <2> DEFINE u == req[w].user
  <2>0. group.count = Cardinality(Active)
    BY <1>1 DEF CountMatchesUnlessRaced
  <2>1. CASE Exists(u)
    BY <1>1, <2>0, <2>1 DEF InsertMember, Active
  <2>2. CASE ~Exists(u) /\ s = "active"
    <3>1. Active' = Active \cup {u} /\ u \notin Active
      BY <1>t, <1>1, <2>2 DEF InsertMember, Active, Exists, RowsOK
    <3>2. group'.count = group.count + 1
      BY <1>t, <1>1, <2>2 DEF InsertMember, GroupOK
    <3> QED BY <2>0, <3>1, <3>2, ActiveFinite, FS_AddElement
  <2>3. CASE ~Exists(u) /\ s # "active"
    <3>1. Active' = Active
      BY <1>t, <1>1, <2>3 DEF InsertMember, Active, Exists, RowsOK
    <3>2. group'.count = group.count
      BY <1>t, <1>1, <2>3 DEF InsertMember, GroupOK
    <3> QED BY <2>0, <3>1, <3>2
  <2> QED BY <2>1, <2>2, <2>3
<1>2. ASSUME NEW w \in Workers, NEW s \in Status, req[w].user \in Users,
             req[w].seen \in Status \ {"none"}, WriteStatus(w, s)
      PROVE  group'.count = Cardinality(Active')
  <2> DEFINE u == req[w].user
             seen == req[w].seen
  <2>0. ~drift /\ row[u].status = seen /\ Exists(u)
    BY <1>2 DEF WriteStatus, Exists
  <2>1. group.count = Cardinality(Active) /\ group'.count = Counted(seen, s)
    BY <1>t, <1>2, <2>0 DEF CountMatchesUnlessRaced, WriteStatus, GroupOK
  <2>2. \A v \in Users : row'[v].status = IF v = u THEN s ELSE row[v].status
    BY <1>t, <1>2, <2>0 DEF WriteStatus, RowsOK, RowType, NoRow
  <2>3. CASE seen # "active" /\ s = "active"
    <3>1. Active' = Active \cup {u} /\ u \notin Active
      BY <1>2, <2>0, <2>2, <2>3 DEF Active
    <3>2. Cardinality(Active') = Cardinality(Active) + 1
      BY <3>1, ActiveFinite, FS_AddElement
    <3>3. Counted(seen, s) = group.count + 1
      BY <2>3 DEF Counted
    <3> QED BY <2>1, <3>2, <3>3
  <2>4. CASE seen = "active" /\ s # "active"
    <3>1. Active' = Active \ {u} /\ u \in Active
      BY <1>2, <2>0, <2>2, <2>4 DEF Active
    <3>2. Cardinality(Active) # 0
      BY <3>1, ActiveFinite, FS_EmptySet
    <3>3. Cardinality(Active') = Cardinality(Active) - 1
      BY <3>1, ActiveFinite, FS_RemoveElement
    <3>4. Counted(seen, s) = group.count - 1
      BY <2>1, <2>4, <3>2, ActiveFinite DEF Counted
    <3> QED BY <2>1, <3>3, <3>4
  <2>5. CASE (seen = "active") = (s = "active")
    <3>1. Active' = Active
      BY <2>0, <2>2, <2>5 DEF Active
    <3>2. Counted(seen, s) = group.count
      BY <2>5 DEF Counted
    <3> QED BY <2>1, <3>1, <3>2
  <2> QED BY <2>3, <2>4, <2>5
<1>3. CASE group'.count = group.count /\ Active' = Active /\ UNCHANGED drift
  BY <1>3 DEF CountMatchesUnlessRaced
<1> QED BY <1>1, <1>2, <1>3, MemberSteps

(* member_count is the number of active members, for any number of         *)
(* overlapping requests, until one of them writes over a status that       *)
(* changed after its transaction read it.                                  *)
THEOREM CountKept == Spec => []CountMatchesUnlessRaced
<1>1. Init => CountMatchesUnlessRaced
  <2> SUFFICES ASSUME Init PROVE group.count = Cardinality(Active)
    BY DEF CountMatchesUnlessRaced
  <2>1. Active = {Creator}
    BY GroupConstants DEF Init, Active, NoRow
  <2>2. group.count = 1
    BY DEF Init
  <2> QED BY <2>1, <2>2, FS_Singleton
<1>2. TypeInv /\ CountMatchesUnlessRaced /\ [Next]_vars => CountMatchesUnlessRaced'
  BY CountStep
<1> QED BY <1>1, <1>2, TypeStep, PTL DEF Spec

-------------------------------------------------------------------------------
(* While no hand-over has met another or been cut short, at most one is    *)
(* under way, and the creators are those it stands between.                *)
TransferInv ==
  ~contested =>
    /\ \A v, w \in Workers : Transferring(v) /\ Transferring(w) => v = w
    /\ \A w \in Workers :
         /\ pc[w] \in {"transfer_find", "promote"} => Creators = {req[w].user}
         /\ pc[w] = "demote" => Creators = {req[w].user, req[w].heir}
    /\ (\A w \in Workers : pc[w] # "demote") => \E u \in Users : Creators = {u}

(* A role is changed of somebody who has a row, or of nobody. *)
LEMMA RoleCreators ==
  ASSUME RowsOK, RowsBlank, NEW u \in Users, NEW role \in Role, row' = SetRole(u, role)
  PROVE  Creators' = IF Exists(u) /\ role = "creator" THEN Creators \cup {u}
                     ELSE IF role # "creator" THEN Creators \ {u} ELSE Creators
<1>1. CASE Exists(u)
  <2>1. \A v \in Users : row'[v].role = IF v = u THEN role ELSE row[v].role
    BY <1>1 DEF SetRole, RowsOK, RowType
  <2> QED BY <1>1, <2>1 DEF Creators
<1>2. CASE ~Exists(u)
  <2>1. row' = row /\ u \notin Creators
    BY <1>2 DEF SetRole, Creators, RowsBlank, NoRow
  <2> QED BY <1>2, <2>1 DEF Creators
<1> QED BY <1>1, <1>2

(* A change of a membership leaves the creators alone, unless it takes one *)
(* of theirs, which it remembers.                                          *)
LEMMA InsertCreators ==
  ASSUME RowsOK, RowsBlank, NEW u \in Users, NEW s \in Status, InsertMember(u, s)
  PROVE  Creators' = Creators
<1>1. CASE Exists(u)
  BY <1>1 DEF InsertMember, Creators
<1>2. CASE ~Exists(u)
  <2>1. \A v \in Users : row'[v].role = row[v].role
    BY <1>2 DEF InsertMember, RowsOK, RowType, RowsBlank, NoRow
  <2> QED BY <2>1 DEF Creators
<1> QED BY <1>1, <1>2

LEMMA WriteCreators ==
  ASSUME RowsOK, RowsBlank, NEW w \in Workers, NEW s \in Status, req[w].user \in Users,
         WriteStatus(w, s), ~contested'
  PROVE  ~contested /\ Creators' = Creators
<1> DEFINE u == req[w].user
<1>1. ~contested /\ (row[u].role = "creator" => s = "active")
  BY DEF WriteStatus
<1>2. CASE ~Exists(u)
  BY <1>1, <1>2 DEF WriteStatus, Creators
<1>3. CASE Exists(u) /\ s = "none"
  <2>1. \A v \in Users : row'[v].role = IF v = u THEN "member" ELSE row[v].role
    BY <1>3 DEF WriteStatus, RowsOK, RowType, NoRow
  <2> QED BY <1>1, <1>3, <2>1 DEF Creators
<1>4. CASE Exists(u) /\ s # "none"
  <2>1. \A v \in Users : row'[v].role = row[v].role
    BY <1>4 DEF WriteStatus, RowsOK, RowType
  <2> QED BY <1>1, <2>1 DEF Creators
<1> QED BY <1>2, <1>3, <1>4

LEMMA TransferStep == ASSUME TypeInv, TransferInv, [Next]_vars PROVE TransferInv'
<1>t. WorkersOK /\ RowsOK /\ AllFit /\ RowsBlank
  BY TypeInvParts
<1>n. NoRequest \in ReqType
  BY Requests
(* A step of a worker that is not handing over and does not begin to. *)
<1>a. ASSUME NEW w \in Workers, ~Transferring(w), ~Transferring(w)',
             \A v \in Workers \ {w} : pc'[v] = pc[v] /\ req'[v] = req[v],
             ~contested' => ~contested /\ Creators' = Creators
      PROVE  TransferInv'
  <2> SUFFICES ASSUME ~contested' PROVE TransferInv'
    BY DEF TransferInv
  <2>1. ~contested /\ Creators' = Creators
    BY <1>a
  <2>2. \A v \in Workers : /\ Transferring(v)' <=> Transferring(v)
                           /\ Transferring(v) => pc'[v] = pc[v] /\ req'[v] = req[v]
    BY <1>a DEF Transferring
  <2>3. \A v \in Workers : pc'[v] = "demote" <=> pc[v] = "demote"
    BY <2>2 DEF Transferring
  <2>4. \A v \in Workers :
          /\ pc'[v] \in {"transfer_find", "promote"} => Creators' = {req'[v].user}
          /\ pc'[v] = "demote" => Creators' = {req'[v].user, req'[v].heir}
    BY <2>1, <2>2 DEF TransferInv, Transferring
  <2>5. \A v, x \in Workers : Transferring(v)' /\ Transferring(x)' => v = x
    BY <2>1, <2>2 DEF TransferInv
  <2>6. (\A v \in Workers : pc'[v] # "demote") => \E u \in Users : Creators' = {u}
    BY <2>1, <2>3 DEF TransferInv
  <2> QED BY <2>4, <2>5, <2>6 DEF TransferInv, Transferring, Creators
<1>f. ASSUME NEW w \in Workers, Finish(w)
      PROVE  /\ pc'[w] = "idle"
             /\ \A v \in Workers \ {w} : pc'[v] = pc[v] /\ req'[v] = req[v]
  BY <1>t, <1>n, <1>f, Moved DEF Finish, WorkersOK, Labels
<1>1. ASSUME NEW w \in Workers, NEW u \in Users,
             \/ JoinCheck(w, u) \/ RequestCheck(w, u) \/ ApproveCheck(w, u)
             \/ RejectCheck(w, u) \/ UnbanCheck(w, u) \/ BanCheck(w, u) \/ LeaveCheck(w, u)
             \/ AssignCheck(w, u)
      PROVE  TransferInv'
  <2>1. PICK label \in Labels \ {"transfer_find", "promote", "demote"} : Start(w, label, For(u))
    BY <1>1 DEF JoinCheck, RequestCheck, ApproveCheck, RejectCheck, UnbanCheck, BanCheck,
                LeaveCheck, AssignCheck, Labels
  <2>2. /\ pc'[w] = label
        /\ \A v \in Workers \ {w} : pc'[v] = pc[v] /\ req'[v] = req[v]
    BY <1>t, <2>1, Moved, Requests DEF WorkersOK
  <2>3. pc[w] = "idle" /\ UNCHANGED <<row, contested>>
    BY <1>1 DEF JoinCheck, RequestCheck, ApproveCheck, RejectCheck, UnbanCheck, BanCheck,
                LeaveCheck, AssignCheck, Idle, data, history
  <2> QED BY <1>a, <2>1, <2>2, <2>3 DEF Transferring, Creators
<1>2. ASSUME NEW w \in Workers, NEW u \in Users, TransferStart(w, u) PROVE TransferInv'
  <2> SUFFICES ASSUME ~contested' PROVE TransferInv'
    BY DEF TransferInv
  <2>1. ~contested /\ (\A v \in Workers : ~Transferring(v)) /\ UNCHANGED row
    BY <1>2 DEF TransferStart, data
  <2>2. PICK x \in Users : Creators = {x}
    BY <2>1 DEF TransferInv, Transferring
  <2>3. Creators = {u} /\ Creators' = Creators
    BY <1>2, <2>1, <2>2 DEF TransferStart, Creators
  <2>4. /\ pc'[w] = "transfer_find" /\ req'[w].user = u
        /\ \A v \in Workers \ {w} : pc'[v] = pc[v] /\ req'[v] = req[v]
    BY <1>t, <1>2, Moved, Requests DEF TransferStart, WorkersOK, Labels
  <2>5. \A v \in Workers : Transferring(v)' <=> v = w
    BY <2>1, <2>4 DEF Transferring
  <2>6. \A v \in Workers :
          /\ pc'[v] \in {"transfer_find", "promote"} => Creators' = {req'[v].user}
          /\ pc'[v] # "demote"
    BY <2>3, <2>4, <2>5 DEF Transferring
  <2> QED BY <2>3, <2>5, <2>6 DEF TransferInv, Transferring, Creators
<1>3. ASSUME NEW w \in Workers, JoinInsert(w) \/ RequestInsert(w) PROVE TransferInv'
  <2>1. req[w].user \in Users /\ ~Transferring(w)
    BY <1>t, <1>3 DEF JoinInsert, RequestInsert, AllFit, Fits, Transferring
  <2>2. Creators' = Creators /\ contested' = contested
    BY <1>t, <1>3, <2>1, InsertCreators DEF JoinInsert, RequestInsert, Status, history
  <2>3. Finish(w)
    BY <1>3 DEF JoinInsert, RequestInsert
  <2> QED BY <1>a, <1>f, <2>1, <2>2, <2>3 DEF Transferring
<1>4. ASSUME NEW w \in Workers, StatusRead(w) PROVE TransferInv'
  <2> DEFINE r == [req[w] EXCEPT !.seen = row[req[w].user].status]
  <2>1. pc[w] \in {"approve_read", "ban_read", "remove_read"} /\ Start(w, AfterRead[pc[w]], r)
        /\ UNCHANGED <<row, contested>>
    BY <1>4 DEF StatusRead, AfterRead, data, history
  <2>2. req[w] \in ReqType /\ row[req[w].user].status \in Status
    BY <1>t, <2>1 DEF AllFit, Fits, WorkersOK, RowsOK, RowType
  <2>3. r \in ReqType
    BY <2>2, Requests
  <2>4. AfterRead[pc[w]] \in {"approve_write", "ban_write", "remove_write"}
    BY <2>1 DEF AfterRead
  <2> HIDE DEF r
  <2>5. /\ pc'[w] \in {"approve_write", "ban_write", "remove_write"}
        /\ \A v \in Workers \ {w} : pc'[v] = pc[v] /\ req'[v] = req[v]
    BY <1>t, <2>1, <2>3, <2>4, Moved DEF WorkersOK, Labels
  <2> QED BY <1>a, <2>1, <2>5 DEF Transferring, Creators
<1>5. ASSUME NEW w \in Workers, StatusReadNothing(w) PROVE TransferInv'
  BY <1>a, <1>f, <1>5 DEF StatusReadNothing, AfterRead, Transferring, Creators, data, history
<1>6. ASSUME NEW w \in Workers, ApproveWrite(w) \/ BanWrite(w) \/ RemoveWrite(w)
      PROVE  TransferInv'
  <2>1. req[w].user \in Users /\ ~Transferring(w) /\ Finish(w)
    BY <1>t, <1>6 DEF ApproveWrite, BanWrite, RemoveWrite, AllFit, Fits, Transferring
  <2>2. \E s \in Status : WriteStatus(w, s)
    BY <1>6 DEF ApproveWrite, BanWrite, RemoveWrite, Status
  <2>3. ~contested' => ~contested /\ Creators' = Creators
    BY <1>t, <2>1, <2>2, WriteCreators
  <2> QED BY <1>a, <1>f, <2>1, <2>3 DEF Transferring
<1>7. ASSUME NEW w \in Workers, AssignWrite(w) PROVE TransferInv'
  <2>1. req[w].user \in Users /\ ~Transferring(w) /\ Finish(w)
    BY <1>t, <1>7 DEF AssignWrite, AllFit, Fits, Transferring
  <2>2. ASSUME ~contested' PROVE ~contested /\ Creators' = Creators
    <3>1. ~contested /\ req[w].user \notin Creators
      BY <1>7, <2>2 DEF AssignWrite, Creators
    <3>2. Creators' = Creators \ {req[w].user}
      BY <1>t, <1>7, <2>1, RoleCreators DEF AssignWrite, Role
    <3> QED BY <3>1, <3>2
  <2> QED BY <1>a, <1>f, <2>1, <2>2 DEF Transferring
<1>8. ASSUME NEW w \in Workers, TransferFind(w) PROVE TransferInv'
  <2>1. PICK heir \in Heirs(req[w].user) : Start(w, "promote", [req[w] EXCEPT !.heir = heir])
    BY <1>8 DEF TransferFind
  <2> DEFINE r == [req[w] EXCEPT !.heir = heir]
  <2>2. req[w] \in ReqType /\ heir \in Users /\ pc[w] = "transfer_find"
    BY <1>t, <1>8 DEF TransferFind, WorkersOK, Heirs, Leaders, Active
  <2>3. r \in ReqType /\ r.user = req[w].user /\ Start(w, "promote", r)
    BY <2>1, <2>2, Requests
  <2>4. Creators' = Creators /\ contested' = contested
    BY <1>8 DEF TransferFind, Creators, data, history
  <2> HIDE DEF r
  <2>5. /\ pc'[w] = "promote" /\ req'[w].user = req[w].user
        /\ \A v \in Workers \ {w} : pc'[v] = pc[v] /\ req'[v] = req[v]
    BY <1>t, <2>3, Moved DEF WorkersOK, Labels
  <2>6. \A v \in Workers : /\ Transferring(v)' <=> Transferring(v)
                           /\ pc'[v] = "demote" <=> pc[v] = "demote"
    BY <2>2, <2>5 DEF Transferring
  <2>7. contested \/ \A v \in Workers :
          /\ pc'[v] \in {"transfer_find", "promote"} => Creators' = {req'[v].user}
          /\ pc'[v] = "demote" => Creators' = {req'[v].user, req'[v].heir}
    BY <2>2, <2>4, <2>5 DEF TransferInv
  <2> QED BY <2>4, <2>6, <2>7 DEF TransferInv, Transferring, Creators
<1>9. ASSUME NEW w \in Workers, TransferToNobody(w) PROVE TransferInv'
  <2>1. /\ pc[w] = "transfer_find" /\ pc'[w] = "archive" /\ req' = req
        /\ \A v \in Workers \ {w} : pc'[v] = pc[v]
        /\ Creators' = Creators /\ contested' = contested
    BY <1>t, <1>9, MovedOn DEF TransferToNobody, WorkersOK, Labels, Creators, data, history
  <2>2. \A v \in Workers : /\ Transferring(v)' => Transferring(v)
                           /\ pc'[v] = "demote" <=> pc[v] = "demote"
    BY <2>1 DEF Transferring
  <2>3. contested \/ \A v \in Workers :
          /\ pc'[v] \in {"transfer_find", "promote"} => Creators' = {req'[v].user}
          /\ pc'[v] = "demote" => Creators' = {req'[v].user, req'[v].heir}
    BY <2>1 DEF TransferInv
  <2> QED BY <2>1, <2>2, <2>3 DEF TransferInv, Transferring, Creators
<1>10. ASSUME NEW w \in Workers, Promote(w) PROVE TransferInv'
  <2> SUFFICES ASSUME ~contested' PROVE TransferInv'
    BY DEF TransferInv
  <2>1. ~contested /\ req[w].heir \in Active /\ pc[w] = "promote"
    BY <1>10 DEF Promote
  <2>2. Creators = {req[w].user}
    BY <2>1 DEF TransferInv
  <2>3. req[w].heir \in Users /\ Exists(req[w].heir)
    BY <2>1 DEF Active, Exists
  <2>4. Creators' = {req[w].user, req[w].heir}
    BY <1>t, <1>10, <2>2, <2>3, RoleCreators DEF Promote, Role
  <2>5. /\ pc'[w] = "demote" /\ req' = req
        /\ \A v \in Workers \ {w} : pc'[v] = pc[v]
    BY <1>t, <1>10, MovedOn DEF Promote, WorkersOK, Labels
  <2>6. \A v \in Workers : Transferring(v) <=> v = w
    BY <2>1 DEF TransferInv, Transferring
  <2>7. \A v \in Workers : Transferring(v)' <=> v = w
    BY <2>5, <2>6 DEF Transferring
  <2> QED BY <2>4, <2>5, <2>7 DEF TransferInv, Transferring, Creators
<1>11. ASSUME NEW w \in Workers, Demote(w) PROVE TransferInv'
  <2> SUFFICES ASSUME ~contested' PROVE TransferInv'
    BY DEF TransferInv
  <2>1. ~contested /\ pc[w] = "demote" /\ row' = SetRole(req[w].user, "member") /\ Finish(w)
    BY <1>11 DEF Demote, history
  <2>2. /\ req[w].user \in Users /\ req[w].heir \in Users /\ req[w].heir # req[w].user
        /\ Creators = {req[w].user, req[w].heir}
    BY <1>t, <2>1 DEF TransferInv, AllFit, Fits
  <2>3. Creators' = {req[w].heir}
    BY <1>t, <2>1, <2>2, RoleCreators DEF Role
  <2>4. /\ pc'[w] = "idle"
        /\ \A v \in Workers \ {w} : pc'[v] = pc[v] /\ req'[v] = req[v]
    BY <1>f, <2>1
  <2>5. \A v \in Workers : Transferring(v) <=> v = w
    BY <2>1 DEF TransferInv, Transferring
  <2>6. \A v \in Workers : ~Transferring(v)'
    BY <2>4, <2>5 DEF Transferring
  <2> QED BY <2>2, <2>3, <2>6 DEF TransferInv, Transferring, Creators
<1>12. ASSUME NEW w \in Workers, ArchiveCheck(w) PROVE TransferInv'
  <2>1. /\ pc'[w] = "archive"
        /\ \A v \in Workers \ {w} : pc'[v] = pc[v] /\ req'[v] = req[v]
    BY <1>t, <1>n, <1>12, Moved DEF ArchiveCheck, WorkersOK, Labels
  <2> QED BY <1>a, <1>12, <2>1 DEF ArchiveCheck, Idle, Transferring, Creators, data, history
<1>13. ASSUME NEW w \in Workers, Archive(w) PROVE TransferInv'
  BY <1>a, <1>f, <1>13 DEF Archive, Transferring, Creators, history
<1>14. ASSUME NEW w \in Workers, Crash(w) PROVE TransferInv'
  <2>1. CASE Transferring(w)
    BY <1>14, <2>1 DEF Crash, TransferInv
  <2>2. CASE ~Transferring(w)
    BY <1>a, <1>f, <1>14, <2>2 DEF Crash, Transferring, Creators, data
  <2> QED BY <2>1, <2>2
<1>15. ASSUME UNCHANGED <<row, pc, req, contested>> PROVE TransferInv'
  BY <1>15 DEF TransferInv, Transferring, Creators
<1>16. CASE (\E joinType \in {"open", "approval"} : UpdateSettings(joinType)) \/ UNCHANGED vars
  BY <1>15, <1>16 DEF UpdateSettings, vars, data, history
<1> QED BY <1>1, <1>2, <1>3, <1>4, <1>5, <1>6, <1>7, <1>8, <1>9, <1>10, <1>11, <1>12, <1>13,
           <1>14, <1>16, NextCases

-------------------------------------------------------------------------------
(* The creators are active, and whoever is promoted is. *)
CreatorsActive == ~contested => Creators \subseteq Active

(* A step that gives nobody the role and takes no creator's membership. *)
LEMMA ActiveFrame ==
  ASSUME CreatorsActive,
         ~contested' => ~contested /\ Creators' \subseteq Creators
                          /\ \A u \in Creators : row'[u].status = row[u].status
  PROVE  CreatorsActive'
  BY DEF CreatorsActive, Creators, Active

LEMMA CreatorsActiveStep == ASSUME TypeInv, CreatorsActive, [Next]_vars PROVE CreatorsActive'
<1>t. WorkersOK /\ RowsOK /\ AllFit /\ RowsBlank
  BY TypeInvParts
<1>1. ASSUME NEW w \in Workers, JoinInsert(w) \/ RequestInsert(w) PROVE CreatorsActive'
  <2>1. req[w].user \in Users /\ \E s \in Status : InsertMember(req[w].user, s)
    BY <1>t, <1>1 DEF JoinInsert, RequestInsert, AllFit, Fits, Status
  <2>2. Creators' = Creators /\ contested' = contested
    BY <1>t, <1>1, <2>1, InsertCreators DEF JoinInsert, RequestInsert, history
  <2>3. ASSUME NEW u \in Creators PROVE row'[u] = row[u]
    <3>1. Exists(u) /\ u \in Users
      BY <1>t DEF Creators, RowsBlank, NoRow
    <3> QED BY <1>t, <2>1, <3>1 DEF InsertMember, RowsOK
  <2> QED BY <2>2, <2>3, ActiveFrame
<1>2. ASSUME NEW w \in Workers, ApproveWrite(w) \/ BanWrite(w) \/ RemoveWrite(w)
      PROVE  CreatorsActive'
  <2>1. PICK s \in Status : WriteStatus(w, s)
    BY <1>2 DEF ApproveWrite, BanWrite, RemoveWrite, Status
  <2>2. req[w].user \in Users
    BY <1>t, <1>2 DEF ApproveWrite, BanWrite, RemoveWrite, AllFit, Fits
  <2>3. ~contested' => ~contested /\ Creators' = Creators
    BY <1>t, <2>1, <2>2, WriteCreators
  <2>4. ASSUME ~contested', NEW u \in Creators PROVE row'[u].status = "active"
    <3>1. u \in Users /\ row[u].status = "active" /\ row[u].role = "creator"
      BY <2>3, <2>4 DEF CreatorsActive, Creators, Active
    <3>2. u = req[w].user => s = "active"
      BY <2>1, <2>4, <3>1 DEF WriteStatus
    <3> QED BY <1>t, <2>1, <2>2, <3>1, <3>2 DEF WriteStatus, RowsOK, RowType
  <2> QED BY <2>3, <2>4 DEF CreatorsActive, Creators, Active
<1>3. ASSUME NEW w \in Workers, AssignWrite(w) PROVE CreatorsActive'
  <2>1. req[w].user \in Users /\ row' = SetRole(req[w].user, "leader")
        /\ (~contested' => ~contested)
    BY <1>t, <1>3 DEF AssignWrite, AllFit, Fits
  <2>2. Creators' \subseteq Creators /\ \A u \in Users : row'[u].status = row[u].status
    BY <1>t, <2>1, RoleCreators, RoleRows DEF Role
  <2> QED BY <2>1, <2>2, ActiveFrame DEF Creators
<1>4. ASSUME NEW w \in Workers, Demote(w) PROVE CreatorsActive'
  <2>1. req[w].user \in Users /\ row' = SetRole(req[w].user, "member") /\ contested' = contested
    BY <1>t, <1>4 DEF Demote, AllFit, Fits, history
  <2>2. Creators' \subseteq Creators /\ \A u \in Users : row'[u].status = row[u].status
    BY <1>t, <2>1, RoleCreators, RoleRows DEF Role
  <2> QED BY <2>1, <2>2, ActiveFrame DEF Creators
<1>5. ASSUME NEW w \in Workers, Promote(w) PROVE CreatorsActive'
  <2>1. /\ req[w].heir \in Users /\ row' = SetRole(req[w].heir, "creator")
        /\ ~contested' => ~contested /\ req[w].heir \in Active
    BY <1>t, <1>5 DEF Promote, AllFit, Fits
  <2>2. Creators' \subseteq Creators \cup {req[w].heir}
        /\ \A u \in Users : row'[u].status = row[u].status
    BY <1>t, <2>1, RoleCreators, RoleRows DEF Role
  <2> QED BY <2>1, <2>2 DEF CreatorsActive, Creators, Active
<1>6. ASSUME UNCHANGED row, ~contested' => ~contested PROVE CreatorsActive'
  BY <1>6, ActiveFrame DEF Creators
<1>7. ASSUME NEW w \in Workers, NEW u \in Users, TransferStart(w, u) PROVE CreatorsActive'
  BY <1>6, <1>7 DEF TransferStart, data
<1>8. ASSUME NEW w \in Workers, Crash(w) PROVE CreatorsActive'
  BY <1>6, <1>8 DEF Crash, data
<1>9. ASSUME NEW w \in Workers, NEW u \in Users,
             \/ JoinCheck(w, u) \/ RequestCheck(w, u) \/ ApproveCheck(w, u)
             \/ RejectCheck(w, u) \/ UnbanCheck(w, u) \/ BanCheck(w, u) \/ LeaveCheck(w, u)
             \/ AssignCheck(w, u)
      PROVE  CreatorsActive'
  BY <1>6, <1>9 DEF JoinCheck, RequestCheck, ApproveCheck, RejectCheck, UnbanCheck, BanCheck,
                    LeaveCheck, AssignCheck, data, history
<1>10. ASSUME NEW w \in Workers,
              \/ StatusRead(w) \/ StatusReadNothing(w)
              \/ TransferFind(w) \/ TransferToNobody(w) \/ ArchiveCheck(w) \/ Archive(w)
       PROVE  CreatorsActive'
  BY <1>6, <1>10 DEF StatusRead, StatusReadNothing, TransferFind, TransferToNobody, ArchiveCheck,
                     Archive, data, history
<1>11. CASE (\E joinType \in {"open", "approval"} : UpdateSettings(joinType)) \/ UNCHANGED vars
  BY <1>6, <1>11 DEF UpdateSettings, vars, data, history
<1> QED BY <1>1, <1>2, <1>3, <1>4, <1>5, <1>7, <1>8, <1>9, <1>10, <1>11, NextCases

(* A group has one creator, save between the two updates of a hand-over,   *)
(* and is never left without one who is an active member: no ban, leave or *)
(* removal takes the creator's membership, and a hand-over finds its heir  *)
(* still there, unless it met one of the changes that contest it.          *)
THEOREM OneOwner == Spec => []OneOwnerUnlessContested
<1>1. Init => TransferInv /\ CreatorsActive
  <2> SUFFICES ASSUME Init PROVE TransferInv /\ CreatorsActive
    OBVIOUS
  <2>1. Creators = {Creator} /\ Creator \in Users
    BY GroupConstants DEF Init, Creators, NoRow
  <2>2. Creators \subseteq Active
    BY GroupConstants DEF Init, Creators, Active, NoRow
  <2> QED BY <2>1, <2>2 DEF Init, TransferInv, Transferring, CreatorsActive
<1>2. TypeInv /\ TransferInv /\ CreatorsActive /\ [Next]_vars => TransferInv' /\ CreatorsActive'
  BY TransferStep, CreatorsActiveStep
<1>3. TransferInv /\ CreatorsActive => OneOwnerUnlessContested
  BY DEF TransferInv, CreatorsActive, OneOwnerUnlessContested
<1> QED BY <1>1, <1>2, <1>3, TypeStep, PTL DEF Spec

-------------------------------------------------------------------------------
(* What a write does to the set of active members: it concerns one user. *)
LEMMA WriteActive ==
  ASSUME RowsOK, NEW w \in Workers, NEW s \in Status, req[w].user \in Users, WriteStatus(w, s)
  PROVE  /\ s = "active" => Active' \in {Active, Active \cup {req[w].user}}
         /\ s # "active" => Active' = Active \ {req[w].user}
<1> DEFINE u == req[w].user
<1>1. CASE ~Exists(u)
  <2>1. row' = row /\ u \notin Active
    BY <1>1 DEF WriteStatus, Active, Exists
  <2> QED BY <2>1 DEF Active
<1>2. CASE Exists(u)
  <2>1. \A v \in Users : row'[v].status = IF v = u THEN s ELSE row[v].status
    BY <1>2 DEF WriteStatus, RowsOK, RowType, NoRow
  <2> QED BY <2>1 DEF Active
<1> QED BY <1>1, <1>2

LEMMA InsertActive ==
  ASSUME RowsOK, GroupOK, NEW u \in Users, NEW s \in Status \ {"none"}, InsertMember(u, s)
  PROVE  /\ Active' = IF ~Exists(u) /\ s = "active" THEN Active \cup {u} ELSE Active
         /\ group'.archived = group.archived
<1>1. CASE Exists(u)
  BY <1>1 DEF InsertMember, Active
<1>2. CASE ~Exists(u)
  <2>1. \A v \in Users : row'[v].status = IF v = u THEN s ELSE row[v].status
    BY <1>2 DEF InsertMember, RowsOK, RowType
  <2>2. u \notin Active /\ group'.archived = group.archived
    BY <1>2 DEF InsertMember, Active, Exists, GroupOK
  <2> QED BY <1>2, <2>1, <2>2 DEF Active
<1> QED BY <1>1, <1>2

(* What one step does to who is active and to archived. *)
Enrols(w) == pc[w] \in {"join_insert", "approve_write"} /\ req[w].user \in Users

LEMMA MembershipStep ==
  ASSUME TypeInv, [Next]_vars
  PROVE  \/ \E w \in Workers : Enrols(w) /\ Active' = Active \cup {req[w].user}
                                        /\ group'.archived = group.archived
         \/ \E u \in Users : Active' = Active \ {u} /\ group'.archived = group.archived
         \/ Active' = Active /\ group'.archived \in {group.archived, TRUE}
<1>t. WorkersOK /\ RowsOK /\ GroupOK /\ AllFit /\ RowsBlank
  BY TypeInvParts
<1> DEFINE Goal ==
         \/ \E w \in Workers : Enrols(w) /\ Active' = Active \cup {req[w].user}
                                        /\ group'.archived = group.archived
         \/ \E u \in Users : Active' = Active \ {u} /\ group'.archived = group.archived
         \/ Active' = Active /\ group'.archived \in {group.archived, TRUE}
<1>a. ASSUME UNCHANGED row, group'.archived \in {group.archived, TRUE} PROVE Goal
  BY <1>a DEF Active
<1>1. ASSUME NEW w \in Workers, JoinInsert(w) PROVE Goal
  <2>1. Enrols(w) /\ InsertMember(req[w].user, "active")
    BY <1>t, <1>1 DEF JoinInsert, Enrols, AllFit, Fits
  <2>2. /\ Active' \in {Active, Active \cup {req[w].user}}
        /\ group'.archived = group.archived
    BY <1>t, <2>1, InsertActive DEF Enrols, Status
  <2> QED BY <2>1, <2>2
<1>2. ASSUME NEW w \in Workers, RequestInsert(w) PROVE Goal
  <2>1. req[w].user \in Users /\ InsertMember(req[w].user, "pending")
    BY <1>t, <1>2 DEF RequestInsert, AllFit, Fits
  <2>2. Active' = Active /\ group'.archived = group.archived
    BY <1>t, <2>1, InsertActive DEF Status
  <2> QED BY <2>2
<1>3. ASSUME NEW w \in Workers, ApproveWrite(w) \/ BanWrite(w) \/ RemoveWrite(w) PROVE Goal
  <2>1. req[w].user \in Users
    BY <1>t, <1>3 DEF ApproveWrite, BanWrite, RemoveWrite, AllFit, Fits
  <2>2. group'.archived = group.archived
    BY <1>t, <1>3 DEF ApproveWrite, BanWrite, RemoveWrite, WriteStatus, GroupOK
  <2>3. CASE ApproveWrite(w)
    <3>1. Active' \in {Active, Active \cup {req[w].user}}
      BY <1>t, <2>1, <2>3, WriteActive DEF ApproveWrite, Status
    <3>2. Enrols(w)
      BY <2>1, <2>3 DEF ApproveWrite, Enrols
    <3> QED BY <2>2, <3>1, <3>2
  <2>4. CASE BanWrite(w) \/ RemoveWrite(w)
    <3>1. Active' = Active \ {req[w].user}
      BY <1>t, <2>1, <2>4, WriteActive DEF BanWrite, RemoveWrite, Status
    <3> QED BY <2>1, <2>2, <3>1
  <2> QED BY <1>3, <2>3, <2>4
<1>4. ASSUME NEW w \in Workers, AssignWrite(w) \/ Promote(w) \/ Demote(w) PROVE Goal
  <2>1. \E u \in Users, role \in Role : row' = SetRole(u, role)
    BY <1>t, <1>4 DEF AssignWrite, Promote, Demote, AllFit, Fits, Role
  <2>2. \A v \in Users : row'[v].status = row[v].status
    BY <1>t, <2>1, RoleRows
  <2>3. UNCHANGED group
    BY <1>4 DEF AssignWrite, Promote, Demote
  <2> QED BY <2>2, <2>3 DEF Active
<1>5. ASSUME NEW w \in Workers, Archive(w) PROVE Goal
  <2>1. UNCHANGED row /\ group'.archived = TRUE
    BY <1>t, <1>5 DEF Archive, GroupOK
  <2> QED BY <1>a, <2>1
<1>6. ASSUME NEW joinType \in {"open", "approval"}, UpdateSettings(joinType) PROVE Goal
  <2>1. UNCHANGED row /\ group'.archived = group.archived
    BY <1>t, <1>6 DEF UpdateSettings, GroupOK
  <2> QED BY <1>a, <2>1
<1>7. CASE \/ \E w \in Workers, u \in Users :
                \/ JoinCheck(w, u) \/ RequestCheck(w, u) \/ ApproveCheck(w, u)
                \/ RejectCheck(w, u) \/ UnbanCheck(w, u) \/ BanCheck(w, u) \/ LeaveCheck(w, u)
                \/ AssignCheck(w, u) \/ TransferStart(w, u)
           \/ \E w \in Workers : \/ StatusRead(w) \/ StatusReadNothing(w) \/ TransferFind(w)
                                 \/ TransferToNobody(w) \/ ArchiveCheck(w) \/ Crash(w)
           \/ UNCHANGED vars
  <2>1. UNCHANGED data
    BY <1>7 DEF JoinCheck, RequestCheck, ApproveCheck, RejectCheck, UnbanCheck, BanCheck,
                LeaveCheck, AssignCheck, TransferStart, StatusRead, StatusReadNothing,
                TransferFind, TransferToNobody, ArchiveCheck, Crash, vars
  <2> QED BY <1>a, <2>1 DEF data
<1> QED BY <1>1, <1>2, <1>3, <1>4, <1>5, <1>6, <1>7, NextCases

(* Nobody becomes an active member but by the insert of joining an open    *)
(* group or the update of an approval, and it is the user whom the request *)
(* goes on to enrol in the channels: no role change, hand-over, ban,       *)
(* removal or stale write makes anybody active.                            *)
THEOREM ActivatedOnlyByEnrollers == Spec => ActivatedByEnrollers
<1>1. ASSUME TypeInv, [Next]_vars
      PROVE  \A u \in Users : row'[u].status = "active" /\ row[u].status # "active" =>
               \E w \in Workers : pc[w] \in {"join_insert", "approve_write"} /\ req[w].user = u
  <2> SUFFICES ASSUME NEW u \in Users, u \in Active', u \notin Active
               PROVE  \E w \in Workers : pc[w] \in {"join_insert", "approve_write"} /\ req[w].user = u
    BY DEF Active
  <2>1. PICK w \in Workers : Enrols(w) /\ Active' = Active \cup {req[w].user}
    BY <1>1, MembershipStep
  <2> QED BY <2>1 DEF Enrols
<1> QED BY <1>1, TypeStep, PTL DEF Spec, ActivatedByEnrollers

(* Groups keeps the promise GroupChannels builds on: memberships start and *)
(* end one user at a time, an archived group stays archived, and no        *)
(* interleaving of requests, hand-overs and crashes does anything else.    *)
THEOREM MembershipRefinement == Spec => ImplementsMembership
<1>1. Init => Members!Init
  BY GroupConstants DEF Init, Members!Init, Active, NoRow
<1>2. ASSUME TypeInv, [Next]_vars PROVE [Members!Next]_(Members!vars)
  <2>t. group.archived \in BOOLEAN /\ Active \subseteq Users
    BY <1>2, TypeInvParts DEF GroupOK, Active
  <2>1. ASSUME NEW w \in Workers, Enrols(w), Active' = Active \cup {req[w].user},
               group'.archived = group.archived
        PROVE  [Members!Next]_(Members!vars)
    BY <2>1 DEF Enrols, Members!Next, Members!Activate, Members!vars
  <2>2. ASSUME NEW u \in Users, Active' = Active \ {u}, group'.archived = group.archived
        PROVE  [Members!Next]_(Members!vars)
    BY <2>2 DEF Members!Next, Members!Deactivate, Members!vars
  <2>3. CASE Active' = Active /\ group'.archived \in {group.archived, TRUE}
    BY <2>t, <2>3 DEF Members!Next, Members!Archive, Members!vars
  <2> QED BY <1>2, <2>1, <2>2, <2>3, MembershipStep
<1> QED BY <1>1, <1>2, TypeStep, PTL DEF Spec, ImplementsMembership, Members!Spec
===============================================================================
