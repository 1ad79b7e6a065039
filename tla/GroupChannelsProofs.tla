--------------------------- MODULE GroupChannelsProofs ---------------------------
(***************************************************************************)
(* Proofs about GroupChannels for any users, channels and number of        *)
(* requests in progress.                                                   *)
(***************************************************************************)
EXTENDS GroupChannels, TLAPS

ReqType == [user : Users \cup {Nobody}, chan : Channels,
            convs : SUBSET Channels, users : SUBSET Users]

LEMMA NextCases ==
  ASSUME [Next]_vars
  PROVE  \/ \E w \in Workers, u \in Users : Activate(w, u) \/ ActivateNothing(w, u)
         \/ \E w \in Workers, c \in Channels : CreateRow(w, c) \/ DeleteCheck(w, c)
         \/ \E w \in Workers : EnrolList(w) \/ EnrolAdd(w)
         \/ \E w \in Workers : CreateConv(w) \/ CreateConvRefused(w) \/ CreateList(w)
                                 \/ CreateAdd(w)
         \/ \E w \in Workers : DeleteFreeze(w) \/ DeleteRow(w)
         \/ \E w \in Workers : ArchiveCheck(w) \/ ArchiveMark(w) \/ ArchiveList(w)
                                 \/ ArchiveFreeze(w)
         \/ \E w \in Workers : Crash(w)
         \/ \E u \in Users : Deactivate(u)
         \/ UNCHANGED vars
  BY DEF Next

(* A worker moves on with r, and the others stay. *)
LEMMA Moved ==
  ASSUME req \in [Workers -> ReqType], pc \in [Workers -> Labels],
         NEW w \in Workers, NEW label \in Labels, NEW r \in ReqType, Start(w, label, r)
  PROVE  /\ req' \in [Workers -> ReqType] /\ pc' \in [Workers -> Labels]
         /\ pc'[w] = label /\ req'[w] = r
         /\ \A v \in Workers \ {w} : pc'[v] = pc[v] /\ req'[v] = req[v]
  BY DEF Start

LEMMA MovedOn ==
  ASSUME req \in [Workers -> ReqType], pc \in [Workers -> Labels],
         NEW w \in Workers, NEW label \in Labels, Goto(w, label)
  PROVE  /\ req' \in [Workers -> ReqType] /\ pc' \in [Workers -> Labels]
         /\ pc'[w] = label /\ req' = req
         /\ \A v \in Workers \ {w} : pc'[v] = pc[v]
  BY DEF Goto

LEMMA Requests ==
  /\ NoRequest \in ReqType
  /\ \A u \in Users : [NoRequest EXCEPT !.user = u] \in ReqType
                      /\ [NoRequest EXCEPT !.user = u].user = u
  /\ \A c \in Channels : [NoRequest EXCEPT !.chan = c] \in ReqType
                         /\ [NoRequest EXCEPT !.chan = c].chan = c
  /\ \A r \in ReqType, convs \in SUBSET Channels :
       /\ [r EXCEPT !.convs = convs] \in ReqType
       /\ [r EXCEPT !.convs = convs].convs = convs
       /\ [r EXCEPT !.convs = convs].user = r.user
  /\ \A r \in ReqType, users \in SUBSET Users :
       /\ [r EXCEPT !.users = users] \in ReqType
       /\ [r EXCEPT !.users = users].users = users
       /\ [r EXCEPT !.users = users].chan = r.chan
  BY ChannelConstants DEF NoRequest, ReqType

-------------------------------------------------------------------------------
WorkersOK == req \in [Workers -> ReqType] /\ pc \in [Workers -> Labels]
DataOK ==
  /\ active \subseteq Users
  /\ archived \in BOOLEAN
  /\ chan \in [Channels -> {"none", "row", "live", "frozen", "gone"}]
  /\ cut \subseteq Users \cup Channels
  /\ thawed \subseteq Channels
EnrolledOK == enrolled \in [Channels -> SUBSET Users]

(* A request about to enrol a user has one. *)
EnrolsSomebody ==
  \A w \in Workers : pc[w] \in {"enrol_list", "enrol_add"} => req[w].user \in Users

TypeInv == TypeOK /\ EnrolsSomebody

LEMMA TypeParts == TypeOK <=> WorkersOK /\ DataOK /\ EnrolledOK
  BY DEF TypeOK, WorkersOK, DataOK, EnrolledOK, ReqType

LEMMA InitType == Init => TypeInv
<1> SUFFICES ASSUME Init PROVE WorkersOK /\ DataOK /\ EnrolledOK /\ EnrolsSomebody
  BY TypeParts DEF TypeInv
<1>1. WorkersOK /\ EnrolsSomebody
  BY Requests DEF Init, WorkersOK, EnrolsSomebody, Labels
<1>2. DataOK /\ EnrolledOK
  BY ChannelConstants DEF Init, DataOK, EnrolledOK
<1> QED BY <1>1, <1>2

LEMMA NextType == ASSUME TypeInv, [Next]_vars PROVE TypeInv'
<1> SUFFICES WorkersOK' /\ DataOK' /\ EnrolledOK' /\ EnrolsSomebody'
  BY TypeParts DEF TypeInv, TypeOK, WorkersOK, DataOK, EnrolledOK, ReqType
<1>t. WorkersOK /\ DataOK /\ EnrolledOK /\ EnrolsSomebody
  BY TypeParts DEF TypeInv
<1>a. ASSUME NEW w \in Workers, NEW label \in Labels, NEW r \in ReqType, Start(w, label, r),
             label \in {"enrol_list", "enrol_add"} => r.user \in Users
      PROVE  WorkersOK' /\ EnrolsSomebody'
  BY <1>t, <1>a, Moved DEF WorkersOK, EnrolsSomebody
<1>b. ASSUME NEW w \in Workers, NEW label \in Labels \ {"enrol_list", "enrol_add"},
             Goto(w, label)
      PROVE  WorkersOK' /\ EnrolsSomebody'
  BY <1>t, <1>b, MovedOn DEF WorkersOK, EnrolsSomebody
<1>c. ASSUME NEW w \in Workers, Finish(w) PROVE WorkersOK' /\ EnrolsSomebody'
  BY <1>a, <1>c, Requests DEF Finish, Labels
<1>1. ASSUME NEW w \in Workers, NEW u \in Users, Activate(w, u) \/ ActivateNothing(w, u)
      PROVE  WorkersOK' /\ DataOK' /\ EnrolledOK' /\ EnrolsSomebody'
  <2>1. Start(w, "enrol_list", [NoRequest EXCEPT !.user = u])
    BY <1>1 DEF Activate, ActivateNothing
  <2>2. WorkersOK' /\ EnrolsSomebody'
    BY <1>a, <2>1, Requests DEF Labels
  <2> QED BY <1>t, <1>1, <2>2 DEF Activate, ActivateNothing, DataOK, EnrolledOK, data, history
<1>2. ASSUME NEW w \in Workers, NEW c \in Channels, CreateRow(w, c) \/ DeleteCheck(w, c)
      PROVE  WorkersOK' /\ DataOK' /\ EnrolledOK' /\ EnrolsSomebody'
  <2>1. \E label \in Labels \ {"enrol_list", "enrol_add"} :
          Start(w, label, [NoRequest EXCEPT !.chan = c])
    BY <1>2 DEF CreateRow, DeleteCheck, Labels
  <2>2. WorkersOK' /\ EnrolsSomebody'
    BY <1>a, <2>1, Requests
  <2> QED BY <1>t, <1>2, <2>2 DEF CreateRow, DeleteCheck, DataOK, EnrolledOK, data, history
<1>3. ASSUME NEW w \in Workers, EnrolList(w)
      PROVE  WorkersOK' /\ DataOK' /\ EnrolledOK' /\ EnrolsSomebody'
  <2>1. Live \in SUBSET Channels /\ req[w] \in ReqType /\ req[w].user \in Users
    BY <1>t, <1>3 DEF Live, WorkersOK, EnrolList, EnrolsSomebody
  <2>2. WorkersOK' /\ EnrolsSomebody'
    BY <1>a, <1>3, <2>1, Requests DEF EnrolList, Labels
  <2> QED BY <1>t, <1>3, <2>2 DEF EnrolList, DataOK, EnrolledOK, data, history
<1>4. ASSUME NEW w \in Workers, EnrolAdd(w)
      PROVE  WorkersOK' /\ DataOK' /\ EnrolledOK' /\ EnrolsSomebody'
  <2>1. req[w].user \in Users
    BY <1>t, <1>4 DEF EnrolAdd, EnrolsSomebody
  <2> QED BY <1>t, <1>c, <1>4, <2>1 DEF EnrolAdd, DataOK, EnrolledOK, history
<1>5. ASSUME NEW w \in Workers, CreateConv(w)
      PROVE  WorkersOK' /\ DataOK' /\ EnrolledOK' /\ EnrolsSomebody'
  <2>1. req[w].chan \in Channels
    BY <1>t DEF WorkersOK, ReqType
  <2>2. WorkersOK' /\ EnrolsSomebody'
    BY <1>b, <1>5 DEF CreateConv, Labels
  <2> QED BY <1>t, <1>5, <2>1, <2>2 DEF CreateConv, DataOK, EnrolledOK
<1>6. ASSUME NEW w \in Workers, CreateConvRefused(w)
      PROVE  WorkersOK' /\ DataOK' /\ EnrolledOK' /\ EnrolsSomebody'
  BY <1>t, <1>c, <1>6 DEF CreateConvRefused, DataOK, EnrolledOK, data, history
<1>7. ASSUME NEW w \in Workers, CreateList(w)
      PROVE  WorkersOK' /\ DataOK' /\ EnrolledOK' /\ EnrolsSomebody'
  <2>1. active \in SUBSET Users /\ req[w] \in ReqType
    BY <1>t DEF DataOK, WorkersOK
  <2>2. WorkersOK' /\ EnrolsSomebody'
    BY <1>a, <1>7, <2>1, Requests DEF CreateList, Labels
  <2> QED BY <1>t, <1>7, <2>2 DEF CreateList, DataOK, EnrolledOK, data, history
<1>8. ASSUME NEW w \in Workers, CreateAdd(w)
      PROVE  WorkersOK' /\ DataOK' /\ EnrolledOK' /\ EnrolsSomebody'
  <2>1. req[w].users \in SUBSET Users /\ req[w].chan \in Channels
    BY <1>t DEF WorkersOK, ReqType
  <2> QED BY <1>t, <1>c, <1>8, <2>1 DEF CreateAdd, DataOK, EnrolledOK, history
<1>9. ASSUME NEW w \in Workers, DeleteFreeze(w) \/ DeleteRow(w)
      PROVE  WorkersOK' /\ DataOK' /\ EnrolledOK' /\ EnrolsSomebody'
  <2>1. req[w].chan \in Channels
    BY <1>t DEF WorkersOK, ReqType
  <2>2. WorkersOK' /\ EnrolsSomebody'
    BY <1>b, <1>c, <1>9 DEF DeleteFreeze, DeleteRow, Labels
  <2> QED BY <1>t, <1>9, <2>1, <2>2 DEF DeleteFreeze, DeleteRow, DataOK, EnrolledOK, history
<1>10. ASSUME NEW w \in Workers, ArchiveCheck(w) \/ ArchiveMark(w)
       PROVE  WorkersOK' /\ DataOK' /\ EnrolledOK' /\ EnrolsSomebody'
  <2>1. WorkersOK' /\ EnrolsSomebody'
    BY <1>a, <1>b, <1>10, Requests DEF ArchiveCheck, ArchiveMark, Labels
  <2> QED BY <1>t, <1>10, <2>1 DEF ArchiveCheck, ArchiveMark, DataOK, EnrolledOK, data, history
<1>11. ASSUME NEW w \in Workers, ArchiveList(w)
       PROVE  WorkersOK' /\ DataOK' /\ EnrolledOK' /\ EnrolsSomebody'
  <2>1. Live \in SUBSET Channels /\ req[w] \in ReqType
    BY <1>t DEF Live, WorkersOK
  <2>2. WorkersOK' /\ EnrolsSomebody'
    BY <1>a, <1>11, <2>1, Requests DEF ArchiveList, Labels
  <2> QED BY <1>t, <1>11, <2>2 DEF ArchiveList, DataOK, EnrolledOK, data, history
<1>12. ASSUME NEW w \in Workers, ArchiveFreeze(w)
       PROVE  WorkersOK' /\ DataOK' /\ EnrolledOK' /\ EnrolsSomebody'
  BY <1>t, <1>c, <1>12 DEF ArchiveFreeze, DataOK, EnrolledOK, history
<1>13. ASSUME NEW w \in Workers, Crash(w)
       PROVE  WorkersOK' /\ DataOK' /\ EnrolledOK' /\ EnrolsSomebody'
  <2>1. /\ pc[w] \in {"enrol_list", "enrol_add"} => req[w].user \in Users
        /\ req[w].chan \in Channels
    BY <1>t DEF WorkersOK, ReqType, EnrolsSomebody
  <2>2. cut' \subseteq Users \cup Channels /\ thawed' \subseteq Channels
    BY <1>t, <1>13, <2>1 DEF Crash, DataOK
  <2> QED BY <1>t, <1>c, <1>13, <2>2 DEF Crash, DataOK, EnrolledOK, data
<1>14. ASSUME NEW u \in Users, Deactivate(u)
       PROVE  WorkersOK' /\ DataOK' /\ EnrolledOK' /\ EnrolsSomebody'
  BY <1>t, <1>14 DEF Deactivate, WorkersOK, DataOK, EnrolledOK, EnrolsSomebody, history
<1>15. CASE UNCHANGED vars
  BY <1>t, <1>15 DEF vars, data, history, WorkersOK, DataOK, EnrolledOK, EnrolsSomebody
<1> QED BY <1>1, <1>2, <1>3, <1>4, <1>5, <1>6, <1>7, <1>8, <1>9, <1>10, <1>11, <1>12, <1>13,
           <1>14, <1>15, NextCases

LEMMA TypeStep == Spec => []TypeInv
<1>1. TypeInv /\ [Next]_vars => TypeInv'
  BY NextType
<1> QED BY <1>1, InitType, PTL DEF Spec

(* Every reachable state has values of the right kind. *)
THEOREM TypeCorrect == Spec => []TypeOK
<1>1. TypeInv => TypeOK
  BY DEF TypeInv
<1> QED BY <1>1, TypeStep, PTL

-------------------------------------------------------------------------------
(* Whoever is active is covered in every live channel. *)
Covered(u, c) ==
  u \in enrolled[c] \/ u \in cut \/ c \in cut \/ \E w \in Workers : WillEnrol(w, u, c)

LEMMA CoveredAll == EnrolmentComplete <=> \A u \in active : \A c \in Live : Covered(u, c)
  BY DEF EnrolmentComplete, Covered

(* A step after which nobody is newly active, no channel newly live and    *)
(* nobody less covered.                                                    *)
LEMMA CoveredFrame ==
  ASSUME EnrolmentComplete, active' \subseteq active, Live' \subseteq Live,
         \A c \in Live : enrolled[c] \subseteq enrolled'[c],
         cut \subseteq cut',
         \A w \in Workers, u \in active, c \in Live : WillEnrol(w, u, c) => Covered(u, c)'
  PROVE  EnrolmentComplete'
<1> SUFFICES ASSUME NEW u \in active', NEW c \in Live' PROVE Covered(u, c)'
  BY DEF EnrolmentComplete, Covered
<1>1. u \in active /\ c \in Live /\ Covered(u, c)
  BY CoveredAll
<1> QED BY <1>1 DEF Covered

LEMMA EnrolmentStep ==
  ASSUME TypeInv, EnrolmentComplete, [Next]_vars
  PROVE  EnrolmentComplete'
<1>t. WorkersOK /\ DataOK /\ EnrolledOK /\ EnrolsSomebody
  BY TypeParts DEF TypeInv
<1>l. \A c \in Live : c \in Channels
  BY DEF Live
<1>n. NoRequest \in ReqType
  BY Requests
(* The step of a worker that was to enrol nobody. *)
<1>a. ASSUME NEW w \in Workers, \A u, c : ~WillEnrol(w, u, c),
             \A v \in Workers \ {w} : pc'[v] = pc[v] /\ req'[v] = req[v],
             active' \subseteq active, Live' \subseteq Live, UNCHANGED enrolled, cut \subseteq cut'
      PROVE  EnrolmentComplete'
  <2>1. \A v \in Workers, u \in active, c \in Live : WillEnrol(v, u, c) => Covered(u, c)'
    BY <1>a DEF WillEnrol, Covered
  <2> QED BY <1>a, <2>1, CoveredFrame
<1>1. ASSUME NEW w \in Workers, NEW u \in Users, Activate(w, u) \/ ActivateNothing(w, u)
      PROVE  EnrolmentComplete'
  <2> DEFINE r == [NoRequest EXCEPT !.user = u]
  <2>1. Start(w, "enrol_list", r) /\ r \in ReqType /\ r.user = u
    BY <1>1, Requests DEF Activate, ActivateNothing
  <2>2. /\ active' \subseteq active \cup {u} /\ Live' = Live
        /\ UNCHANGED <<enrolled, cut>> /\ pc[w] = "idle"
    BY <1>1 DEF Activate, ActivateNothing, Idle, Live, data, history
  <2> HIDE DEF r
  <2>3. /\ pc'[w] = "enrol_list" /\ req'[w] = r
        /\ \A v \in Workers \ {w} : pc'[v] = pc[v] /\ req'[v] = req[v]
    BY <1>t, <2>1, Moved DEF WorkersOK, Labels
  <2>4. ASSUME NEW x \in active', NEW c \in Live' PROVE Covered(x, c)'
    <3>1. CASE x = u
      BY <2>1, <2>3, <3>1 DEF Covered, WillEnrol
    <3>2. CASE x # u
      <4>1. Covered(x, c)
        BY <2>2, <3>2, CoveredAll
      <4> QED BY <2>2, <2>3, <4>1 DEF Covered, WillEnrol
    <3> QED BY <3>1, <3>2
  <2> QED BY <2>4 DEF EnrolmentComplete, Covered
<1>2. ASSUME NEW w \in Workers, NEW c \in Channels, CreateRow(w, c) \/ DeleteCheck(w, c)
      PROVE  EnrolmentComplete'
  <2>1. \E label \in Labels : Start(w, label, [NoRequest EXCEPT !.chan = c])
    BY <1>2 DEF CreateRow, DeleteCheck, Labels
  <2>2. \A v \in Workers \ {w} : pc'[v] = pc[v] /\ req'[v] = req[v]
    BY <1>t, <2>1, Requests, Moved DEF WorkersOK
  <2>3. Live' \subseteq Live
    BY <1>t, <1>2 DEF CreateRow, DeleteCheck, Live, DataOK, data
  <2> QED BY <1>a, <1>2, <2>2, <2>3 DEF CreateRow, DeleteCheck, Idle, WillEnrol, data, history
<1>3. ASSUME NEW w \in Workers, EnrolList(w) PROVE EnrolmentComplete'
  <2> DEFINE r == [req[w] EXCEPT !.convs = Live]
  <2>1. Live \in SUBSET Channels /\ req[w] \in ReqType
    BY <1>t DEF Live, WorkersOK
  <2>2. r \in ReqType /\ r.convs = Live /\ r.user = req[w].user
    BY <2>1, Requests
  <2>3. Start(w, "enrol_add", r) /\ pc[w] = "enrol_list" /\ UNCHANGED <<active, Live, enrolled, cut>>
    BY <1>3 DEF EnrolList, Live, data, history
  <2> HIDE DEF r
  <2>4. /\ pc'[w] = "enrol_add" /\ req'[w] = r
        /\ \A v \in Workers \ {w} : pc'[v] = pc[v] /\ req'[v] = req[v]
    BY <1>t, <2>2, <2>3, Moved DEF WorkersOK, Labels
  <2>5. \A v \in Workers, u \in active, c \in Live : WillEnrol(v, u, c) => WillEnrol(v, u, c)'
    BY <2>2, <2>3, <2>4 DEF WillEnrol
  <2> QED BY <2>3, <2>5, CoveredFrame DEF Covered
<1>4. ASSUME NEW w \in Workers, EnrolAdd(w) PROVE EnrolmentComplete'
  <2>1. /\ \A v \in Workers \ {w} : pc'[v] = pc[v] /\ req'[v] = req[v]
        /\ UNCHANGED <<active, Live, cut>>
        /\ pc[w] = "enrol_add"
    BY <1>t, <1>n, <1>4, Moved DEF EnrolAdd, Finish, WorkersOK, Labels, Live, history
  <2>2. \A c \in Channels : /\ enrolled[c] \subseteq enrolled'[c]
                            /\ c \in req[w].convs => req[w].user \in enrolled'[c]
    BY <1>4 DEF EnrolAdd
  <2>3. \A v \in Workers, u \in active, c \in Live : WillEnrol(v, u, c) => Covered(u, c)'
    BY <1>l, <2>1, <2>2 DEF WillEnrol, Covered
  <2> QED BY <1>l, <2>1, <2>2, <2>3, CoveredFrame
<1>5. ASSUME NEW w \in Workers, CreateConv(w) PROVE EnrolmentComplete'
  <2>1. /\ pc'[w] = "create_list" /\ req' = req
        /\ \A v \in Workers \ {w} : pc'[v] = pc[v]
    BY <1>t, <1>5, MovedOn DEF CreateConv, WorkersOK, Labels
  <2>2. /\ Live' \subseteq Live \cup {req[w].chan} /\ pc[w] = "create_conv"
        /\ UNCHANGED <<active, enrolled, cut>>
    BY <1>t, <1>5 DEF CreateConv, Live, DataOK
  <2>3. ASSUME NEW x \in active', NEW c \in Live' PROVE Covered(x, c)'
    <3>1. CASE c = req[w].chan
      BY <2>1, <3>1 DEF Covered, WillEnrol
    <3>2. CASE c # req[w].chan
      <4>1. Covered(x, c)
        BY <2>2, <3>2, CoveredAll
      <4> QED BY <2>1, <2>2, <4>1 DEF Covered, WillEnrol
    <3> QED BY <3>1, <3>2
  <2> QED BY <2>3 DEF EnrolmentComplete, Covered
<1>6. ASSUME NEW w \in Workers, CreateConvRefused(w) PROVE EnrolmentComplete'
  <2>1. \A v \in Workers \ {w} : pc'[v] = pc[v] /\ req'[v] = req[v]
    BY <1>t, <1>n, <1>6, Moved DEF CreateConvRefused, Finish, WorkersOK, Labels
  <2> QED BY <1>a, <1>6, <2>1 DEF CreateConvRefused, WillEnrol, Live, data, history
<1>7. ASSUME NEW w \in Workers, CreateList(w) PROVE EnrolmentComplete'
  <2> DEFINE r == [req[w] EXCEPT !.users = active]
  <2>1. active \in SUBSET Users /\ req[w] \in ReqType
    BY <1>t DEF DataOK, WorkersOK
  <2>2. r \in ReqType /\ r.users = active /\ r.chan = req[w].chan
    BY <2>1, Requests
  <2>3. Start(w, "create_add", r) /\ pc[w] = "create_list" /\ UNCHANGED <<active, Live, enrolled, cut>>
    BY <1>7 DEF CreateList, Live, data, history
  <2> HIDE DEF r
  <2>4. /\ pc'[w] = "create_add" /\ req'[w] = r
        /\ \A v \in Workers \ {w} : pc'[v] = pc[v] /\ req'[v] = req[v]
    BY <1>t, <2>2, <2>3, Moved DEF WorkersOK, Labels
  <2>5. \A v \in Workers, u \in active, c \in Live : WillEnrol(v, u, c) => WillEnrol(v, u, c)'
    BY <2>2, <2>3, <2>4 DEF WillEnrol
  <2> QED BY <2>3, <2>5, CoveredFrame DEF Covered
<1>8. ASSUME NEW w \in Workers, CreateAdd(w) PROVE EnrolmentComplete'
  <2>1. /\ \A v \in Workers \ {w} : pc'[v] = pc[v] /\ req'[v] = req[v]
        /\ UNCHANGED <<active, Live, cut>>
        /\ pc[w] = "create_add"
    BY <1>t, <1>n, <1>8, Moved DEF CreateAdd, Finish, WorkersOK, Labels, Live, history
  <2>2. \A c \in Channels : /\ enrolled[c] \subseteq enrolled'[c]
                            /\ c = req[w].chan => req[w].users \subseteq enrolled'[c]
    BY <1>t, <1>8 DEF CreateAdd, EnrolledOK
  <2>3. \A v \in Workers, u \in active, c \in Live : WillEnrol(v, u, c) => Covered(u, c)'
    BY <1>l, <2>1, <2>2 DEF WillEnrol, Covered
  <2> QED BY <1>l, <2>1, <2>2, <2>3, CoveredFrame
<1>9. ASSUME NEW w \in Workers, DeleteFreeze(w) \/ DeleteRow(w) PROVE EnrolmentComplete'
  <2>1. \A v \in Workers \ {w} : pc'[v] = pc[v] /\ req'[v] = req[v]
    BY <1>t, <1>n, <1>9, Moved, MovedOn DEF DeleteFreeze, DeleteRow, Finish, WorkersOK, Labels
  <2>2. Live' \subseteq Live
    BY <1>t, <1>9 DEF DeleteFreeze, DeleteRow, Live, DataOK
  <2> QED BY <1>a, <1>9, <2>1, <2>2 DEF DeleteFreeze, DeleteRow, WillEnrol, history
<1>10. ASSUME NEW w \in Workers, ArchiveCheck(w) \/ ArchiveMark(w) PROVE EnrolmentComplete'
  <2>1. \A v \in Workers \ {w} : pc'[v] = pc[v] /\ req'[v] = req[v]
    BY <1>t, <1>n, <1>10, Moved, MovedOn DEF ArchiveCheck, ArchiveMark, WorkersOK, Labels
  <2> QED BY <1>a, <1>10, <2>1 DEF ArchiveCheck, ArchiveMark, Idle, WillEnrol, Live, data, history
<1>11. ASSUME NEW w \in Workers, ArchiveList(w) \/ ArchiveFreeze(w) PROVE EnrolmentComplete'
  <2>0. Live \in SUBSET Channels /\ req[w] \in ReqType
    BY <1>t DEF Live, WorkersOK
  <2>1. \A v \in Workers \ {w} : pc'[v] = pc[v] /\ req'[v] = req[v]
    BY <1>t, <1>n, <1>11, <2>0, Moved, Requests
       DEF ArchiveList, ArchiveFreeze, Finish, WorkersOK, Labels
  <2>2. Live' \subseteq Live
    BY <1>t, <1>11 DEF ArchiveList, ArchiveFreeze, Live, DataOK, data
  <2> QED BY <1>a, <1>11, <2>1, <2>2 DEF ArchiveList, ArchiveFreeze, WillEnrol, data, history
<1>12. ASSUME NEW w \in Workers, Crash(w) PROVE EnrolmentComplete'
  <2>1. /\ \A v \in Workers \ {w} : pc'[v] = pc[v] /\ req'[v] = req[v]
        /\ UNCHANGED <<active, Live, enrolled>> /\ cut \subseteq cut'
    BY <1>t, <1>n, <1>12, Moved DEF Crash, Finish, WorkersOK, Labels, Live, data
  <2>2. \A u, c : WillEnrol(w, u, c) => u \in cut' \/ c \in cut'
    BY <1>12 DEF Crash, WillEnrol
  <2>3. \A v \in Workers, u \in active, c \in Live : WillEnrol(v, u, c) => Covered(u, c)'
    BY <2>1, <2>2 DEF WillEnrol, Covered
  <2> QED BY <2>1, <2>3, CoveredFrame
<1>13. ASSUME NEW u \in Users, Deactivate(u) PROVE EnrolmentComplete'
  BY <1>13, CoveredFrame DEF Deactivate, Live, Covered, WillEnrol, history
<1>14. CASE UNCHANGED vars
  BY <1>14 DEF vars, data, history, EnrolmentComplete, Live, WillEnrol
<1> QED BY <1>1, <1>2, <1>3, <1>4, <1>5, <1>6, <1>7, <1>8, <1>9, <1>10, <1>11, <1>12, <1>13,
           <1>14, NextCases

(* Nobody slips between joining and a channel's creation, for any number   *)
(* of requests that overlap: an active member is in every live channel's   *)
(* conversation, on the way there, or was cut off by a crash.              *)
THEOREM EnrolmentNeverMissed == Spec => []EnrolmentComplete
<1>1. Init => EnrolmentComplete
  BY DEF Init, EnrolmentComplete, Live
<1>2. TypeInv /\ EnrolmentComplete /\ [Next]_vars => EnrolmentComplete'
  BY EnrolmentStep
<1> QED BY <1>1, <1>2, TypeStep, PTL DEF Spec

-------------------------------------------------------------------------------
(* A live conversation of an archived group was created after it was       *)
(* archived, or an archiving that is under way will still freeze it.       *)
WillFreeze(w, c) ==
  pc[w] = "archive_list" \/ (pc[w] = "archive_freeze" /\ c \in req[w].convs)
ArchiveInv ==
  archived => \A c \in Live : c \in thawed \/ \E w \in Workers : WillFreeze(w, c)

LEMMA ArchiveStep == ASSUME TypeInv, ArchiveInv, [Next]_vars PROVE ArchiveInv'
<1>t. WorkersOK /\ DataOK
  BY TypeParts DEF TypeInv
<1>n. NoRequest \in ReqType
  BY Requests
<1>l. Live \in SUBSET Channels
  BY DEF Live
(* The step of a worker that is not archiving. *)
<1>a. ASSUME NEW w \in Workers, \A c : ~WillFreeze(w, c),
             \A v \in Workers \ {w} : pc'[v] = pc[v] /\ req'[v] = req[v],
             archived' => archived, Live' \subseteq Live \cup thawed', thawed \subseteq thawed'
      PROVE  ArchiveInv'
  <2> SUFFICES ASSUME archived', NEW c \in Live', c \notin thawed'
               PROVE  \E v \in Workers : WillFreeze(v, c)'
    BY DEF ArchiveInv, WillFreeze
  <2>1. archived /\ c \in Live /\ c \notin thawed
    BY <1>a
  <2>2. PICK v \in Workers : WillFreeze(v, c)
    BY <2>1 DEF ArchiveInv
  <2>3. WillFreeze(v, c)'
    BY <1>a, <2>2 DEF WillFreeze
  <2> QED BY <2>3
<1>1. ASSUME NEW w \in Workers, NEW u \in Users, Activate(w, u) \/ ActivateNothing(w, u)
      PROVE  ArchiveInv'
  <2>1. \A v \in Workers \ {w} : pc'[v] = pc[v] /\ req'[v] = req[v]
    BY <1>t, <1>1, Requests, Moved DEF Activate, ActivateNothing, WorkersOK, Labels
  <2> QED BY <1>a, <1>1, <2>1 DEF Activate, ActivateNothing, Idle, WillFreeze, Live, data, history
<1>2. ASSUME NEW w \in Workers, NEW c \in Channels, CreateRow(w, c) \/ DeleteCheck(w, c)
      PROVE  ArchiveInv'
  <2>1. \E label \in Labels : Start(w, label, [NoRequest EXCEPT !.chan = c])
    BY <1>2 DEF CreateRow, DeleteCheck, Labels
  <2>2. \A v \in Workers \ {w} : pc'[v] = pc[v] /\ req'[v] = req[v]
    BY <1>t, <2>1, Requests, Moved DEF WorkersOK
  <2>3. Live' \subseteq Live
    BY <1>t, <1>2 DEF CreateRow, DeleteCheck, Live, DataOK, data
  <2> QED BY <1>a, <1>2, <2>2, <2>3 DEF CreateRow, DeleteCheck, Idle, WillFreeze, data, history
<1>3. ASSUME NEW w \in Workers,
             EnrolList(w) \/ EnrolAdd(w) \/ CreateConvRefused(w) \/ CreateList(w) \/ CreateAdd(w)
      PROVE  ArchiveInv'
  <2>0. active \in SUBSET Users /\ req[w] \in ReqType
    BY <1>t DEF DataOK, WorkersOK
  <2>1. \E label \in Labels, r \in ReqType : Start(w, label, r)
    BY <1>l, <1>n, <1>3, <2>0, Requests
       DEF EnrolList, EnrolAdd, CreateConvRefused, CreateList, CreateAdd, Finish, Labels
  <2>2. \A v \in Workers \ {w} : pc'[v] = pc[v] /\ req'[v] = req[v]
    BY <1>t, <2>1, Moved DEF WorkersOK
  <2>3. UNCHANGED <<archived, Live, thawed>>
    BY <1>3 DEF EnrolList, EnrolAdd, CreateConvRefused, CreateList, CreateAdd, Live, data, history
  <2>4. \A c : ~WillFreeze(w, c)
    BY <1>3 DEF EnrolList, EnrolAdd, CreateConvRefused, CreateList, CreateAdd, WillFreeze
  <2> QED BY <1>a, <2>2, <2>3, <2>4
<1>4. ASSUME NEW w \in Workers, CreateConv(w) PROVE ArchiveInv'
  <2>1. \A v \in Workers \ {w} : pc'[v] = pc[v] /\ req'[v] = req[v]
    BY <1>t, <1>4, MovedOn DEF CreateConv, WorkersOK, Labels
  <2>2. Live' \subseteq Live \cup {req[w].chan}
    BY <1>t, <1>4 DEF CreateConv, Live, DataOK
  <2>3. CASE archived
    BY <1>a, <1>4, <2>1, <2>2, <2>3 DEF CreateConv, WillFreeze
  <2>4. CASE ~archived
    BY <1>4, <2>4 DEF CreateConv, ArchiveInv
  <2> QED BY <2>3, <2>4
<1>5. ASSUME NEW w \in Workers, DeleteFreeze(w) \/ DeleteRow(w) PROVE ArchiveInv'
  <2>1. \A v \in Workers \ {w} : pc'[v] = pc[v] /\ req'[v] = req[v]
    BY <1>t, <1>n, <1>5, Moved, MovedOn DEF DeleteFreeze, DeleteRow, Finish, WorkersOK, Labels
  <2>2. Live' \subseteq Live
    BY <1>t, <1>5 DEF DeleteFreeze, DeleteRow, Live, DataOK
  <2> QED BY <1>a, <1>5, <2>1, <2>2 DEF DeleteFreeze, DeleteRow, WillFreeze, history
<1>6. ASSUME NEW w \in Workers, ArchiveCheck(w) PROVE ArchiveInv'
  <2>1. \A v \in Workers \ {w} : pc'[v] = pc[v] /\ req'[v] = req[v]
    BY <1>t, <1>n, <1>6, Moved DEF ArchiveCheck, WorkersOK, Labels
  <2> QED BY <1>a, <1>6, <2>1 DEF ArchiveCheck, Idle, WillFreeze, Live, data, history
<1>7. ASSUME NEW w \in Workers, ArchiveMark(w) PROVE ArchiveInv'
  <2>1. pc'[w] = "archive_list"
    BY <1>t, <1>7, MovedOn DEF ArchiveMark, WorkersOK, Labels
  <2> QED BY <2>1 DEF ArchiveInv, WillFreeze
<1>8. ASSUME NEW w \in Workers, ArchiveList(w) PROVE ArchiveInv'
  <2> DEFINE r == [req[w] EXCEPT !.convs = Live]
  <2>1. r \in ReqType /\ r.convs = Live
    BY <1>t, <1>l, Requests DEF WorkersOK
  <2>2. Start(w, "archive_freeze", r) /\ UNCHANGED Live
    BY <1>8 DEF ArchiveList, Live, data
  <2> HIDE DEF r
  <2>3. pc'[w] = "archive_freeze" /\ req'[w] = r
    BY <1>t, <2>1, <2>2, Moved DEF WorkersOK, Labels
  <2>4. \A c \in Live' : WillFreeze(w, c)'
    BY <2>1, <2>2, <2>3 DEF WillFreeze
  <2> QED BY <2>4 DEF ArchiveInv, WillFreeze
<1>9. ASSUME NEW w \in Workers, ArchiveFreeze(w) PROVE ArchiveInv'
  <2>1. \A v \in Workers \ {w} : pc'[v] = pc[v] /\ req'[v] = req[v]
    BY <1>t, <1>n, <1>9, Moved DEF ArchiveFreeze, Finish, WorkersOK, Labels
  <2>2. /\ Live' = Live \ req[w].convs
        /\ UNCHANGED <<archived, thawed>> /\ pc[w] = "archive_freeze"
    BY <1>9 DEF ArchiveFreeze, Live, history
  <2> SUFFICES ASSUME archived', NEW c \in Live', c \notin thawed'
               PROVE  \E v \in Workers : WillFreeze(v, c)'
    BY DEF ArchiveInv, WillFreeze
  <2>3. PICK v \in Workers : WillFreeze(v, c)
    BY <2>2 DEF ArchiveInv
  <2>4. v # w
    BY <2>2, <2>3 DEF WillFreeze
  <2>5. WillFreeze(v, c)'
    BY <2>1, <2>3, <2>4 DEF WillFreeze
  <2> QED BY <2>5
<1>10. ASSUME NEW w \in Workers, Crash(w) PROVE ArchiveInv'
  <2>1. \A v \in Workers \ {w} : pc'[v] = pc[v] /\ req'[v] = req[v]
    BY <1>t, <1>n, <1>10, Moved DEF Crash, Finish, WorkersOK, Labels
  <2>2. CASE Archiving(w)
    BY <1>10, <1>l, <2>2 DEF Crash, ArchiveInv, Live, data
  <2>3. CASE ~Archiving(w)
    <3>1. (\A c : ~WillFreeze(w, c)) /\ UNCHANGED <<archived, Live, thawed>>
      BY <1>10, <2>3 DEF Crash, Archiving, WillFreeze, Live, data
    <3> QED BY <1>a, <2>1, <3>1
  <2> QED BY <2>2, <2>3
<1>11. ASSUME NEW u \in Users, Deactivate(u) PROVE ArchiveInv'
  BY <1>11 DEF Deactivate, ArchiveInv, Live, WillFreeze, history
<1>12. CASE UNCHANGED vars
  BY <1>12 DEF vars, data, history, ArchiveInv, Live, WillFreeze
<1> QED BY <1>1, <1>2, <1>3, <1>4, <1>5, <1>6, <1>7, <1>8, <1>9, <1>10, <1>11, <1>12, NextCases

(* Once archiving has run to its end, only conversations created after the *)
(* group was archived still take messages, whatever was created, deleted   *)
(* or archived beside it.                                                  *)
THEOREM ArchivingFreezes == Spec => []ArchiveFreezesAll
<1>1. Init => ArchiveInv
  BY DEF Init, ArchiveInv
<1>2. TypeInv /\ ArchiveInv /\ [Next]_vars => ArchiveInv'
  BY ArchiveStep
<1>3. ArchiveInv => ArchiveFreezesAll
  BY DEF ArchiveInv, ArchiveFreezesAll, Archiving, WillFreeze
<1> QED BY <1>1, <1>2, <1>3, TypeStep, PTL DEF Spec

-------------------------------------------------------------------------------
(* The channels' requests do nothing to the memberships beyond what Groups *)
(* lets happen: enrolment, creation, deletion, archiving and crashes leave *)
(* who is active alone, and a group is archived once.                      *)
THEOREM MembershipRefinement == Spec => ImplementsMembership
<1>1. Init => Members!Init
  BY DEF Init, Members!Init
<1>2. ASSUME TypeInv, [Next]_vars PROVE [Members!Next]_(Members!vars)
  <2>t. archived \in BOOLEAN
    BY <1>2, TypeParts DEF TypeInv, DataOK
  <2>1. ASSUME NEW w \in Workers, NEW u \in Users, Activate(w, u)
        PROVE  [Members!Next]_(Members!vars)
    BY <2>1 DEF Activate, Members!Next, Members!Activate
  <2>2. ASSUME NEW u \in Users, Deactivate(u) PROVE [Members!Next]_(Members!vars)
    BY <2>2 DEF Deactivate, Members!Next, Members!Deactivate
  <2>3. ASSUME NEW w \in Workers, ArchiveMark(w) PROVE [Members!Next]_(Members!vars)
    BY <2>t, <2>3 DEF ArchiveMark, Members!Next, Members!Archive, Members!vars
  <2>4. CASE \/ \E w \in Workers, u \in Users : ActivateNothing(w, u)
             \/ \E w \in Workers, c \in Channels : CreateRow(w, c) \/ DeleteCheck(w, c)
             \/ \E w \in Workers :
                  \/ EnrolList(w) \/ EnrolAdd(w)
                  \/ CreateConv(w) \/ CreateConvRefused(w) \/ CreateList(w) \/ CreateAdd(w)
                  \/ DeleteFreeze(w) \/ DeleteRow(w)
                  \/ ArchiveCheck(w) \/ ArchiveList(w) \/ ArchiveFreeze(w)
                  \/ Crash(w)
             \/ UNCHANGED vars
    <3>1. UNCHANGED <<active, archived>>
      BY <2>4 DEF ActivateNothing, CreateRow, DeleteCheck, EnrolList, EnrolAdd, CreateConv,
                  CreateConvRefused, CreateList, CreateAdd, DeleteFreeze, DeleteRow,
                  ArchiveCheck, ArchiveList, ArchiveFreeze, Crash, vars, data
    <3> QED BY <3>1 DEF Members!vars
  <2> QED BY <1>2, <2>1, <2>2, <2>3, <2>4, NextCases
<1> QED BY <1>1, <1>2, TypeStep, PTL DEF Spec, ImplementsMembership, Members!Spec
===============================================================================
