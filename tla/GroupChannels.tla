---------------------------- MODULE GroupChannels ----------------------------
(***************************************************************************)
(* The channels of one community group and who is enrolled in their        *)
(* conversations, as members come and go, channels are created and deleted *)
(* and the group is archived.  Of a membership only its being active is    *)
(* kept: Groups says how it gets there.                                    *)
(*                                                                         *)
(* Joining, approving, creating, deleting and archiving each run several   *)
(* statements that commit one by one; no transaction spans two of them.    *)
(***************************************************************************)
EXTENDS Naturals, FiniteSets

CONSTANTS
  Users,      \* accounts
  Creator,    \* who created the group
  Workers,    \* requests in progress at one time
  Channels,   \* channels the group may ever have
  General,    \* the default channel
  Nobody      \* no user

ASSUME ChannelConstants ==
  /\ Creator \in Users
  /\ General \in Channels
  /\ Nobody \notin Users
  /\ Users \cap Channels = {}

VARIABLES
  active,     \* users whose membership is active
  archived,   \* the group is soft-deleted
  chan,       \* what exists of each channel: its row, its conversation
  enrolled,   \* chat_conversation_members of each channel's conversation
  pc,         \* where each worker's request stands
  req,        \* what each worker's request has read
  cut,        \* history: users and channels whose enrolment a crash cut short
  thawed      \* history: conversations no finished archiving has to account for

data == <<active, archived, chan, enrolled>>
history == <<cut, thawed>>
vars == <<data, pc, req, history>>

NoRequest == [user |-> Nobody, chan |-> General, convs |-> {}, users |-> {}]
Live == {c \in Channels : chan[c] = "live"}

Idle(w) == pc[w] = "idle" /\ req[w] = NoRequest
Start(w, label, r) == pc' = [pc EXCEPT ![w] = label] /\ req' = [req EXCEPT ![w] = r]
Goto(w, label) == pc' = [pc EXCEPT ![w] = label] /\ UNCHANGED req
Finish(w) == Start(w, "idle", NoRequest)
Archiving(w) == pc[w] \in {"archive_mark", "archive_list", "archive_freeze"}

(* Operators named Buggy... are wrong variants of the definition they precede. *)
(* No action uses them: they show which mistakes the properties catch.         *)

-------------------------------------------------------------------------------
(* createGroup: the group with its creator is committed first, then the    *)
(* General channel is created the way createChannel creates one.           *)
Init ==
  /\ active = {Creator}
  /\ archived = FALSE
  /\ chan = [c \in Channels |-> "none"]
  /\ enrolled = [c \in Channels |-> {}]
  /\ pc = [w \in Workers |-> "idle"]
  /\ req = [w \in Workers |-> NoRequest]
  /\ cut = {}
  /\ thawed = {}

(* joinOpenGroup and approveJoinRequest make the membership active, after  *)
(* checks that nothing here depends on, and go on to enrol the user.       *)
Activate(w, u) ==
  /\ Idle(w)
  /\ u \notin active
  /\ active' = active \cup {u}
  /\ Start(w, "enrol_list", [NoRequest EXCEPT !.user = u])
  /\ UNCHANGED <<archived, chan, enrolled, history>>

(* The insert met a row that is not active, or the approved row is gone:   *)
(* both handlers go on all the same.                                       *)
ActivateNothing(w, u) ==
  /\ Idle(w)
  /\ Start(w, "enrol_list", [NoRequest EXCEPT !.user = u])
  /\ UNCHANGED <<data, history>>

(* The user leaves or is banned: the conversations keep them. *)
Deactivate(u) ==
  /\ u \in active
  /\ active' = active \ {u}
  /\ UNCHANGED <<archived, chan, enrolled, pc, req, history>>

(* listAllChannelConversationIds, then addMembersToConversation. *)
EnrolList(w) ==
  /\ pc[w] = "enrol_list"
  /\ Start(w, "enrol_add", [req[w] EXCEPT !.convs = Live])
  /\ UNCHANGED <<data, history>>

BuggyEnrolAddForgetsRequest(w) ==
  /\ pc[w] = "enrol_add"
  /\ enrolled' = [c \in Channels |-> IF c \in req[w].convs THEN enrolled[c] \cup {Nobody}
                                                          ELSE enrolled[c]]
  /\ Finish(w)
  /\ UNCHANGED <<active, archived, chan, history>>

EnrolAdd(w) ==
  /\ pc[w] = "enrol_add"
  /\ enrolled' = [c \in Channels |-> IF c \in req[w].convs THEN enrolled[c] \cup {req[w].user}
                                                          ELSE enrolled[c]]
  /\ Finish(w)
  /\ UNCHANGED <<active, archived, chan, history>>

-------------------------------------------------------------------------------
(* createDefaultChannel, createChannel: the row, its conversation, the     *)
(* active members, who are then enrolled.  Nobody asks whether the group   *)
(* is archived.                                                            *)
CreateRow(w, c) ==
  /\ Idle(w)
  /\ chan[c] = "none"
  /\ chan' = [chan EXCEPT ![c] = "row"]
  /\ Start(w, "create_conv", [NoRequest EXCEPT !.chan = c])
  /\ UNCHANGED <<active, archived, enrolled, history>>

CreateConv(w) ==
  /\ pc[w] = "create_conv"
  /\ chan[req[w].chan] = "row"
  /\ chan' = [chan EXCEPT ![req[w].chan] = "live"]
  /\ thawed' = IF archived THEN thawed \cup {req[w].chan} ELSE thawed
  /\ Goto(w, "create_list")
  /\ UNCHANGED <<active, archived, enrolled, cut>>

(* The foreign key refuses a conversation of a channel deleted meanwhile. *)
CreateConvRefused(w) ==
  /\ pc[w] = "create_conv"
  /\ chan[req[w].chan] # "row"
  /\ Finish(w)
  /\ UNCHANGED <<data, history>>

BuggyCreateListFromGeneral(w) ==
  /\ pc[w] = "create_list"
  /\ Start(w, "create_add", [req[w] EXCEPT !.users = enrolled[General]])
  /\ UNCHANGED <<data, history>>

CreateList(w) ==
  /\ pc[w] = "create_list"
  /\ Start(w, "create_add", [req[w] EXCEPT !.users = active])
  /\ UNCHANGED <<data, history>>

CreateAdd(w) ==
  /\ pc[w] = "create_add"
  /\ enrolled' = [enrolled EXCEPT ![req[w].chan] = @ \cup req[w].users]
  /\ Finish(w)
  /\ UNCHANGED <<active, archived, chan, history>>

(* deleteChannel: never the default one; a conversation that is still live *)
(* is frozen before the row goes.                                          *)
DeleteCheck(w, c) ==
  /\ Idle(w)
  /\ c # General
  /\ chan[c] \in {"row", "live", "frozen"}
  /\ Start(w, IF chan[c] = "live" THEN "delete_freeze" ELSE "delete_row",
           [NoRequest EXCEPT !.chan = c])
  /\ UNCHANGED <<data, history>>

DeleteFreeze(w) ==
  /\ pc[w] = "delete_freeze"
  /\ chan' = [chan EXCEPT ![req[w].chan] = IF @ = "gone" THEN @ ELSE "frozen"]
  /\ Goto(w, "delete_row")
  /\ UNCHANGED <<active, archived, enrolled, history>>

(* The conversation loses its channel_id and drops out of every listing. *)
DeleteRow(w) ==
  /\ pc[w] = "delete_row"
  /\ chan' = [chan EXCEPT ![req[w].chan] = "gone"]
  /\ Finish(w)
  /\ UNCHANGED <<active, archived, enrolled, history>>

(* archiveGroup: deleted_at first, then the conversations there are now.   *)
ArchiveCheck(w) ==
  /\ Idle(w)
  /\ ~archived
  /\ Start(w, "archive_mark", NoRequest)
  /\ UNCHANGED <<data, history>>

ArchiveMark(w) ==
  /\ pc[w] = "archive_mark"
  /\ archived' = TRUE
  /\ Goto(w, "archive_list")
  /\ UNCHANGED <<active, chan, enrolled, history>>

BuggyArchiveListDefault(w) ==
  /\ pc[w] = "archive_list"
  /\ Start(w, "archive_freeze", [req[w] EXCEPT !.convs = Live \cap {General}])
  /\ UNCHANGED <<data, history>>

ArchiveList(w) ==
  /\ pc[w] = "archive_list"
  /\ Start(w, "archive_freeze", [req[w] EXCEPT !.convs = Live])
  /\ UNCHANGED <<data, history>>

ArchiveFreeze(w) ==
  /\ pc[w] = "archive_freeze"
  /\ chan' = [c \in Channels |-> IF c \in req[w].convs /\ chan[c] = "live" THEN "frozen"
                                                                     ELSE chan[c]]
  /\ Finish(w)
  /\ UNCHANGED <<active, archived, enrolled, history>>

(* The process stops between two statements of a request. *)
Crash(w) ==
  /\ pc[w] # "idle"
  /\ Finish(w)
  /\ cut' = cut
       \cup (IF pc[w] \in {"enrol_list", "enrol_add"} THEN {req[w].user} ELSE {})
       \cup (IF pc[w] \in {"create_list", "create_add"} THEN {req[w].chan} ELSE {})
  /\ thawed' = IF Archiving(w) THEN Channels ELSE thawed
  /\ UNCHANGED data

Next ==
  \/ \E w \in Workers :
       \/ \E u \in Users : Activate(w, u) \/ ActivateNothing(w, u)
       \/ \E c \in Channels : CreateRow(w, c) \/ DeleteCheck(w, c)
       \/ EnrolList(w) \/ EnrolAdd(w)
       \/ CreateConv(w) \/ CreateConvRefused(w) \/ CreateList(w) \/ CreateAdd(w)
       \/ DeleteFreeze(w) \/ DeleteRow(w)
       \/ ArchiveCheck(w) \/ ArchiveMark(w) \/ ArchiveList(w) \/ ArchiveFreeze(w)
       \/ Crash(w)
  \/ \E u \in Users : Deactivate(u)

Spec == Init /\ [][Next]_vars

-------------------------------------------------------------------------------
Labels == {"idle", "enrol_list", "enrol_add", "create_conv", "create_list", "create_add",
           "delete_freeze", "delete_row", "archive_mark", "archive_list",
           "archive_freeze"}

(* Every variable holds a value of its column's or local's type. *)
TypeOK ==
  /\ active \subseteq Users
  /\ archived \in BOOLEAN
  /\ chan \in [Channels -> {"none", "row", "live", "frozen", "gone"}]
  /\ enrolled \in [Channels -> SUBSET Users]
  /\ pc \in [Workers -> Labels]
  /\ req \in [Workers -> [user : Users \cup {Nobody}, chan : Channels,
                          convs : SUBSET Channels, users : SUBSET Users]]
  /\ cut \subseteq Users \cup Channels
  /\ thawed \subseteq Channels

WillEnrol(w, u, c) ==
  \/ req[w].user = u /\ pc[w] = "enrol_list"
  \/ req[w].user = u /\ pc[w] = "enrol_add" /\ c \in req[w].convs
  \/ req[w].chan = c /\ pc[w] = "create_list"
  \/ req[w].chan = c /\ pc[w] = "create_add" /\ u \in req[w].users

(* No member slips between joining and a channel's creation: whoever is    *)
(* active is in the conversation of every live channel, or a request in    *)
(* progress is about to add them, or a crash cut one of the two short.     *)
EnrolmentComplete ==
  \A u \in active, c \in Live :
    \/ u \in enrolled[c]
    \/ u \in cut \/ c \in cut
    \/ \E w \in Workers : WillEnrol(w, u, c)

(* Once archiving has run to its end, a conversation that still takes      *)
(* messages was created after the group was archived: none that was there  *)
(* is missed, whatever is created or deleted meanwhile.                    *)
ArchiveFreezesAll ==
  archived /\ (\A w \in Workers : ~Archiving(w)) => Live \subseteq thawed

(* Of the memberships nothing more is assumed than what Groups offers (Membership). *)
Members == INSTANCE Membership
ImplementsMembership == Members!Spec
===============================================================================
