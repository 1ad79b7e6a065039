------------------------------ MODULE Membership ------------------------------
(***************************************************************************)
(* Where Groups and GroupChannels meet: who is an active member of a group *)
(* and whether the group is archived.  Groups has to keep to it however    *)
(* its requests overlap, and GroupChannels lets happen all of it and no    *)
(* more: memberships change one user at a time, an archived group stays    *)
(* archived, and joining one is not excluded.                              *)
(***************************************************************************)
CONSTANTS
  Users,      \* accounts
  Creator     \* who created the group

VARIABLES active, archived

vars == <<active, archived>>

Init == active = {Creator} /\ archived = FALSE

Activate(u) == u \notin active /\ active' = active \cup {u} /\ UNCHANGED archived

Deactivate(u) == u \in active /\ active' = active \ {u} /\ UNCHANGED archived

Archive == ~archived /\ archived' = TRUE /\ UNCHANGED active

Next == Archive \/ \E u \in Users : Activate(u) \/ Deactivate(u)

Spec == Init /\ [][Next]_vars
===============================================================================
