------------------------------ MODULE ViewSignal ------------------------------
(***************************************************************************)
(* What the "viewed by employer" signal promises to a seeker, without the  *)
(* outbox, its pollers and their failures: a view is recorded once, and    *)
(* only a recorded view is ever announced, at most one time.               *)
(***************************************************************************)
CONSTANT Views      \* (application, employer) pairs

VARIABLES
  recorded,         \* views the portal has recorded
  announced         \* views announced to the seeker in real time

vars == <<recorded, announced>>

Init == recorded = {} /\ announced = [v \in Views |-> 0]

Record(v) ==
  /\ v \notin recorded
  /\ recorded' = recorded \cup {v}
  /\ UNCHANGED announced

Announce(v) ==
  /\ v \in recorded
  /\ announced[v] = 0
  /\ announced' = [announced EXCEPT ![v] = 1]
  /\ UNCHANGED recorded

Next == \E v \in Views : Record(v) \/ Announce(v)

Spec == Init /\ [][Next]_vars
===============================================================================
