------------------------------ MODULE ReviewGate ------------------------------
(***************************************************************************)
(* What the admin's review promises of a posting, without requests and     *)
(* their overlaps: it comes out of the queue by one decision, nothing but a*)
(* decision makes it private again, and it is public only if some decision *)
(* has cleared it.  A posting that was cleared once may return without     *)
(* another decision, and even out of the queue: an employer's write by id  *)
(* does not ask where the posting is.                                      *)
(***************************************************************************)
CONSTANT Postings

VARIABLES
  stage,     \* "private", "queued" or "public" (live, paused, expired, filled)
  cleared    \* postings that a decision has let pass

vars == <<stage, cleared>>

Init == stage = [j \in Postings |-> "private"] /\ cleared = {}

PutIn(j, where) == stage' = [stage EXCEPT ![j] = where]

Enter(j) == PutIn(j, "queued") /\ UNCHANGED cleared

Release(j) ==
  /\ stage[j] = "queued"
  /\ PutIn(j, "public")
  /\ cleared' = cleared \cup {j}

Refuse(j) == stage[j] = "queued" /\ PutIn(j, "private") /\ UNCHANGED cleared

Return(j) == j \in cleared /\ PutIn(j, "public") /\ UNCHANGED cleared

Next == \E j \in Postings : Enter(j) \/ Release(j) \/ Refuse(j) \/ Return(j)

Spec == Init /\ [][Next]_vars
===============================================================================
