--------------------------- MODULE ApplicationLadder ---------------------------
(***************************************************************************)
(* What the status machine promises of an application, without requests,   *)
(* their overlaps and the audit trail: each status it gets follows, by the *)
(* table of transitions, one that it has had.  Not the one it has now: two *)
(* employers may act on one status, and the second moves the row on from   *)
(* where it was.                                                           *)
(***************************************************************************)
EXTENDS Naturals, Sequences

CONSTANT Seekers     \* one application each

VARIABLES
  status,            \* "none" before it is submitted
  reached            \* every status the application has had

vars == <<status, reached>>

Rungs == <<"submitted", "under_review", "shortlisted", "interview", "offered", "hired">>

Ends == {"hired", "rejected", "withdrawn"}
Statuses == {Rungs[i] : i \in 1 .. 6} \cup Ends

(* The next rung, or out: rejected or withdrawn. *)
Follows(from, to) ==
  /\ from \notin Ends
  /\ \/ to \in {"rejected", "withdrawn"}
     \/ \E i \in 1 .. 5 : from = Rungs[i] /\ to = Rungs[i + 1]

Enter(s, to) ==
  /\ status' = [status EXCEPT ![s] = to]
  /\ reached' = [reached EXCEPT ![s] = @ \cup {to}]

Init == status = [s \in Seekers |-> "none"] /\ reached = [s \in Seekers |-> {}]

Submit(s) == status[s] = "none" /\ Enter(s, "submitted")

Move(s, from, to) == from \in reached[s] /\ Follows(from, to) /\ Enter(s, to)

Next == \E s \in Seekers : Submit(s) \/ \E from \in reached[s], to \in Statuses : Move(s, from, to)

Spec == Init /\ [][Next]_vars
===============================================================================
