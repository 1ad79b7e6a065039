------------------------------- MODULE MCPoints -------------------------------
(* Small instances of Points for TLC. *)
EXTENDS Points, TLC

CONSTANTS ada, obi

(* obi reacts to ada's post and attends ada's event; ada reacts to her own *)
(* post.                                                                   *)
MCActivities ==
  {[actor |-> obi, earner |-> ada, item |-> i] : i \in {"post", "event"}}
    \cup {[actor |-> ada, earner |-> ada, item |-> "post"]}

Symmetry == Permutations(Workers)
===============================================================================
