------------------------------ MODULE MCEventRsvp ------------------------------
(* Model values and bounds for TLC; users and workers are interchangeable. *)
EXTENDS EventRsvp, TLC

Symmetry == Permutations(Users) \cup Permutations(Workers)
===============================================================================
