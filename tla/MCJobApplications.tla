--------------------------- MODULE MCJobApplications ---------------------------
(* Model values and bounds for TLC; workers are interchangeable. *)
EXTENDS JobApplications, TLC

Symmetry == Permutations(Workers)
===============================================================================
