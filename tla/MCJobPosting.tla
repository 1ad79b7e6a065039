---------------------------- MODULE MCJobPosting ----------------------------
(* Model values and bounds for TLC; workers are interchangeable. *)
EXTENDS JobPosting, TLC

Symmetry == Permutations(Workers)
===============================================================================
