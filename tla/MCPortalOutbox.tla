---------------------------- MODULE MCPortalOutbox ----------------------------
(* Views and pollers are interchangeable; one sender stands for both. *)
EXTENDS PortalOutbox, TLC

Symmetry == Permutations(Views) \cup Permutations(Pollers)
===============================================================================
