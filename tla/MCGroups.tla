------------------------------- MODULE MCGroups -------------------------------
(* Small instances of Groups for TLC. *)
EXTENDS Groups, TLC

Symmetry == Permutations(Users \ {Creator}) \cup Permutations(Workers)

(* Once both histories are set no invariant says anything more. *)
Bound == ~(drift /\ contested)
===============================================================================
