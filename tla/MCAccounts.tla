------------------------------ MODULE MCAccounts ------------------------------
(* One account and the requests about it, for TLC: which worker runs a     *)
(* request does not matter.                                                *)
EXTENDS Accounts, TLC

(* A second suspension, or a verification link that is still unused, is    *)
(* looked at only while no deletion is under way.                          *)
Deleting ==
  \/ user.due # "none" \/ token
  \/ \E w \in Workers : pc[w] \in {"delete", "cancel_check", "cancel"}
Bound == Deleting => ~link /\ \A s \in Ids : s > 1 => susp[s] = "none"

Symmetry == Permutations(Workers)
===============================================================================
