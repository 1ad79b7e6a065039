--------------------------- MODULE MCGroupChannels ---------------------------
(* Small instances of GroupChannels for TLC. *)
EXTENDS GroupChannels, TLC

Symmetry == Permutations(Users \ {Creator}) \cup Permutations(Workers)
===============================================================================
