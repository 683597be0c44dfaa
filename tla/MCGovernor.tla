----------------------------- MODULE MCGovernor -----------------------------
(* One model: the governor keeps nothing that spans two.                     *)
EXTENDS Governor, TLC

Symmetry == Permutations(Req)
=============================================================================
