------------------------------ MODULE MCHyprCtl ------------------------------
(* HyprCtl with two callers: one of them can make a call, time out and make  *)
(* another while the other's request is between the two.                     *)
EXTENDS HyprCtl, TLC

CONSTANTS c1, c2

CallerSymmetry == Permutations({c1, c2})
=============================================================================
