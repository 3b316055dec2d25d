----------------------------- MODULE MCPL2303IO -----------------------------
(***************************************************************************)
(* TLC instances of PL2303IO.                                              *)
(***************************************************************************)
EXTENDS PL2303IO, TLC

CONSTANTS r1, r2, r3


TwoReqs == {r1, r2}
ThreeReqs == {r1, r2, r3}
Symmetry2 == Permutations(TwoReqs)
Symmetry3 == Permutations(ThreeReqs)
=============================================================================
