---------------------------- MODULE MCPL2303Unit ----------------------------
(***************************************************************************)
(* TLC instances of PL2303Unit.                                            *)
(***************************************************************************)
EXTENDS PL2303Unit, TLC

CONSTANTS c1, c2, c3

ThreeClients == {c1, c2, c3}
Exclusives == Permutations({c1, c2})
=============================================================================
