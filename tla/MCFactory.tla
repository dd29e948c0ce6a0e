------------------------------- MODULE MCFactory -------------------------------
(* Two creators and the owner.                                              *)
EXTENDS FactoryClient, TLC

CONSTANTS u1, u2, own

Symmetry == Permutations(Creator)

=============================================================================
