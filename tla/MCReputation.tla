----------------------------- MODULE MCReputation -----------------------------
(* The rounds of an engine beside the aggregator that records them: two       *)
(* spellings of the engine's address, and an address that is not registered. *)
EXTENDS MonocleReputation, MonocleProperties, TLC

CONSTANTS mixed_case, lower_case, unknown

MCNormalized ==
    (mixed_case :> lower_case) @@ (lower_case :> lower_case) @@ (unknown :> unknown)

Symmetry == Permutations(Account) \cup Permutations(Content)

=============================================================================
