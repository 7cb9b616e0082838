--------------------------- MODULE MCPricingRules ---------------------------
(* Small instances of PricingRules for TLC. *)
EXTENDS PricingRules, TLC

Symmetry == Permutations(Attempts) \cup Permutations(Rules) \cup Permutations(Terms)
=============================================================================
