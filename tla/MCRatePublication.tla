------------------------- MODULE MCRatePublication -------------------------
(* Small instances of RatePublication for TLC. *)
EXTENDS RatePublication, TLC

\* The second rule version prices to nothing with the first quote.
SomeUnpriceable == {[quote |-> 1, rev |-> 2]}

Symmetry == Permutations(Replicas) \cup Permutations(Requests)
              \cup Permutations(Products)
=============================================================================
