--------------------------- MODULE MCRateLimit ---------------------------
(* Instances of RateLimit for TLC. *)
EXTENDS RateLimit, TLC

\* All addresses but one have the same hash, and are interchangeable.
CONSTANT Other
MCHash(a) == IF a = Other THEN 1 ELSE 0
Symmetry == Permutations(Address \ {Other})
=============================================================================
