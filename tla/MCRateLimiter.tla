---------------------------- MODULE MCRateLimiter ----------------------------
(***************************************************************************)
(* Instances of RateLimiter for TLC.                                       *)
(***************************************************************************)
EXTENDS RateLimiter, TLC

CONSTANTS i1, i2, c1, c2, c3

Symmetry == Permutations(Ids) \cup Permutations(Callers)

=============================================================================
