--------------------------- MODULE MCRateLimiter ---------------------------
(* Instances of RateLimiter for TLC.                                       *)
EXTENDS RateLimiter, TLC

CONSTANTS a, b, w1, w2

SymWorkers == Permutations(Workers)

=============================================================================
