--------------------------- MODULE MCRateLimiter ---------------------------
(* Symmetry for the run of RateLimiter.                                    *)
EXTENDS RateLimiter, TLC

Symmetry == Permutations(Clients) \cup Permutations(Requests) \cup Permutations(Limiters)
=============================================================================
