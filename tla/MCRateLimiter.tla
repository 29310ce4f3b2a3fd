---------------------------- MODULE MCRateLimiter ----------------------------
(* Small instances of RateLimiter. *)
EXTENDS RateLimiter, TLC

CONSTANTS c1, c2, p1, p2

Symmetry == Permutations(Clients) \cup Permutations(Requests)
=============================================================================
