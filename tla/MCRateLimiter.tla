---------------------------- MODULE MCRateLimiter ----------------------------
(* An instance of RateLimiter for TLC: more requests than the limit and more *)
(* keys than a map may hold before it is cleaned up, in three minutes.      *)
EXTENDS RateLimiter, TLC

CONSTANTS r1, r2, r3, k1, k2, k3, p1, p2

MCSymmetry == Permutations({r1, r2, r3}) \cup Permutations({k1, k2, k3})
                \cup Permutations({p1, p2})

===========================================================================
