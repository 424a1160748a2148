--------------------------- MODULE MCRateLimiter ---------------------------
(* Instances of RateLimiter for TLC.  The identities of requests are       *)
(* interchangeable, so the safety runs use their symmetry; the runs with   *)
(* liveness properties do not.                                             *)
EXTENDS RateLimiter, TLC

RequestSymmetry == Permutations(Requests)
=============================================================================
