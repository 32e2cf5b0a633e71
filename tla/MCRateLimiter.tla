--------------------------- MODULE MCRateLimiter ---------------------------
(* Two callers and two worker threads over three windows.                    *)
EXTENDS RateLimiter, TLC

CONSTANTS k1, k2, t1, t2

Alike == Permutations({k1, k2}) \cup Permutations({t1, t2})
=============================================================================
