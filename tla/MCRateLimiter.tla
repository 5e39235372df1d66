--------------------------- MODULE MCRateLimiter ---------------------------
(***************************************************************************)
(* RateLimiter for TLC: processes are alike, and so are clients.           *)
(***************************************************************************)
EXTENDS RateLimiter, TLC

Symmetry == Permutations(Procs) \cup Permutations(Keys)

=============================================================================
