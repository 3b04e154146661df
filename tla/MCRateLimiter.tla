--------------------------- MODULE MCRateLimiter ---------------------------
(***************************************************************************)
(* Small instances of RateLimiter.                                         *)
(***************************************************************************)
EXTENDS RateLimiter, TLC

\* The senders do the same.
Permuted == Permutations(Senders)
=============================================================================
