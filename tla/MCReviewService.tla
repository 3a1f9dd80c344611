-------------------------- MODULE MCReviewService --------------------------
(* Values for the constants of ReviewService.                              *)
EXTENDS ReviewService, TLC

CONSTANTS r1, r2, r3, r4

\* r1 and r2 are requests with the same idempotency key, the others have their own.
PairedKeys == [r \in Review |-> IF r = r2 THEN r1 ELSE r]

Symmetric == Permutations(Canceller) \union Permutations({r3, r4})
=============================================================================
