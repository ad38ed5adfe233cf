--------------------------- MODULE MCRetryInvariant ---------------------------
(* RetryInvariant and RetryRefinement on the instances of MCRetryEngine. *)
EXTENDS MCRetryEngine, RetryInvariant
=============================================================================
