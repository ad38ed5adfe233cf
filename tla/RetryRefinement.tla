--------------------------- MODULE RetryRefinement ---------------------------
(* RetryEngine implements RetryContract: the refinement mapping.  A call is   *)
(* done when its outcome stands; what is left to drain then is a stutter.     *)
EXTENDS RetryEngine

Contract == INSTANCE RetryContract WITH
  budget  <- cfg.maxRetries,
  tries   <- n,
  phase   <- IF Decided THEN "done"
             ELSE IF pc \in {"drain", "sleep"} THEN "waiting" ELSE "trying",
  ended   <- Ended,
  outcome <- IF result.err = "timeout" /\ result.kind = "ctx"
               THEN "timeout" ELSE result.kind,
  handed  <- result.resp

(* Every run of the loop is a run of the contract: it waits and retries only *)
(* within the budget and for a caller who still wants it, and whatever the   *)
(* status lists, predicates, caps and errors do, one of the outcomes the     *)
(* contract allows is all that comes out (Do, retry.go:123-205).             *)
ImplementsContract == Contract!Spec
=============================================================================
