--------------------------- MODULE RunnerRefinement ---------------------------
(* Runner implements RunContract: the refinement mapping.                     *)
EXTENDS Runner

Allows == [i \in DOMAIN rb |-> rb[i].tolerate]

Over == [j \in 1 .. idx - 1 |-> lines[j]]

(* A call ends with the context's error when it was cut short by its end.     *)
Sent == CASE path = NoPath                -> "no"
          [] path # NoPath /\ err = "ctx" -> "cut"
          [] OTHER                        -> "sent"

Contract == INSTANCE RunContract WITH
  allows <- Allows, over <- Over, sent <- Sent, cause <- ctx, verdict <- summary.how

(* Every run is one the documentation allows: whatever is captured, refused,  *)
(* cut short or answered late, a call is begun only after those before it     *)
(* succeeded or were allowed to fail, none is sent after the end of the       *)
(* context, a tolerated call that was cut short ends the run all the same,    *)
(* and the summary names what happened (Run, run.go:33-66).                   *)
ImplementsRunContract == Contract!Spec
=============================================================================
